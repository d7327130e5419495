------------------------- MODULE BatteryBalanceProofs -------------------------
(* Proofs about the time and the scheduler, for every length of the day and  *)
(* of the hour and whatever ground sets and schedules, from the specification *)
(* that composes them with the EPS task: in SAFE_MODE time stands still, the  *)
(* scheduler always finds its next command due, all variables keep their      *)
(* widths, and no day is lost or counted twice.                              *)
EXTENDS BatteryBalance, TLAPS

(* A remainder of a division by Byte is a byte. *)
LEMMA RemainderIsByte == ASSUME NEW x \in Int PROVE x % Byte \in 0..Byte-1
  BY TimeAssumption DEF TimeAssumption

-----------------------------------------------------------------------------
(* Time stands still *)

(* After FDIR's update the time is what the struct of the time task holds.    *)
Updated ==
  fdir_updated = 1 =>
    /\ SAFE_MODE = 1 /\ "time" \in suspended
    /\ CURRENT_HOUR = time.hour /\ CURRENT_MINUTE = time.minute
    /\ CURRENT_TIME = Packed(ABSOLUTE_DAY, CURRENT_HOUR, CURRENT_MINUTE)

(* FDIR's update brings this about, and repeats it in SAFE_MODE.              *)
LEMMA UpdateUpdates ==
  ASSUME TimeUpdate
  PROVE  Updated' /\ (Updated /\ fdir_updated = 1 => UNCHANGED timeOfDay)
  BY DEF TimeUpdate, FdirUpdate, InLoop, Tasks, UpdateAbsoluteTime, Updated, timeOfDay,
         readVars, modeVars

(* The time task does not run while it is suspended. *)
LEMMA TimeTaskWaits ==
  TimeTask => "time" \notin suspended /\ UNCHANGED <<suspended, SAFE_MODE, fdir_updated>>
  BY DEF TimeTask, PollAlarm, GetMinute, GetHour, StoreHour, CompareHour, SetHour, SetTime,
         ResetAlarm, Runs, modeVars

(* Every step either is FDIR's update, or ends or leaves open the situation,  *)
(* or changes nothing of the time and its struct.                            *)
LEMMA TimeSteps ==
  ASSUME [NextAll]_allVars
  PROVE  \/ TimeUpdate
         \/ fdir_updated' = 0
         \/ fdir_updated' = fdir_updated /\ "time" \notin suspended
         \/ /\ UNCHANGED <<timeOfDay, time, fdir_updated>>
            /\ SAFE_MODE = 1 => SAFE_MODE' = 1
            /\ "time" \in suspended => "time" \in suspended'
  <1>1. CASE Minute
    BY <1>1 DEF Minute, Tick, readVars, modeVars
  <1>2. CASE TimeRuns
    BY <1>2, TimeTaskWaits DEF TimeRuns
  <1>3. CASE FdirRuns
    <2>1. CASE SuspendTasks
      BY <2>1 DEF SuspendTasks, Tasks, readVars
    <2>2. CASE LeaveSafeMode
      BY <2>2 DEF LeaveSafeMode
    <2>3. ASSUME NEW restarted \in Restarts, RestartTask(restarted)
          PROVE  \/ fdir_updated' = 0
                 \/ /\ UNCHANGED <<timeOfDay, time, fdir_updated>>
                    /\ SAFE_MODE = 1 => SAFE_MODE' = 1
                    /\ "time" \in suspended => "time" \in suspended'
      <3>1. EnterSafeMode(restarted) /\ UNCHANGED <<time, timeOfDay>>
        BY <2>3 DEF RestartTask
      <3>2. SAFE_MODE' = 1 /\ suspended' = suspended \ restarted
        BY <3>1 DEF EnterSafeMode
      <3>3. CASE "time" \in restarted
        BY <3>1, <3>3 DEF EnterSafeMode
      <3>4. CASE "time" \notin restarted
        BY <3>1, <3>2, <3>4 DEF EnterSafeMode
      <3> QED
        BY <3>3, <3>4
    <2> QED
      BY <1>3, <2>1, <2>2, <2>3 DEF FdirRuns, RestartTasks
  <1>4. CASE SchedulerRuns
    BY <1>4
    DEF SchedulerRuns, Scheduler, StartScheduling, PassWithCommand, PassWithout, timeVars,
        readVars, modeVars
  <1>5. CASE SetVariable
    BY <1>5 DEF SetVariable, SetObcVariable, SetIntervalOnly, readVars, modeVars
  <1>6. CASE Eps
    BY <1>6
    DEF Eps, StartEps, Balance, EpsIdle, EpsReady, vars, timeVars, readVars, modeVars
  <1>7. CASE UNCHANGED allVars
    BY <1>7 DEF allVars, vars, timeVars, readVars, modeVars
  <1> QED
    BY <1>1, <1>2, <1>3, <1>4, <1>5, <1>6, <1>7 DEF NextAll

(* Init satisfies Updated, as FDIR has updated nothing. *)
LEMMA InitUpdated == InitAll => Updated
  BY DEF InitAll, Init, TimeInit, Updated

(* Every step keeps Updated. *)
LEMMA StepUpdated == Updated /\ [NextAll]_allVars => Updated'
  <1> SUFFICES ASSUME Updated, [NextAll]_allVars
               PROVE  Updated'
    OBVIOUS
  <1>1. CASE TimeUpdate
    BY <1>1, UpdateUpdates
  <1>2. CASE fdir_updated' = 0
    BY <1>2 DEF Updated
  <1>3. CASE fdir_updated' = fdir_updated /\ "time" \notin suspended
    BY <1>3 DEF Updated
  <1>4. CASE /\ UNCHANGED <<timeOfDay, time, fdir_updated>>
             /\ SAFE_MODE = 1 => SAFE_MODE' = 1
             /\ "time" \in suspended => "time" \in suspended'
    BY <1>4 DEF Updated, timeOfDay
  <1> QED
    BY <1>1, <1>2, <1>3, <1>4, TimeSteps

(* Once FDIR has served one alarm in SAFE_MODE, the time of the satellite does *)
(* not change any more until the mode is left, the time task is restarted or   *)
(* ground sets the time, whatever other tasks are restarted and run before    *)
(* they are suspended: FDIR reads the clock into a struct that                *)
(* update_absolute_time does not look at.                                     *)
THEOREM TimeStandsStill == SpecAll => FrozenInSafeMode
  <1>1. Updated /\ [NextAll]_allVars
          => [SAFE_MODE = 1 /\ SAFE_MODE' = 1 /\ fdir_updated = 1 /\ fdir_updated' = 1
               => UNCHANGED timeOfDay]_timeVars
    <2> SUFFICES ASSUME Updated, [NextAll]_allVars,
                        SAFE_MODE = 1, SAFE_MODE' = 1, fdir_updated = 1, fdir_updated' = 1
                 PROVE  UNCHANGED timeOfDay
      OBVIOUS
    <2>1. TimeUpdate => UNCHANGED timeOfDay
      BY UpdateUpdates
    <2> QED
      BY <2>1, TimeSteps DEF Updated
  <1> QED
    BY <1>1, InitUpdated, StepUpdated, PTL DEF SpecAll, FrozenInSafeMode

-----------------------------------------------------------------------------
(* What the scheduler knows *)

(* All but the count are bytes. *)
SchedOK(s) ==
  /\ DOMAIN s = {"num", "next", "temp"}
  /\ s.num \in Nat /\ s.next \in 0..Byte-1 /\ s.temp \in 0..Byte-1

SchedInv ==
  /\ num_commands \in Nat
  /\ next_command_time \in 0..Byte-1
  /\ temp0 \in 0..Byte-1

(* A word holds more than a byte. *)
LEMMA Words == Word \in Nat \ {0} /\ Byte \in Nat \ {0} /\ MAX_SCHED_COMMANDS \in Nat
  BY TimeAssumption, SchedulingAssumption DEF TimeAssumption, SchedulingAssumption

(* Executing a command leaves the low byte of the count as the next time. *)
LEMMA CheckKeeps ==
  ASSUME NEW s, SchedOK(s)
  PROVE  SchedOK(CheckSchedule(s))
  <1> DEFINE left == (s.num + Word - 1) % Word
  <1>1. left \in Nat
    BY Words DEF SchedOK
  <1> HIDE DEF left
  <1>2. left % Byte \in 0..Byte-1
    BY <1>1, RemainderIsByte
  <1>3. CASE Due(s)
    <2>1. CheckSchedule(s) = [num |-> left, next |-> left % Byte, temp |-> left % Byte]
      BY <1>3 DEF CheckSchedule, left
    <2> QED
      BY <1>1, <1>2, <2>1 DEF SchedOK
  <1>4. CASE ~Due(s)
    BY <1>4 DEF CheckSchedule
  <1> QED
    BY <1>3, <1>4

(* Adding commands only ever lowers the next time, to that of a command. *)
LEMMA ModifyKeeps ==
  ASSUME NEW s, SchedOK(s), NEW n \in Nat, NEW earliest \in Nat
  PROVE  SchedOK(ModifySchedule(s, n, earliest))
  <1> DEFINE num == IF s.num < MAX_SCHED_COMMANDS THEN s.num + n ELSE s.num
             next == IF earliest < s.next THEN earliest ELSE s.next
  <1>1. num \in Nat
    BY Words DEF SchedOK
  <1>2. next \in 0..Byte-1
    BY Words DEF SchedOK
  <1>3. ModifySchedule(s, n, earliest) = [num |-> num, next |-> next, temp |-> num % Byte]
    BY DEF ModifySchedule
  <1> HIDE DEF num, next
  <1>4. num % Byte \in 0..Byte-1
    BY <1>1, RemainderIsByte
  <1> QED
    BY <1>1, <1>2, <1>3, <1>4 DEF SchedOK

(* Clearing the list keeps the next time. *)
LEMMA ClearKeeps ==
  ASSUME NEW s, SchedOK(s)
  PROVE  SchedOK(ClearSchedule(s))
  BY Words DEF ClearSchedule, SchedOK

(* So do all commands of ground. *)
LEMMA CommandKeeps ==
  ASSUME SchedInv, NEW command \in Commands, NEW n \in 1..MaxCommands,
         NEW earliest \in CommandTimes
  PROVE  SchedOK(CheckSchedule(ExecPusCommand(command, n, earliest)))
  <1>1. SchedOK(Sched)
    BY DEF SchedInv, Sched, SchedOK
  <1>2. n \in Nat /\ earliest \in Nat
    BY SchedulingAssumption DEF SchedulingAssumption
  <1>3. SchedOK(ExecPusCommand(command, n, earliest))
    BY <1>1, <1>2, ModifyKeeps, CheckKeeps, ClearKeeps DEF ExecPusCommand, Commands
  <1> QED
    BY <1>3, CheckKeeps

(* Init satisfies the invariant. *)
LEMMA InitSched == InitAll => SchedInv
  BY Words DEF InitAll, Init, SchedInv

(* Only the scheduler changes its variables. *)
LEMMA StepSched == SchedInv /\ [NextAll]_allVars => SchedInv'
  <1> SUFFICES ASSUME SchedInv, [NextAll]_allVars
               PROVE  SchedInv'
    OBVIOUS
  <1>1. CASE SchedulerRuns
    <2>1. CASE StartScheduling
      BY <2>1, Words DEF StartScheduling, SchedInv
    <2>2. CASE PassWithout
      <3>1. SchedOK(CheckSchedule(Sched))
        BY CheckKeeps DEF SchedInv, Sched, SchedOK
      <3> QED
        BY <2>2, <3>1 DEF PassWithout, SetSched, SchedOK, SchedInv
    <2>3. ASSUME NEW command \in Commands, NEW n \in 1..MaxCommands,
                 NEW earliest \in CommandTimes, PassWithCommand(command, n, earliest)
          PROVE  SchedInv'
      <3>1. SchedOK(CheckSchedule(ExecPusCommand(command, n, earliest)))
        BY CommandKeeps
      <3> QED
        BY <2>3, <3>1 DEF PassWithCommand, SetSched, SchedOK, SchedInv
    <2> QED
      BY <1>1, <2>1, <2>2, <2>3 DEF SchedulerRuns, Scheduler
  <1>2. CASE UNCHANGED <<num_commands, next_command_time, temp0>>
    BY <1>2 DEF SchedInv
  <1>3. ~SchedulerRuns => UNCHANGED <<num_commands, next_command_time, temp0>>
    BY DEF NextAll, Minute, TimeRuns, FdirRuns, RestartTasks, SetVariable, Eps, StartEps,
           Balance, EpsIdle, EpsReady, allVars, vars, schedVars
  <1> QED
    BY <1>1, <1>2, <1>3

-----------------------------------------------------------------------------
(* Arithmetic of counters that wrap *)

LengthsOK ==
  /\ Byte \in Nat /\ Hours \in Nat /\ Minutes \in Nat
  /\ 2 <= Hours /\ Hours <= Byte /\ 2 <= Minutes /\ Minutes <= Byte
  /\ Word \in Nat /\ Byte < Word /\ MaxEvents \in Nat

(* The lengths of the day, the hour, the byte and the word.                   *)
LEMMA Lengths == LengthsOK
  BY TimeAssumption, SchedulingAssumption
  DEF TimeAssumption, SchedulingAssumption, LengthsOK

(* There is one quotient and one remainder.                                   *)
LEMMA RemainderUnique ==
  ASSUME NEW n \in Nat, 0 < n, NEW r \in 0..n-1
  PROVE  r % n = r /\ (r + n) % n = r
  BY SMT

(* One more, and one less, around a counter of n values.                      *)
LEMMA Wraps ==
  ASSUME NEW n \in Nat, 0 < n, NEW x \in 0..n-1
  PROVE  /\ (x + 1) % n = (IF x = n - 1 THEN 0 ELSE x + 1)
         /\ (x + n - 1) % n = (IF x = 0 THEN n - 1 ELSE x - 1)
  <1>1. CASE x = n - 1
    <2>1. (x + 1) % n = 0
      BY <1>1, RemainderUnique
    <2> QED
      BY <1>1, <2>1, RemainderUnique
  <1>2. CASE x # n - 1
    BY <1>2, RemainderUnique
  <1>3. (x + n - 1) % n = (IF x = 0 THEN n - 1 ELSE x - 1)
    <2>1. CASE x = 0
      BY <2>1, RemainderUnique
    <2>2. CASE x # 0
      <3>1. x - 1 \in 0..n-1 /\ x + n - 1 = (x - 1) + n
        BY <2>2
      <3> QED
        BY <2>2, <3>1, RemainderUnique
    <2> QED
      BY <2>1, <2>2
  <1> QED
    BY <1>1, <1>2, <1>3

(* A further digit of base d. *)
LEMMA Digit ==
  ASSUME NEW m \in Nat, NEW d \in Nat, NEW a \in 0..m-1, NEW b \in 0..d-1
  PROVE  a * d + b \in 0..(m * d)-1
  <1>1. (m - 1) * d = m * d - d
    BY SMT
  <1>2. a * d <= (m - 1) * d
    BY SMT
  <1>3. a * d \in Nat /\ m * d \in Nat
    BY SMT
  <1> QED
    BY <1>1, <1>2, <1>3

(* The packed time fits into its word. *)
LEMMA PackedFits ==
  ASSUME NEW day \in 0..Byte-1, NEW hour \in 0..Byte-1, NEW min \in 0..Byte-1
  PROVE  Packed(day, hour, min) \in 0..Packed(Byte, 0, 0)-1
  <1> DEFINE x == day * Byte + hour
             y == x * Byte + min
             B2 == Byte * Byte
             B3 == B2 * Byte
             B4 == B3 * Byte
  <1>1. Byte \in Nat /\ 0 \in 0..Byte-1
    BY Lengths DEF LengthsOK
  <1>2. x \in 0..B2-1
    BY <1>1, Digit
  <1>3. B2 \in Nat
    BY <1>1, SMT
  <1>4. Packed(day, hour, min) = y * Byte /\ Packed(Byte, 0, 0) = ((B2 + 0) * Byte + 0) * Byte
    BY DEF Packed
  <1> HIDE DEF x, B2
  <1>5. y \in 0..B3-1
    BY <1>1, <1>2, <1>3, Digit
  <1>6. B3 \in Nat /\ (B2 + 0) * Byte + 0 = B3
    BY <1>1, <1>3, SMT
  <1> HIDE DEF y, B3
  <1>7. y * Byte + 0 \in 0..B4-1
    BY <1>1, <1>5, <1>6, Digit
  <1>8. y * Byte \in Int
    BY <1>1, <1>5, SMT
  <1> QED
    BY <1>4, <1>6, <1>7, <1>8

(* The day after is a day. *)
LEMMA DayAfterIsByte ==
  ASSUME NEW day \in 0..Byte-1, NEW hour
  PROVE  DayAfter(day, hour) \in 0..Byte-1
  <1>1. (day + 1) % Byte \in 0..Byte-1
    BY RemainderIsByte
  <1> QED
    BY <1>1 DEF DayAfter

-----------------------------------------------------------------------------
(* Types *)

Clocks == [day : 0..Byte-1, hour : 0..LastHour, minute : 0..Minutes-1]

(* What the next minute does to the clock, without remainders. *)
LEMMA NextMinuteIs ==
  ASSUME NEW c \in Clocks
  PROVE  /\ NextMinute(c) \in Clocks
         /\ c.minute # Minutes - 1 =>
              NextMinute(c) = [c EXCEPT !.minute = c.minute + 1]
         /\ c.minute = Minutes - 1 =>
              /\ NextMinute(c).minute = 0
              /\ NextMinute(c).hour = (c.hour + 1) % Hours
              /\ NextMinute(c).day =
                   IF c.hour = LastHour THEN (c.day + 1) % Byte ELSE c.day
  <1>1. /\ c.day \in 0..Byte-1 /\ c.hour \in 0..Hours-1 /\ c.minute \in 0..Minutes-1
        /\ c = [day |-> c.day, hour |-> c.hour, minute |-> c.minute]
    BY DEF Clocks, LastHour
  <1>2. /\ (c.minute + 1) % Minutes = IF c.minute = Minutes - 1 THEN 0 ELSE c.minute + 1
        /\ (c.hour + 1) % Hours = IF c.hour = Hours - 1 THEN 0 ELSE c.hour + 1
        /\ (c.day + 1) % Byte = IF c.day = Byte - 1 THEN 0 ELSE c.day + 1
    BY <1>1, Wraps, Lengths DEF LengthsOK
  <1>3. /\ (c.minute + 1) % Minutes \in 0..Minutes-1
        /\ (c.hour + 1) % Hours \in 0..Hours-1 /\ (c.day + 1) % Byte \in 0..Byte-1
    BY <1>1, <1>2, Lengths DEF LengthsOK
  <1>4. NextMinute(c) \in Clocks
    BY <1>1, <1>3 DEF NextMinute, Clocks, LastHour
  <1>5. c.minute # Minutes - 1 => NextMinute(c) = [c EXCEPT !.minute = c.minute + 1]
    BY <1>1, <1>2 DEF NextMinute
  <1> QED
    BY <1>4, <1>5, <1>2 DEF NextMinute

TaskPlaces ==
  {"poll", "getMinute", "getHour", "storeHour", "update", "setHour", "setTime", "resetAlarm"}

(* The counters of the scheduler and of the EPS task keep their widths. *)
RestTypeOK ==
  /\ num_commands \in 0..Word-1
  /\ next_command_time \in Nat /\ scheduling_on \in 0..1
  /\ temp0 \in 0..Byte-1 /\ starting \in BOOLEAN
  /\ eps_balance_interval \in GroundValues \cup {0, EpsInterval}
  /\ last_balance_minute \in 0..Byte-1
  /\ epsStarting \in BOOLEAN /\ epsRan \in BOOLEAN

(* The invariant of types in two parts. *)
LEMMA TypeParts ==
  /\ TypeOKAll <=> TimeTypeOK /\ RestTypeOK
  /\ TypeOKAll' <=> TimeTypeOK' /\ RestTypeOK'
  BY DEF TypeOKAll, TypeOK, RestTypeOK

(* Init satisfies the type invariant. *)
LEMMA InitType == InitAll => TypeOKAll
  <1> SUFFICES ASSUME InitAll PROVE TypeOKAll
    OBVIOUS
  <1>1. 0 \in 0..Byte-1 /\ 0 \in 0..LastHour /\ 0 \in 0..Minutes-1 /\ 0 \in 0..Word-1
        /\ 0 \in 0..MaxEvents+1 /\ 0 \in 0..Lost
    BY Lengths DEF LengthsOK, LastHour, Lost
  <1>2. 0 \in 0..Packed(Byte, 0, 0)-1
    <2>1. Packed(0, 0, 0) = 0
      BY <1>1, Lengths, SMT DEF Packed, LengthsOK
    <2> QED
      BY <1>1, <2>1, PackedFits
  <1>3. TimeTypeOK
    BY <1>1, <1>2 DEF InitAll, Init, TimeInit, TimeTypeOK
  <1>4. RestTypeOK
    <2>1. /\ num_commands = 0 /\ next_command_time = 0 /\ scheduling_on = 0 /\ temp0 = 0
          /\ starting = TRUE
      BY DEF InitAll, Init
    <2>2. /\ eps_balance_interval = 0 /\ last_balance_minute = 0
          /\ epsStarting = TRUE /\ epsRan = FALSE
      BY DEF InitAll
    <2>3. /\ starting \in BOOLEAN /\ epsStarting \in BOOLEAN /\ epsRan \in BOOLEAN
      BY <2>1, <2>2
    <2> QED
      BY <1>1, <2>1, <2>2, <2>3 DEF RestTypeOK
  <1> QED
    BY <1>3, <1>4, TypeParts

(* A further event stays within the bound. *)
LEMMA EventType == TimeTypeOK /\ (Event \/ EventInMode) => events' \in 0..MaxEvents+1
  BY Lengths DEF TimeTypeOK, Event, EventInMode, LengthsOK

(* The clock keeps the types of the time. *)
LEMMA TickType ==
  ASSUME TimeTypeOK, Tick
  PROVE  TimeTypeOK'
  <1>1. clock' \in Clocks
    <2>1. NextMinute(clock) \in Clocks
      BY NextMinuteIs DEF TimeTypeOK, Clocks
    <2>2. [NextMinute(clock) EXCEPT !.day = 0] \in Clocks
      BY <2>1, Lengths DEF Clocks, LengthsOK
    <2> QED
      BY <2>1, <2>2 DEF Tick
  <1>2. gap' \in 0..Lost
    BY Lengths DEF Tick, TimeTypeOK, LengthsOK, Lost
  <1>3. events' \in 0..MaxEvents+1
    BY EventType DEF Tick, TimeTypeOK
  <1>4. alarm' \in 0..1
    BY DEF Tick
  <1> QED
    BY <1>1, <1>2, <1>3, <1>4
    DEF Tick, Clocks, TimeTypeOK, readVars, timeOfDay, modeVars

(* So does the time task. *)
LEMMA TimeTaskType ==
  ASSUME TimeTypeOK, TimeTask
  PROVE  TimeTypeOK'
  <1> USE DEF TimeTypeOK
  <1>0. /\ 0 \in 0..LastHour /\ 0 \in 0..Minutes-1 /\ 0 \in 0..Lost
        /\ 0..LastHour \subseteq 0..Byte-1 /\ 0..Minutes-1 \subseteq 0..Byte-1
    BY Lengths DEF LengthsOK, LastHour, Lost
  <1>1. CASE PollAlarm
    BY <1>1 DEF PollAlarm, Runs, rtcVars, readVars, timeOfDay, modeVars
  <1>2. CASE GetMinute
    BY <1>2 DEF GetMinute, Runs, rtcVars, timeOfDay, modeVars
  <1>3. CASE GetHour
    <2>1. time' \in [hour : 0..LastHour, minute : 0..Minutes-1]
      BY <1>3 DEF GetHour
    <2>2. read_hour' \in 0..LastHour /\ read_minute' \in 0..Minutes-1 /\ gap' \in 0..Lost
      BY <1>0, <1>3 DEF GetHour
    <2> QED
      BY <1>3, <2>1, <2>2 DEF GetHour, Runs, rtcVars, timeOfDay, modeVars
  <1>4. CASE StoreHour
    <2>1. time' \in [hour : 0..LastHour, minute : 0..Minutes-1]
      BY <1>4 DEF StoreHour
    <2> QED
      BY <1>0, <1>4, <2>1 DEF StoreHour, Runs, rtcVars, timeOfDay, modeVars
  <1>5. CASE CompareHour
    <2>1. ABSOLUTE_DAY' \in 0..Byte-1
      BY <1>5, DayAfterIsByte DEF CompareHour
    <2>2. CURRENT_MINUTE' \in 0..Byte-1
      BY <1>0, <1>5 DEF CompareHour
    <2>3. pc' \in TaskPlaces
      BY <1>5 DEF CompareHour, Runs, TaskPlaces
    <2> QED
      BY <1>5, <2>1, <2>2, <2>3
      DEF CompareHour, Runs, rtcVars, readVars, modeVars, TaskPlaces
  <1>6. CASE SetHour
    <2>1. CURRENT_HOUR' \in 0..Byte-1
      BY <1>0, <1>6 DEF SetHour
    <2> QED
      BY <1>6, <2>1 DEF SetHour, Runs, rtcVars, readVars, modeVars
  <1>7. CASE SetTime
    <2>1. CURRENT_TIME' \in 0..Packed(Byte, 0, 0)-1
      BY <1>7, PackedFits DEF SetTime
    <2> QED
      BY <1>7, <2>1 DEF SetTime, Runs, rtcVars, readVars, modeVars
  <1>8. CASE ResetAlarm
    BY <1>8 DEF ResetAlarm, Runs, rtcVars, readVars, timeOfDay, modeVars
  <1> QED
    BY <1>1, <1>2, <1>3, <1>4, <1>5, <1>6, <1>7, <1>8 DEF TimeTask

(* And FDIR. *)
LEMMA FdirType ==
  ASSUME TimeTypeOK, FdirRuns
  PROVE  TimeTypeOK'
  <1> USE DEF TimeTypeOK
  <1>0. /\ 0 \in 0..LastHour /\ 0 \in 0..Minutes-1 /\ Lost \in 0..Lost
        /\ 0..LastHour \subseteq 0..Byte-1 /\ 0..Minutes-1 \subseteq 0..Byte-1
    BY Lengths DEF LengthsOK, LastHour, Lost
  <1>1. CASE SuspendTasks
    BY <1>1 DEF SuspendTasks, InLoop, rtcVars, readVars, timeOfDay
  <1>2. CASE LeaveSafeMode
    BY <1>2 DEF LeaveSafeMode, rtcVars, readVars, timeOfDay
  <1>3. ASSUME NEW restarted \in Restarts, RestartTasks(restarted)
        PROVE  TimeTypeOK'
    <2>1. RestartTask(restarted) /\ EnterSafeMode(restarted)
      BY <1>3 DEF RestartTasks, RestartTask
    <2>2. events' \in 0..MaxEvents+1
      BY <2>1, EventType DEF EnterSafeMode
    <2>3. fdir_updated' \in 0..1 /\ SAFE_MODE' = 1 /\ suspended' \subseteq Tasks
      BY <2>1 DEF EnterSafeMode
    <2>4. /\ pc' \in TaskPlaces /\ read_minute' \in 0..Minutes-1 /\ read_hour' \in 0..LastHour
          /\ gap' \in 0..Lost
      BY <1>0, <2>1 DEF RestartTask, TaskPlaces
    <2>5. UNCHANGED <<clock, alarm, time, ABSOLUTE_DAY, CURRENT_HOUR, CURRENT_MINUTE,
                      CURRENT_TIME>>
      BY <2>1 DEF RestartTask, rtcVars, timeOfDay
    <2> QED
      BY <2>2, <2>3, <2>4, <2>5 DEF TaskPlaces
  <1>4. CASE TimeUpdate
    <2>1. time.hour \in 0..Byte-1 /\ time.minute \in 0..Byte-1
      BY <1>0
    <2>2. ABSOLUTE_DAY' \in 0..Byte-1
      BY <1>4, DayAfterIsByte DEF TimeUpdate, FdirUpdate, UpdateAbsoluteTime
    <2>3. CURRENT_TIME' \in 0..Packed(Byte, 0, 0)-1
      BY <1>4, <2>1, <2>2, PackedFits DEF TimeUpdate, FdirUpdate, UpdateAbsoluteTime
    <2>4. CURRENT_HOUR' \in 0..Byte-1 /\ CURRENT_MINUTE' \in 0..Byte-1
      BY <1>4, <2>1 DEF TimeUpdate, FdirUpdate, UpdateAbsoluteTime
    <2> QED
      BY <1>0, <1>4, <2>2, <2>3, <2>4 DEF TimeUpdate, FdirUpdate, readVars, modeVars
  <1> QED
    BY <1>1, <1>2, <1>3, <1>4 DEF FdirRuns

(* And ground. *)
LEMMA GroundType ==
  ASSUME TimeTypeOK, SetVariable
  PROVE  TimeTypeOK'
  <1> USE DEF TimeTypeOK
  <1>1. PICK val \in GroundValues :
          (\E i \in DOMAIN Settable : SetObcVariable(i, val)) \/ SetIntervalOnly
    BY DEF SetVariable
  <1>2. val % Byte \in 0..Byte-1 /\ Lost \in 0..Lost
    BY RemainderIsByte, Lengths, TimeAssumption DEF TimeAssumption, LengthsOK, Lost
  <1>3. CASE SetIntervalOnly
    <2>1. events' \in 0..MaxEvents+1
      BY <1>3, EventType DEF SetIntervalOnly
    <2> QED
      BY <1>3, <2>1 DEF SetIntervalOnly, rtcVars, readVars, timeOfDay, modeVars
  <1>4. ASSUME NEW i \in DOMAIN Settable, SetObcVariable(i, val)
        PROVE  TimeTypeOK'
    <2>1. events' \in 0..MaxEvents+1
      BY <1>4, EventType DEF SetObcVariable
    <2>2. /\ ABSOLUTE_DAY' \in 0..Byte-1 /\ CURRENT_HOUR' \in 0..Byte-1
          /\ CURRENT_MINUTE' \in 0..Byte-1
      BY <1>2, <1>4 DEF SetObcVariable
    <2>3. gap' \in 0..Lost /\ fdir_updated' \in 0..1
      BY <1>2, <1>4 DEF SetObcVariable
    <2> QED
      BY <1>4, <2>1, <2>2, <2>3 DEF SetObcVariable, rtcVars, readVars, modeVars
  <1> QED
    BY <1>1, <1>3, <1>4

(* The number of commands keeps its width: a list that was added to is cleared. *)
LEMMA CountKeepsWidth ==
  ASSUME SchedInv, num_commands \in 0..Word-1, NEW command \in Commands,
         NEW n \in 1..MaxCommands, NEW earliest \in CommandTimes
  PROVE  CheckSchedule(ExecPusCommand(command, n, earliest)).num \in 0..Word-1
  <1>1. ASSUME NEW s, s.num \in 0..Word-1
        PROVE  CheckSchedule(s).num \in 0..Word-1
    <2>1. (s.num + Word - 1) % Word \in 0..Word-1
      BY <1>1, Lengths DEF LengthsOK
    <2> QED
      BY <1>1, <2>1 DEF CheckSchedule
  <1>2. Sched.num \in 0..Word-1
    BY DEF Sched
  <1>3. ASSUME NEW s, SchedOK(s)
        PROVE  ClearSchedule(s).num \in 0..Word-1
    BY <1>3, Words DEF ClearSchedule, SchedOK
  <1>4. SchedOK(Sched)
    BY DEF SchedInv, Sched, SchedOK
  <1>5. n \in Nat /\ earliest \in Nat
    BY SchedulingAssumption DEF SchedulingAssumption
  <1>6. SchedOK(CheckSchedule(ModifySchedule(Sched, n, earliest)))
    BY <1>4, <1>5, ModifyKeeps, CheckKeeps
  <1>7. ExecPusCommand(command, n, earliest).num \in 0..Word-1
    <2>1. CASE command = "ADD_SCHEDULE"
      BY <1>3, <1>6, <2>1 DEF ExecPusCommand
    <2>2. CASE command = "CLEAR_SCHEDULE"
      BY <1>3, <1>4, <2>2 DEF ExecPusCommand
    <2>3. CASE command \notin {"ADD_SCHEDULE", "CLEAR_SCHEDULE"}
      BY <1>2, <2>3 DEF ExecPusCommand
    <2> QED
      BY <2>1, <2>2, <2>3
  <1> QED
    BY <1>1, <1>2, <1>7

(* The scheduler keeps the types and leaves the time alone. *)
LEMMA SchedulerType ==
  ASSUME TypeOKAll, SchedInv, SchedInv', SchedulerRuns
  PROVE  TypeOKAll'
  <1>1. UNCHANGED timeVars /\ UNCHANGED epsVars
    BY DEF SchedulerRuns, Scheduler, StartScheduling, PassWithCommand, PassWithout
  <1>2. TimeTypeOK'
    BY <1>1, TypeParts
    DEF TimeTypeOK, timeVars, rtcVars, readVars, timeOfDay, modeVars
  <1>3. num_commands \in 0..Word-1 /\ scheduling_on \in 0..1 /\ temp0 \in 0..Byte-1
        /\ starting \in BOOLEAN
    BY TypeParts DEF RestTypeOK
  <1>4. num_commands' \in 0..Word-1 /\ scheduling_on' \in 0..1
    <2>1. CASE StartScheduling
      BY <1>3, <2>1, Lengths DEF StartScheduling, LengthsOK
    <2>2. CASE PassWithout
      <3>1. (Sched.num + Word - 1) % Word \in 0..Word-1 /\ Sched.num \in 0..Word-1
        BY <1>3, Lengths DEF Sched, LengthsOK
      <3>2. CheckSchedule(Sched).num \in 0..Word-1
        BY <3>1 DEF CheckSchedule
      <3> QED
        BY <1>3, <2>2, <3>2 DEF PassWithout, SetSched
    <2>3. ASSUME NEW command \in Commands, NEW n \in 1..MaxCommands,
                 NEW earliest \in CommandTimes, PassWithCommand(command, n, earliest)
          PROVE  num_commands' \in 0..Word-1 /\ scheduling_on' \in 0..1
      BY <1>3, <2>3, CountKeepsWidth DEF PassWithCommand, SetSched
    <2> QED
      BY <2>1, <2>2, <2>3 DEF SchedulerRuns, Scheduler
  <1>5. starting' \in BOOLEAN
    BY <1>3 DEF SchedulerRuns, Scheduler, StartScheduling, PassWithCommand, PassWithout
  <1>6. next_command_time' \in Nat /\ temp0' \in 0..Byte-1
    BY Words DEF SchedInv
  <1> QED
    BY <1>1, <1>2, <1>4, <1>5, <1>6, TypeParts DEF RestTypeOK, epsVars

(* The EPS task, too. *)
LEMMA EpsType ==
  ASSUME TypeOKAll, Eps
  PROVE  TypeOKAll'
  <1>1. UNCHANGED vars
    BY DEF Eps, StartEps, Balance, EpsIdle, EpsReady
  <1>2. TimeTypeOK'
    BY <1>1, TypeParts
    DEF TimeTypeOK, vars, timeVars, rtcVars, readVars, timeOfDay, modeVars
  <1>3. last_balance_minute' \in 0..Byte-1
    BY TypeParts
    DEF Eps, StartEps, Balance, EpsIdle, EpsReady, TimeTypeOK, RestTypeOK
  <1>4. eps_balance_interval' \in GroundValues \cup {0, EpsInterval}
    BY TypeParts DEF Eps, StartEps, Balance, EpsIdle, RestTypeOK
  <1>5. epsStarting' \in BOOLEAN /\ epsRan' \in BOOLEAN
    BY TypeParts DEF Eps, StartEps, Balance, EpsIdle, RestTypeOK
  <1> QED
    BY <1>1, <1>2, <1>3, <1>4, <1>5, TypeParts DEF RestTypeOK, vars, schedVars

(* Every step keeps the types. *)
LEMMA StepType == TypeOKAll /\ SchedInv /\ [NextAll]_allVars => TypeOKAll' /\ SchedInv'
  <1> SUFFICES ASSUME TypeOKAll, SchedInv, [NextAll]_allVars
               PROVE  TypeOKAll'
    BY StepSched
  <1>0. SchedInv' /\ TimeTypeOK /\ RestTypeOK
    BY StepSched, TypeParts
  <1>1. CASE Minute
    BY <1>0, <1>1, TickType, TypeParts DEF Minute, RestTypeOK, schedVars, epsVars
  <1>2. CASE TimeRuns
    <2>1. epsRan' \in BOOLEAN
      BY <1>2 DEF TimeRuns
    <2> QED
      BY <1>0, <1>2, <2>1, TimeTaskType, TypeParts DEF TimeRuns, RestTypeOK, schedVars
  <1>3. CASE FdirRuns
    <2>1. starting' \in BOOLEAN /\ epsStarting' \in BOOLEAN
      BY <1>0, <1>3 DEF FdirRuns, RestartTasks, RestTypeOK, schedVars, epsVars
    <2>2. UNCHANGED <<num_commands, next_command_time, scheduling_on, temp0,
                      eps_balance_interval, last_balance_minute, epsRan>>
      BY <1>3 DEF FdirRuns, RestartTasks, schedVars, epsVars
    <2> QED
      BY <1>0, <1>3, <2>1, <2>2, FdirType, TypeParts DEF RestTypeOK
  <1>4. CASE SchedulerRuns
    BY <1>0, <1>4, SchedulerType
  <1>5. CASE SetVariable
    <2>1. eps_balance_interval' \in GroundValues
      BY <1>5 DEF SetVariable
    <2>2. UNCHANGED <<schedVars, last_balance_minute, epsStarting, epsRan>>
      BY <1>5 DEF SetVariable
    <2> QED
      BY <1>0, <1>5, <2>1, <2>2, GroundType, TypeParts DEF RestTypeOK, schedVars
  <1>6. CASE Eps
    BY <1>6, EpsType
  <1>7. CASE UNCHANGED allVars
    BY <1>0, <1>7, TypeParts
    DEF TimeTypeOK, RestTypeOK, allVars, vars, timeVars, rtcVars, readVars, timeOfDay,
        modeVars, schedVars, epsVars
  <1> QED
    BY <1>1, <1>2, <1>3, <1>4, <1>5, <1>6, <1>7 DEF NextAll

(* The types hold in every state. *)
LEMMA AlwaysTyped == SpecAll => [](TypeOKAll /\ SchedInv)
  BY InitType, InitSched, StepType, PTL DEF SpecAll

-----------------------------------------------------------------------------
(* The next command *)

(* From the first minute that is recorded on, the scheduler finds its next     *)
(* command due at every pass, whatever ground schedules and for whenever.     *)
THEOREM CommandsAlwaysDue == SpecAll => []AlwaysDue
  <1>1. TypeOKAll /\ SchedInv => AlwaysDue
    <2> SUFFICES ASSUME TypeOKAll, SchedInv, CURRENT_TIME >= Packed(0, 0, 1)
                 PROVE  next_command_time <= CURRENT_TIME
      BY DEF AlwaysDue
    <2>1. Packed(0, 0, 1) = Byte
      BY Words DEF Packed
    <2>2. CURRENT_TIME \in Int
      BY TypeParts DEF TimeTypeOK
    <2> QED
      BY <2>1, <2>2, Words DEF SchedInv
  <1> QED
    BY <1>1, AlwaysTyped, PTL

-----------------------------------------------------------------------------
(* The days *)

(* The hour that the time task read last; in the other places than these two  *)
(* the struct holds what was stored.                                          *)
HourRead == IF pc = "storeHour" THEN read_hour ELSE time.hour

DayBefore(day) == (day + Byte - 1) % Byte

(* The day when the hour was read: the clock has at most begun one hour more. *)
DayRead ==
  IF HourRead = LastHour /\ clock.hour # LastHour THEN DayBefore(clock.day) ELSE clock.day

(* The clock is gap minutes after the reading of the hour, at most in the next. *)
InTheHour ==
  \/ clock.hour = HourRead /\ clock.minute >= gap
  \/ clock.hour = (HourRead + 1) % Hours /\ clock.minute < gap

(* Only an update in progress has an hour in the struct that is not assigned. *)
HourAssigned == pc \notin {"update", "setHour"} => CURRENT_HOUR = time.hour

(* The day is that of the last reading, once the update has counted it. *)
DayCounted ==
  ABSOLUTE_DAY = IF pc # "setHour" /\ CURRENT_HOUR = LastHour /\ HourRead # LastHour
                 THEN DayBefore(DayRead) ELSE DayRead

(* Nothing that DayKept excepts has happened. *)
Regular == gap # Lost

DayInv == Regular => InTheHour /\ HourAssigned /\ DayCounted

(* The types that the arguments need. *)
DayTyped ==
  /\ clock \in Clocks
  /\ read_hour \in 0..LastHour /\ time.hour \in 0..LastHour
  /\ ABSOLUTE_DAY \in 0..Byte-1 /\ CURRENT_HOUR \in 0..Byte-1
  /\ gap \in 0..Lost

(* They follow from the type invariant. *)
LEMMA DayTypes == TypeOKAll => DayTyped
  BY TypeParts DEF TimeTypeOK, DayTyped, Clocks

(* The day before the day after, and the other way round. *)
LEMMA DayBeforeAfter ==
  ASSUME NEW day \in 0..Byte-1
  PROVE  /\ DayBefore((day + 1) % Byte) = day /\ (DayBefore(day) + 1) % Byte = day
         /\ DayBefore(day) \in 0..Byte-1
  <1>1. Byte \in Nat /\ 0 < Byte
    BY Lengths DEF LengthsOK
  <1>2. /\ (day + 1) % Byte = (IF day = Byte - 1 THEN 0 ELSE day + 1)
        /\ (day + Byte - 1) % Byte = (IF day = 0 THEN Byte - 1 ELSE day - 1)
    BY <1>1, Wraps
  <1> DEFINE after == (day + 1) % Byte
             before == (day + Byte - 1) % Byte
  <1>3. after \in 0..Byte-1 /\ before \in 0..Byte-1
    BY <1>1, <1>2
  <1>4. (after + Byte - 1) % Byte = IF after = 0 THEN Byte - 1 ELSE after - 1
    BY <1>1, <1>3, Wraps
  <1>5. (before + 1) % Byte = IF before = Byte - 1 THEN 0 ELSE before + 1
    BY <1>1, <1>3, Wraps
  <1> QED
    BY <1>1, <1>2, <1>3, <1>4, <1>5 DEF DayBefore

(* Outside of an update the invariant is what DayKept says. *)
LEMMA DayInvKeepsDays == DayInv => DayKept
  <1> SUFFICES ASSUME DayInv, Regular, pc \notin Holding
               PROVE  ABSOLUTE_DAY =
                        IF HourCounted = LastHour /\ clock.hour # LastHour
                        THEN DayBefore(clock.day) ELSE clock.day
    BY DEF DayKept, Regular, DayBefore
  <1>1. HourAssigned /\ DayCounted
    BY DEF DayInv
  <1>2. HourRead = time.hour /\ HourCounted = time.hour
    BY <1>1 DEF HourRead, HourCounted, HourAssigned, Holding
  <1>3. ABSOLUTE_DAY = DayRead
    BY <1>1, <1>2 DEF DayCounted, HourCounted
  <1> QED
    BY <1>2, <1>3 DEF DayRead

(* Init satisfies it. *)
LEMMA InitDay == InitAll => DayInv
  BY Lengths
  DEF InitAll, Init, TimeInit, DayInv, InTheHour, HourAssigned, DayCounted, DayRead, HourRead,
      LengthsOK, LastHour

(* A minute more: while the clock stays in the hour, nothing changes; at its   *)
(* end it was in the hour that was read, as the gap is no longer than an hour. *)
LEMMA TickDay ==
  ASSUME TypeOKAll, DayInv, Tick
  PROVE  DayInv'
  <1> SUFFICES ASSUME Regular'
               PROVE  (InTheHour /\ HourAssigned /\ DayCounted)'
    BY DEF DayInv
  <1>1. DayTyped /\ LengthsOK
    BY DayTypes, Lengths
  <1>2. UNCHANGED <<pc, read_hour, time, ABSOLUTE_DAY, CURRENT_HOUR>>
    BY DEF Tick, readVars, timeOfDay
  <1>3. gap' = gap + 1 /\ gap < Minutes /\ clock' = NextMinute(clock)
    BY <1>1 DEF Tick, Regular, DayTyped, LengthsOK, Lost
  <1>4. InTheHour /\ HourAssigned /\ DayCounted
    BY <1>1, <1>3 DEF DayInv, Regular, LengthsOK, DayTyped, Lost
  <1>5. HourRead' = HourRead /\ HourRead \in 0..LastHour
    BY <1>1, <1>2 DEF HourRead, DayTyped
  <1>6. /\ clock.minute \in 0..Minutes-1 /\ clock.hour \in 0..LastHour
        /\ clock.day \in 0..Byte-1
    BY <1>1 DEF DayTyped, Clocks
  <1>7. HourAssigned'
    BY <1>2, <1>4 DEF HourAssigned
  <1>8. CASE clock.minute # Minutes - 1
    <2>1. clock' = [clock EXCEPT !.minute = clock.minute + 1]
      BY <1>1, <1>3, <1>8, NextMinuteIs DEF DayTyped
    <2>2. clock'.minute = clock.minute + 1 /\ clock'.hour = clock.hour /\ clock'.day = clock.day
      BY <1>1, <2>1 DEF DayTyped, Clocks
    <2>3. InTheHour'
      BY <1>1, <1>3, <1>4, <1>5, <1>6, <2>2 DEF InTheHour, DayTyped
    <2>4. DayCounted'
      BY <1>2, <1>4, <1>5, <2>2 DEF DayCounted, DayRead
    <2> QED
      BY <1>7, <2>3, <2>4
  <1>9. CASE clock.minute = Minutes - 1
    <2>1. /\ clock'.minute = 0 /\ clock'.hour = (clock.hour + 1) % Hours
          /\ clock'.day = IF clock.hour = LastHour THEN (clock.day + 1) % Byte ELSE clock.day
      BY <1>1, <1>3, <1>9, NextMinuteIs DEF DayTyped
    <2>2. clock.hour = HourRead
      BY <1>1, <1>3, <1>4, <1>6, <1>9 DEF InTheHour, DayTyped, LengthsOK
    <2>3. InTheHour'
      BY <1>1, <1>3, <1>5, <2>1, <2>2 DEF InTheHour, DayTyped
    <2>4. (clock.hour + 1) % Hours = IF clock.hour = LastHour THEN 0 ELSE clock.hour + 1
      BY <1>1, <1>6, Wraps DEF LengthsOK, LastHour
    <2>5. clock'.hour # clock.hour /\ LastHour # 0
      BY <1>1, <1>6, <2>1, <2>4 DEF LengthsOK, LastHour
    <2>6. DayRead' = DayRead
      <3>1. CASE HourRead = LastHour
        <4>1. clock'.hour # LastHour /\ clock'.day = (clock.day + 1) % Byte
          BY <2>1, <2>2, <2>5, <3>1
        <4>2. DayRead' = DayBefore(clock'.day) /\ DayRead = clock.day
          BY <1>5, <2>2, <3>1, <4>1 DEF DayRead
        <4> QED
          BY <1>6, <4>1, <4>2, DayBeforeAfter
      <3>2. CASE HourRead # LastHour
        BY <1>5, <2>1, <2>2, <3>2 DEF DayRead
      <3> QED
        BY <3>1, <3>2
    <2>7. DayCounted'
      BY <1>2, <1>4, <1>5, <2>6 DEF DayCounted
    <2> QED
      BY <1>7, <2>3, <2>7
  <1> QED
    BY <1>8, <1>9

(* The time task.  It reads the hour when the last one has been assigned, and  *)
(* counts the day that the clock had then.                                     *)
LEMMA TimeTaskDay ==
  ASSUME TypeOKAll, DayInv, TimeTask
  PROVE  DayInv'
  <1> SUFFICES ASSUME Regular'
               PROVE  (InTheHour /\ HourAssigned /\ DayCounted)'
    BY DEF DayInv
  <1>1. DayTyped /\ LengthsOK
    BY DayTypes, Lengths
  <1>2. UNCHANGED clock
    BY DEF TimeTask, PollAlarm, GetMinute, GetHour, StoreHour, CompareHour, SetHour, SetTime,
           ResetAlarm, Runs, rtcVars
  <1>3. CASE GetHour
    <2>1. Regular /\ gap' = 0
      BY <1>3 DEF GetHour, Regular
    <2>2. HourAssigned /\ DayCounted
      BY <2>1 DEF DayInv
    <2>3. /\ pc = "getHour" /\ pc' = "storeHour" /\ read_hour' = clock.hour
          /\ time'.hour = time.hour
          /\ UNCHANGED <<ABSOLUTE_DAY, CURRENT_HOUR>>
      BY <1>3, TypeParts DEF GetHour, Runs, timeOfDay, TimeTypeOK
    <2>4. HourRead = time.hour /\ CURRENT_HOUR = time.hour
      BY <2>2, <2>3 DEF HourRead, HourAssigned
    <2>5. HourRead' = clock.hour /\ DayRead' = clock.day
      BY <1>2, <2>3 DEF HourRead, DayRead
    <2>6. clock.minute >= 0
      BY <1>1 DEF DayTyped, Clocks
    <2>7. InTheHour'
      BY <1>2, <2>1, <2>5, <2>6 DEF InTheHour
    <2>8. HourAssigned'
      BY <2>3, <2>4 DEF HourAssigned
    <2>9. ABSOLUTE_DAY =
            IF CURRENT_HOUR = LastHour /\ clock.hour # LastHour
            THEN DayBefore(clock.day) ELSE clock.day
      BY <2>2, <2>3, <2>4 DEF DayCounted, DayRead
    <2>10. DayCounted'
      BY <2>3, <2>5, <2>9 DEF DayCounted
    <2> QED
      BY <2>7, <2>8, <2>10
  <1>4. CASE ~GetHour
    <2>1. gap' = gap
      BY <1>4 DEF TimeTask, PollAlarm, GetMinute, StoreHour, CompareHour, SetHour, SetTime,
                  ResetAlarm
    <2>2. InTheHour /\ HourAssigned /\ DayCounted
      BY <1>2, <2>1 DEF DayInv, Regular
    <2>3. HourRead' = HourRead
      BY <1>4, TypeParts
      DEF TimeTask, PollAlarm, GetMinute, StoreHour, CompareHour, SetHour, SetTime,
          ResetAlarm, Runs, readVars, HourRead, TimeTypeOK
    <2>4. InTheHour' /\ DayRead' = DayRead
      BY <1>2, <2>1, <2>2, <2>3 DEF InTheHour, DayRead
    <2>5. CASE CompareHour
      <3>1. /\ pc = "update" /\ pc' = IF time.hour # CURRENT_HOUR THEN "setHour" ELSE "setTime"
            /\ UNCHANGED <<CURRENT_HOUR, time>>
            /\ ABSOLUTE_DAY' = IF time.hour # CURRENT_HOUR
                               THEN DayAfter(ABSOLUTE_DAY, CURRENT_HOUR) ELSE ABSOLUTE_DAY
        BY <2>5 DEF CompareHour, Runs, readVars
      <3>2. HourAssigned'
        BY <3>1 DEF HourAssigned
      <3>3. HourRead = time.hour /\ DayRead \in 0..Byte-1
        <4>1. DayBefore(clock.day) \in 0..Byte-1 /\ clock.day \in 0..Byte-1
          BY <1>1, DayBeforeAfter DEF DayTyped, Clocks
        <4> QED
          BY <3>1, <4>1 DEF HourRead, DayRead
      <3>4. CASE time.hour # CURRENT_HOUR /\ CURRENT_HOUR = LastHour
        <4>1. ABSOLUTE_DAY = DayBefore(DayRead)
          BY <2>2, <3>1, <3>3, <3>4 DEF DayCounted
        <4>2. ABSOLUTE_DAY' = DayRead
          BY <3>1, <3>3, <3>4, <4>1, DayBeforeAfter DEF DayAfter
        <4> QED
          BY <2>4, <3>1, <3>2, <3>4, <4>2 DEF DayCounted
      <3>5. CASE ~(time.hour # CURRENT_HOUR /\ CURRENT_HOUR = LastHour)
        <4>1. ABSOLUTE_DAY = DayRead /\ ABSOLUTE_DAY' = ABSOLUTE_DAY
          BY <2>2, <3>1, <3>3, <3>5 DEF DayCounted, DayAfter
        <4>2. ~(pc' # "setHour" /\ CURRENT_HOUR' = LastHour /\ HourRead' # LastHour)
          BY <2>3, <3>1, <3>3, <3>5
        <4> QED
          BY <2>4, <3>2, <4>1, <4>2 DEF DayCounted
      <3> QED
        BY <3>4, <3>5
    <2>6. CASE SetHour
      <3>1. pc = "setHour" /\ pc' = "setTime" /\ CURRENT_HOUR' = time.hour
            /\ UNCHANGED <<time, ABSOLUTE_DAY>>
        BY <2>6 DEF SetHour, Runs, readVars
      <3>2. HourRead = time.hour /\ ABSOLUTE_DAY = DayRead
        BY <2>2, <3>1 DEF HourRead, DayCounted
      <3> QED
        BY <2>3, <2>4, <3>1, <3>2 DEF HourAssigned, DayCounted
    <2>7. CASE ~CompareHour /\ ~SetHour
      <3>1. UNCHANGED <<ABSOLUTE_DAY, CURRENT_HOUR>> /\ pc # "setHour" /\ pc' # "setHour"
        BY <1>4, <2>7
        DEF TimeTask, PollAlarm, GetMinute, StoreHour, SetTime, ResetAlarm, Runs, timeOfDay
      <3>2. HourAssigned'
        <4>1. CASE StoreHour
          BY <4>1 DEF StoreHour, Runs, HourAssigned
        <4>2. CASE ~StoreHour
          BY <1>4, <2>2, <2>7, <3>1, <4>2
          DEF TimeTask, PollAlarm, GetMinute, SetTime, ResetAlarm, Runs, readVars, HourAssigned
        <4> QED
          BY <4>1, <4>2
      <3> QED
        BY <2>2, <2>3, <2>4, <3>1, <3>2 DEF DayCounted
    <2> QED
      BY <2>5, <2>6, <2>7
  <1> QED
    BY <1>3, <1>4

(* FDIR's update counts the day that the time task has read the hour of and    *)
(* not counted yet, and its restart is excepted in the middle of an update.    *)
LEMMA FdirDay ==
  ASSUME TypeOKAll, DayInv, FdirRuns
  PROVE  DayInv'
  <1> SUFFICES ASSUME Regular'
               PROVE  (InTheHour /\ HourAssigned /\ DayCounted)'
    BY DEF DayInv
  <1>1. DayTyped /\ LengthsOK
    BY DayTypes, Lengths
  <1>2. UNCHANGED <<clock, time>>
    BY DEF FdirRuns, SuspendTasks, LeaveSafeMode, TimeUpdate, FdirUpdate, RestartTasks,
           RestartTask, rtcVars, readVars
  <1>3. gap' = gap /\ Regular
    BY DEF FdirRuns, SuspendTasks, LeaveSafeMode, TimeUpdate, FdirUpdate, RestartTasks,
           RestartTask, Regular
  <1>4. InTheHour /\ HourAssigned /\ DayCounted
    BY <1>2, <1>3 DEF DayInv, Regular
  <1>5. CASE SuspendTasks \/ LeaveSafeMode
    BY <1>2, <1>3, <1>4, <1>5
    DEF SuspendTasks, LeaveSafeMode, readVars, timeOfDay, InTheHour, HourAssigned,
        DayCounted, DayRead, HourRead
  <1>6. ASSUME NEW restarted \in Restarts, RestartTasks(restarted)
        PROVE  (InTheHour /\ HourAssigned /\ DayCounted)'
    <2>1. RestartTask(restarted)
      BY <1>6 DEF RestartTasks
    <2>2. UNCHANGED <<ABSOLUTE_DAY, CURRENT_HOUR>>
      BY <2>1 DEF RestartTask, timeOfDay
    <2>3. CASE "time" \in restarted
      <3>1. pc \notin Assigning /\ pc' = "poll"
        BY <1>3, <2>1, <2>3 DEF RestartTask, Regular
      <3>2. HourRead' = HourRead
        BY <1>2, <3>1 DEF HourRead, Assigning, Holding
      <3> QED
        BY <1>2, <1>3, <1>4, <2>2, <3>1, <3>2
        DEF InTheHour, HourAssigned, DayCounted, DayRead, Assigning, Holding
    <2>4. CASE "time" \notin restarted
      BY <1>2, <1>3, <1>4, <2>1, <2>2, <2>4
      DEF RestartTask, InTheHour, HourAssigned, DayCounted, DayRead, HourRead
    <2> QED
      BY <2>3, <2>4
  <1>7. CASE TimeUpdate
    <2>1. /\ pc' = pc /\ read_hour' = read_hour /\ CURRENT_HOUR' = time.hour
          /\ ABSOLUTE_DAY' = IF time.hour # CURRENT_HOUR
                             THEN DayAfter(ABSOLUTE_DAY, CURRENT_HOUR) ELSE ABSOLUTE_DAY
          /\ pc # "setHour"
      BY <1>3, <1>7 DEF TimeUpdate, FdirUpdate, UpdateAbsoluteTime, readVars, Regular
    <2>2. HourRead' = HourRead
      BY <1>2, <2>1 DEF HourRead
    <2>3. InTheHour' /\ DayRead' = DayRead
      BY <1>2, <1>3, <1>4, <2>1, <2>2 DEF InTheHour, DayRead
    <2>4. HourAssigned'
      BY <1>2, <2>1 DEF HourAssigned
    <2>5. CASE pc # "update"
      BY <1>4, <2>1, <2>2, <2>3, <2>4, <2>5 DEF HourAssigned, DayCounted
    <2>6. CASE pc = "update"
      <3>1. HourRead = time.hour /\ DayRead \in 0..Byte-1
        <4>1. DayBefore(clock.day) \in 0..Byte-1 /\ clock.day \in 0..Byte-1
          BY <1>1, DayBeforeAfter DEF DayTyped, Clocks
        <4> QED
          BY <2>6, <4>1 DEF HourRead, DayRead
      <3>2. ABSOLUTE_DAY' = DayRead
        <4>1. CASE time.hour # CURRENT_HOUR /\ CURRENT_HOUR = LastHour
          BY <1>4, <2>1, <3>1, <4>1, DayBeforeAfter DEF DayCounted, DayAfter
        <4>2. CASE ~(time.hour # CURRENT_HOUR /\ CURRENT_HOUR = LastHour)
          BY <1>4, <2>1, <3>1, <4>2 DEF DayCounted, DayAfter
        <4> QED
          BY <4>1, <4>2
      <3> QED
        BY <2>1, <2>2, <2>3, <2>4, <3>1, <3>2 DEF DayCounted
    <2> QED
      BY <2>5, <2>6
  <1> QED
    BY <1>5, <1>6, <1>7 DEF FdirRuns

(* Ground sets the minute alone, or is excepted; the scheduler and the EPS     *)
(* task read the time and no more.                                             *)
LEMMA OthersDay ==
  ASSUME TypeOKAll, DayInv, SetVariable \/ SchedulerRuns \/ Eps \/ UNCHANGED allVars
  PROVE  DayInv'
  <1>1. CASE UNCHANGED timeVars
    BY <1>1
    DEF timeVars, rtcVars, readVars, timeOfDay, modeVars, DayInv, Regular, InTheHour,
        HourAssigned, DayCounted, DayRead, HourRead
  <1>2. SchedulerRuns \/ Eps \/ UNCHANGED allVars => UNCHANGED timeVars
    BY DEF SchedulerRuns, Scheduler, StartScheduling, PassWithCommand, PassWithout, Eps,
           StartEps, Balance, EpsIdle, EpsReady, allVars, vars
  <1>3. CASE SetVariable
    <2> SUFFICES ASSUME Regular'
                 PROVE  (InTheHour /\ HourAssigned /\ DayCounted)'
      BY DEF DayInv
    <2>1. UNCHANGED <<clock, pc, read_hour, time>>
      BY <1>3 DEF SetVariable, SetObcVariable, SetIntervalOnly, rtcVars, readVars
    <2>2. UNCHANGED <<ABSOLUTE_DAY, CURRENT_HOUR, gap>>
      <3>1. gap' # Lost
        BY DEF Regular
      <3>2. PICK val \in GroundValues :
              (\E i \in DOMAIN Settable : SetObcVariable(i, val)) \/ SetIntervalOnly
        BY <1>3 DEF SetVariable
      <3>3. CASE SetIntervalOnly
        BY <3>3 DEF SetIntervalOnly, timeOfDay
      <3>4. ASSUME NEW i \in DOMAIN Settable, SetObcVariable(i, val)
            PROVE  UNCHANGED <<ABSOLUTE_DAY, CURRENT_HOUR, gap>>
        <4>1. i \in 1..3
          BY <3>4 DEF Settable
        <4>2. ~(i <= 2)
          BY <3>1, <3>4 DEF SetObcVariable
        <4>3. ~(i <= 1)
          BY <4>1, <4>2
        <4> QED
          BY <3>4, <4>2, <4>3 DEF SetObcVariable
      <3> QED
        BY <3>2, <3>3, <3>4
    <2>3. InTheHour /\ HourAssigned /\ DayCounted
      BY <2>1, <2>2 DEF DayInv, Regular
    <2> QED
      BY <2>1, <2>2, <2>3 DEF InTheHour, HourAssigned, DayCounted, DayRead, HourRead
  <1> QED
    BY <1>1, <1>2, <1>3

(* Every counter keeps its width, and no day is lost or counted twice, but for *)
(* the races that DayKept names: the day is that of the last reading of the    *)
(* hour, which is no more than an hour old.                                    *)
THEOREM DaysAreKept == SpecAll => []TimedInv
  <1>1. TypeOKAll /\ DayInv /\ [NextAll]_allVars => DayInv'
    BY TickDay, TimeTaskDay, FdirDay, OthersDay DEF NextAll, Minute, TimeRuns
  <1>2. TypeOKAll /\ DayInv => TimedInv
    BY DayInvKeepsDays DEF TimedInv
  <1> QED
    BY <1>1, <1>2, InitDay, AlwaysTyped, PTL DEF SpecAll
=============================================================================

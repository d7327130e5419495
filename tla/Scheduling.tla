---------------------------- MODULE Scheduling -----------------------------
(***************************************************************************)
(* The scheduler (scheduling.c) composed with TimeKeeping: it compares the *)
(* time of the next command with CURRENT_TIME on every pass of its loop.   *)
(* BatteryBalance adds the EPS task and has the next-state relation.       *)
(*                                                                         *)
(* task_spimem_read and task_spimem_write return -1 before they touch the  *)
(* memory (spimem.c: no case of their switch ends with a break), so the    *)
(* list of commands is neither stored nor read.  What remains of it are    *)
(* the static variables of the scheduler, which outlive a restart of the   *)
(* task.                                                                   *)
(***************************************************************************)
EXTENDS TimeKeeping

CONSTANTS Word,          \* values of a uint32_t (2^32)
          MAX_SCHED_COMMANDS,
          MaxCommands,   \* commands in one telecommand (8)
          CommandTimes   \* times that ground may schedule commands for

ASSUME SchedulingAssumption ==
  /\ Word \in Nat /\ MaxCommands \in Nat
  /\ MAX_SCHED_COMMANDS \in Byte..Word-1
  /\ CommandTimes \subseteq Nat

VARIABLES
  num_commands, next_command_time, scheduling_on,
  temp0,           \* temp_arr[0], the low byte of the buffer of the scheduler
  starting         \* the task has been created and has not run yet

schedVars == <<num_commands, next_command_time, scheduling_on, temp0, starting>>
vars == <<timeVars, schedVars>>

Init ==
  /\ TimeInit
  /\ num_commands = 0 /\ next_command_time = 0 /\ scheduling_on = 0
  /\ temp0 = 0 /\ starting = TRUE

(* What a restart does to the scheduler. *)
RestartTasks(restarted) ==
  /\ RestartTask(restarted)
  /\ starting' = (starting \/ "scheduling" \in restarted)
  /\ UNCHANGED <<num_commands, next_command_time, scheduling_on, temp0>>

-----------------------------------------------------------------------------
(* The scheduler.  It may preempt the time task anywhere; as it and the EPS     *)
(* task read one variable of the time each, it is enough that they run while    *)
(* the time task polls, or is suspended.                                       *)

Awake(task) == task \notin suspended /\ (pc = "poll" \/ "time" \in suspended)

(* prvSchedulingTask before its loop.  The three reads leave temp_arr as it  *)
(* was, and each value is assigned four times: the low byte remains.         *)
StartScheduling ==
  /\ starting /\ Awake("scheduling")
  /\ num_commands' = temp0 /\ next_command_time' = temp0
  /\ scheduling_on' = 1 /\ temp0' = 0 /\ starting' = FALSE
  /\ UNCHANGED timeVars

(* The state of the scheduler that its functions pass on. *)
Sched == [num |-> num_commands, next |-> next_command_time, temp |-> temp0]

Due(s) == s.next <= CURRENT_TIME

(* check_schedule.  exec_k_commands finds an empty command and fails; the    *)
(* number of commands is decremented, wrapping at zero, and the time of the  *)
(* next one "read back" from temp_arr, which holds that number.              *)
CheckSchedule(s) ==
  LET left == (s.num + Word - 1) % Word
  IN IF Due(s) THEN [num |-> left, next |-> left % Byte, temp |-> left % Byte] ELSE s

(* Faulty variant: add_command_to_beginning is called for a later command.   *)
ModifyLater(s, n, earliest) ==
  LET num == (s.num + n) % Word IN [num |-> num, next |-> earliest, temp |-> num % Byte]

(* modify_schedule for n commands, the first of them due at earliest.  The    *)
(* branches for a full list are not reached: the list is cleared after every  *)
(* addition.  num_commands above the limit, after a wrap, is not incremented.  *)
ModifySchedule(s, n, earliest) ==
  LET num == IF s.num < MAX_SCHED_COMMANDS THEN s.num + n ELSE s.num
  IN [num |-> num, next |-> IF earliest < s.next THEN earliest ELSE s.next,
      temp |-> num % Byte]

(* clear_schedule leaves next_command_time alone. *)
ClearSchedule(s) == [s EXCEPT !.num = 0, !.temp = 0]

(* exec_pus_commands.  No case ends with a break: what follows an addition is *)
(* a check, then the clearing of the list; a pause is followed by a resume.   *)
(* Reporting the list fails at its first packet and changes nothing.          *)
Commands ==
  {"ADD_SCHEDULE", "CLEAR_SCHEDULE", "SCHED_REPORT_REQUEST", "PAUSE_SCHEDULE",
   "RESUME_SCHEDULE"}

ExecPusCommand(command, n, earliest) ==
  CASE command = "ADD_SCHEDULE"   -> ClearSchedule(CheckSchedule(ModifySchedule(Sched, n, earliest)))
    [] command = "CLEAR_SCHEDULE" -> ClearSchedule(Sched)
    [] OTHER                      -> Sched

SetSched(s) ==
  /\ num_commands' = s.num /\ next_command_time' = s.next /\ temp0' = s.temp

(* Bound: the count is not followed from its wrap at zero down to the limit. *)
InCount(s) == s.num # MAX_SCHED_COMMANDS

SchedulerReady == ~starting /\ Awake("scheduling")

(* A pass of the loop that receives a command. *)
PassWithCommand(command, n, earliest) ==
  LET s == CheckSchedule(ExecPusCommand(command, n, earliest))
  IN /\ SchedulerReady /\ InCount(s)
     /\ SetSched(s) /\ scheduling_on' = 1
     /\ UNCHANGED <<timeVars, starting>>

(* A pass whose wait ends without one. *)
PassWithout ==
  /\ SchedulerReady /\ scheduling_on = 1
  /\ InCount(CheckSchedule(Sched)) /\ SetSched(CheckSchedule(Sched))
  /\ UNCHANGED <<timeVars, scheduling_on, starting>>

Scheduler ==
  \/ StartScheduling
  \/ \E command \in Commands, n \in 1..MaxCommands, earliest \in CommandTimes :
       PassWithCommand(command, n, earliest)
  \/ PassWithout

-----------------------------------------------------------------------------
TypeOK ==
  /\ TimeTypeOK
  /\ num_commands \in 0..Word-1
  /\ next_command_time \in Nat /\ scheduling_on \in 0..1
  /\ temp0 \in 0..Byte-1 /\ starting \in BOOLEAN

(* Whatever commands ground schedules and for whenever: from the first minute *)
(* that is recorded on, the scheduler always finds its next command due, and  *)
(* carries one out (an empty one, which fails) on every pass, because         *)
(* next_command_time is only ever lowered to the time of a command, and       *)
(* otherwise assigned one byte, of the number of commands.                    *)
AlwaysDue == CURRENT_TIME >= Packed(0, 0, 1) => next_command_time <= CURRENT_TIME
=============================================================================

--------------------------- MODULE FaultRecovery ---------------------------
(***************************************************************************)
(* The error channel and FDIR.  Tasks report errors by errorASSERT (high    *)
(* severity) and errorREPORT (low severity), SSMs by a CAN message; the FDIR *)
(* task takes them from two queues, decodes them, runs a resolution sequence *)
(* and, on most paths, calls enter_SAFE_MODE, which suspends the other tasks *)
(* and serves errors and commands until SAFE_MODE is cleared.                *)
(*                                                                         *)
(* FDIR is one task whose functions call each other and come back to where   *)
(* they were, enter_SAFE_MODE calling check_error and exec_commands again:   *)
(* todo is its stack of pending calls, and an action replaces the call on    *)
(* top by the calls it makes.  FDIR has the highest priority but waits for   *)
(* queues, mutexes and delays, so the tasks run between its actions.         *)
(***************************************************************************)
EXTENDS Integers, Sequences, FiniteSets

CONSTANTS
  Reporters,     \* tasks that report errors, a subset of the tasks of TaskOrder
  Asserts,       \* what they pass to errorASSERT
  Reports,       \* what they pass to errorREPORT
  SsmAsserts,    \* what SSMs send with SSM_ERROR_ASSERT
  Commands,      \* [name, arg]: commands FDIR may take from obc_to_fdir_fifo
  FifoLength,    \* of the two queues to FDIR (4 in the code)
  AssertPolls,   \* timeout of errorASSERT, in polls (300000 in the code)
  FumbleLimit,   \* usage errors of scheduling and chip errors allowed (10)
  FifoLimit,     \* errors of one FIFO allowed (5)
  TimeoutLimit,  \* increments a timeout may get before it is too long
  MaxInputs,     \* bound: errors reported by tasks and SSMs, and commands
  MaxExits       \* bound: CAN messages that clear SAFE_MODE

(* The order of the cases of the switches over task ids; other senders, such *)
(* as SPIMEM_SENDER_ID, come to the default.                                 *)
TaskOrder == <<"hk", "time", "coms", "eps", "pay", "opr", "sched", "wdt", "mem">>
Tasks == {TaskOrder[i] : i \in DOMAIN TaskOrder}
Held == Tasks \ {"opr"}    \* suspended in SAFE_MODE: all but the router

(* The cases a switch without breaks runs through, beginning at task t.      *)
TasksFrom(t) ==
  {TaskOrder[i] : i \in {i \in DOMAIN TaskOrder :
                          \E j \in 1 .. i : TaskOrder[j] = t}}

NoTask == "none"
ReportSet == Asserts \cup Reports \cup SsmAsserts
NoReport == [task |-> NoTask, code |-> 0, error |-> 0]

(* The order of the cases in exec_commands.                                  *)
CommandOrder ==
  << "ENTER_LOW_POWER_MODE", "EXIT_LOW_POWER_MODE", "ENTER_SAFE_MODE", "EXIT_SAFE_MODE",
     "ENTER_COMS_TAKEOVER_MODE", "EXIT_COMS_TAKEOVER_MODE", "PAUSE_SSM_OPERATIONS",
     "RESUME_SSM_OPERATIONS", "REPROGRAM_SSM", "RESET_SSM", "RESET_TASK", "DELETE_TASK",
     "setVariable", "getVariable" >>

ASSUME ConstantsOK ==
  /\ Reporters \subseteq Tasks
  /\ \A r \in ReportSet : /\ r = [task |-> r.task, code |-> r.code, error |-> r.error]
                          /\ r.code \in Int /\ r.error \in Int
  /\ \A c \in Commands : \E i \in DOMAIN CommandOrder : CommandOrder[i] = c.name
  /\ FifoLength \in Nat \ {0} /\ FumbleLimit \in Nat /\ FifoLimit \in Nat
  /\ AssertPolls \in Nat /\ AssertPolls % 2 = 0 /\ AssertPolls >= 2 * Len(TaskOrder)
  /\ TimeoutLimit \in Nat
  /\ \A b \in {MaxInputs, MaxExits} : b \in Nat

VARIABLES
  high_error_array, low_error_array,   \* shared by all reporters
  high_fifo, low_fifo,                 \* high_sev_to_fdir_fifo, low_sev_to_fdir_fifo
  highsev, lowsev,                     \* who took the mutex last, or "free"
  signal,                              \* hk_fdir_signal, time_fdir_signal, ...
  rep,                                 \* where each reporter is in its call
  starting,                            \* tasks created again that have not run yet
  todo,                                \* FDIR's stack
  glob,                                \* FDIR's global task and code
  SAFE_MODE, suspended, scheduling_on, INTERNAL_MEMORY_FALLBACK_MODE,
  health, fumbles, timeouts,
  count,                               \* counters behind the bounds
  mixed,                               \* observer: two reporters used an array at once
  lowSeen,                             \* observer: low errors decoded
  lastExit                             \* observer: what cleared SAFE_MODE last

channel == <<high_error_array, low_error_array, high_fifo, low_fifo, highsev, lowsev>>
modes == <<SAFE_MODE, suspended, scheduling_on, INTERNAL_MEMORY_FALLBACK_MODE>>
accounts == <<health, fumbles, timeouts>>
observers == <<mixed, lowSeen, lastExit>>
vars == <<channel, signal, rep, starting, todo, glob, modes, accounts, count, observers>>

Idle == [pc |-> "idle", sev |-> "high", report |-> NoReport, at |-> 1, polls |-> 0]

Fumblers == {<<"schedUsage", 0>>, <<"opr", 0>>} \cup ({"chip"} \X (1 .. 3))
              \cup ((Tasks \ {"opr", "wdt"}) \X {0, 1})
Timeouts == {"req_data", "chip_erase", "erase_sector", "obc_consec_trans"}
Bounded == {"inputs", "exits"}

Init ==
  /\ high_error_array = NoReport /\ low_error_array = NoReport
  /\ high_fifo = <<>> /\ low_fifo = <<>>
  /\ highsev = "free" /\ lowsev = "free"
  /\ signal = [t \in Tasks |-> 0]
  /\ rep = [t \in Reporters |-> Idle]
  /\ starting = {}
  /\ todo = <<>>
  /\ glob = [task |-> NoTask, code |-> 0]
  /\ SAFE_MODE = 0 /\ suspended = {} /\ scheduling_on = 1
  /\ INTERNAL_MEMORY_FALLBACK_MODE = 0
  /\ health = [c \in 1 .. 3 |-> 1]
  /\ fumbles = [f \in Fumblers |-> 0]
  /\ timeouts = [t \in Timeouts |-> 0]
  /\ count = [b \in Bounded |-> 0]
  /\ mixed = 0 /\ lowSeen = 0 /\ lastExit = "none"

Counted(b, max) == count[b] < max /\ count' = [count EXCEPT ![b] = @ + 1]
Push(fifo, item) == IF Len(fifo) < FifoLength THEN Append(fifo, item) ELSE fifo

-----------------------------------------------------------------------------
(* The reporters.  A suspended task makes no step; one that is restarted      *)
(* leaves its call where it was.  The five minutes a call waits for a mutex or *)
(* for room in a queue may end at any point.                                  *)

fdir == <<starting, todo, glob, modes, accounts, lowSeen, lastExit>>

At(t, pc) == t \notin suspended /\ rep[t].pc = pc
Goto(t, pc) == rep' = [rep EXCEPT ![t].pc = pc]
Sharing(sev) == {t \in Reporters : rep[t].sev = sev /\ rep[t].pc \in {"fill", "take", "send"}}

(* The data and the error code go into the shared array first ...             *)
Call(t, sev, r) ==
  /\ At(t, "idle") /\ t \notin starting
  /\ Counted("inputs", MaxInputs)
  /\ rep' = [rep EXCEPT ![t] = [Idle EXCEPT !.pc = "fill", !.sev = sev, !.report = r]]
  /\ IF sev = "high"
     THEN /\ high_error_array' = [high_error_array EXCEPT !.error = r.error]
          /\ UNCHANGED low_error_array
     ELSE /\ low_error_array' = [low_error_array EXCEPT !.error = r.error]
          /\ UNCHANGED high_error_array
  /\ mixed' = IF Sharing(sev) # {} THEN 1 ELSE mixed
  /\ UNCHANGED <<high_fifo, low_fifo, highsev, lowsev, signal, fdir>>

(* Faulty variant: errorREPORT, a copy of errorASSERT, fills the other array.  *)
FillHigh(t) ==
  /\ At(t, "fill")
  /\ Goto(t, "take")
  /\ high_error_array' = [rep[t].report EXCEPT !.error = high_error_array.error]
  /\ UNCHANGED <<low_error_array, high_fifo, low_fifo, highsev, lowsev, signal, fdir,
                 count, mixed>>

(* ... then the task and the code.                                            *)
Fill(t) ==
  /\ At(t, "fill")
  /\ Goto(t, "take")
  /\ LET r == rep[t].report IN
     IF rep[t].sev = "high"
     THEN /\ high_error_array' = [r EXCEPT !.error = high_error_array.error]
          /\ UNCHANGED low_error_array
     ELSE /\ low_error_array' = [r EXCEPT !.error = low_error_array.error]
          /\ UNCHANGED high_error_array
  /\ UNCHANGED <<high_fifo, low_fifo, highsev, lowsev, signal, fdir, count, mixed>>

AssertTake(t) ==
  /\ At(t, "take") /\ rep[t].sev = "high"
  /\ \/ highsev = "free" /\ highsev' = t /\ Goto(t, "send")
     \/ highsev # "free" /\ Goto(t, "give") /\ UNCHANGED highsev
  /\ UNCHANGED <<high_error_array, low_error_array, high_fifo, low_fifo, lowsev,
                 signal, fdir, count, mixed>>

(* The array is queued as it is now; a full queue is given up on.             *)
AssertSend(t) ==
  /\ At(t, "send") /\ rep[t].sev = "high"
  /\ high_fifo' = Push(high_fifo, high_error_array)
  /\ Goto(t, "give")
  /\ UNCHANGED <<high_error_array, low_error_array, low_fifo, highsev, lowsev,
                 signal, fdir, count, mixed>>

(* The mutex is given whether or not it was taken.                            *)
AssertGive(t) ==
  /\ At(t, "give") /\ rep[t].sev = "high"
  /\ highsev' = "free"
  /\ rep' = [rep EXCEPT ![t] =
               IF @.report.task \in Tasks
               THEN [@ EXCEPT !.pc = "signal", !.polls = AssertPolls,
                              !.at = CHOOSE i \in DOMAIN TaskOrder :
                                       TaskOrder[i] = rep[t].report.task]
               ELSE Idle]
  /\ UNCHANGED <<high_error_array, low_error_array, high_fifo, low_fifo, lowsev,
                 signal, fdir, count, mixed>>

SetSignal(t) ==
  /\ At(t, "signal")
  /\ signal' = [signal EXCEPT ![TaskOrder[rep[t].at]] = 1]
  /\ Goto(t, "poll")
  /\ UNCHANGED <<channel, fdir, count, mixed>>

(* while (signal & timeout--): the lowest bit of the timeout decides.  At the *)
(* end of one case the next is entered.                                      *)
KeepsPolling(t) == signal[TaskOrder[rep[t].at]] = 1 /\ rep[t].polls % 2 = 1

Poll(t) ==
  /\ At(t, "poll")
  /\ LET r == rep[t] IN
     rep' = [rep EXCEPT ![t] =
               IF KeepsPolling(t) THEN [r EXCEPT !.polls = r.polls - 1]
               ELSE IF r.at = Len(TaskOrder) THEN Idle
               ELSE [r EXCEPT !.pc = "signal", !.polls = r.polls - 1, !.at = r.at + 1]]
  /\ UNCHANGED <<channel, signal, fdir, count, mixed>>

ReportTake(t) ==
  /\ At(t, "take") /\ rep[t].sev = "low"
  /\ \/ lowsev = "free" /\ lowsev' = t /\ Goto(t, "send")
     \/ lowsev # "free" /\ rep' = [rep EXCEPT ![t] = Idle] /\ UNCHANGED lowsev
  /\ UNCHANGED <<high_error_array, low_error_array, high_fifo, low_fifo, highsev,
                 signal, fdir, count, mixed>>

ReportSend(t) ==
  /\ At(t, "send") /\ rep[t].sev = "low"
  /\ low_fifo' = Push(low_fifo, low_error_array)
  /\ Goto(t, "give")
  /\ UNCHANGED <<high_error_array, low_error_array, high_fifo, highsev, lowsev,
                 signal, fdir, count, mixed>>

ReportGive(t) ==
  /\ At(t, "give") /\ rep[t].sev = "low"
  /\ lowsev' = "free"
  /\ rep' = [rep EXCEPT ![t] = Idle]
  /\ UNCHANGED <<high_error_array, low_error_array, high_fifo, low_fifo, highsev,
                 signal, fdir, count, mixed>>

Report(t) ==
  \/ \E r \in Asserts : Call(t, "high", r)
  \/ \E r \in Reports : Call(t, "low", r)

InCall(t) ==
  \/ Fill(t) \/ AssertTake(t) \/ AssertSend(t) \/ AssertGive(t)
  \/ SetSignal(t) \/ Poll(t)
  \/ ReportTake(t) \/ ReportSend(t) \/ ReportGive(t)

(* A task that was created again runs: scheduling sets scheduling_on, memory     *)
(* management declares all chips healthy (the other tasks change nothing here). *)
StartTask(t) ==
  /\ t \notin suspended
  /\ starting' = starting \ {t}
  /\ scheduling_on' = IF t = "sched" THEN 1 ELSE scheduling_on
  /\ health' = IF t = "mem" THEN [c \in 1 .. 3 |-> 1] ELSE health
  /\ UNCHANGED <<channel, signal, rep, todo, glob, SAFE_MODE, suspended,
                 INTERNAL_MEMORY_FALLBACK_MODE, fumbles, timeouts, count, observers>>

-----------------------------------------------------------------------------
(* The CAN1 interrupt.                                                       *)

(* SSM_ERROR_ASSERT: queued without the mutex.  What FDIR takes as the error is  *)
(* the byte of the message that holds the minute.                             *)
SsmErrorAssert ==
  /\ Counted("inputs", MaxInputs)
  /\ \E r \in SsmAsserts : high_fifo' = Push(high_fifo, r)
  /\ UNCHANGED <<high_error_array, low_error_array, low_fifo, highsev, lowsev,
                 signal, rep, fdir, mixed>>

(* The message 0x01234567 0x89ABCDEF clears SAFE_MODE.                       *)
ExitMessage ==
  /\ SAFE_MODE = 1
  /\ Counted("exits", MaxExits)
  /\ SAFE_MODE' = 0
  /\ lastExit' = "CAN"
  /\ UNCHANGED <<channel, signal, rep, starting, todo, glob, suspended, scheduling_on,
                 INTERNAL_MEMORY_FALLBACK_MODE, accounts, mixed, lowSeen>>

-----------------------------------------------------------------------------
(* FDIR: the stack.                                                          *)

senders == <<high_error_array, low_error_array, rep, starting, mixed>>
queues == <<high_fifo, low_fifo, highsev, lowsev>>

Op(name, t, c) == [op |-> name, task |-> t, code |-> c, at |-> 0]
Just(name) == Op(name, NoTask, 0)
EnterSafe == <<Just("enter_SAFE_MODE")>>
Clear(t) == <<Op("clear_fdir_signal", t, 0)>>
Restart(t) == <<Op("restart_task", t, 0)>>

Calling(name) == todo # <<>> /\ Head(todo).op = name
Becomes(ops) == todo' = ops \o Tail(todo)

MainLoop ==
  /\ todo = <<>>
  /\ todo' = <<Just("check_high"), Just("check_low"), Just("exec_commands")>>
  /\ UNCHANGED <<senders, queues, signal, glob, modes, accounts, count, lowSeen, lastExit>>

(* check_error, high severity.  When the mutex is taken and the queue is      *)
(* empty it is given back, and nothing has changed.                          *)
CheckHigh ==
  /\ Calling("check_high")
  /\ IF highsev = "free" /\ high_fifo # <<>>
     THEN LET e == Head(high_fifo) IN
          /\ highsev' = "fdir"
          /\ high_fifo' = Tail(high_fifo)
          /\ glob' = [task |-> e.task, code |-> e.code]
          /\ Becomes(<<[Op("decode_error", e.task, e.code) EXCEPT !.at = e.error],
                       Just("give_high")>>)
     ELSE /\ UNCHANGED <<highsev, high_fifo>>
          /\ glob' = [task |-> NoTask, code |-> 0]
          /\ Becomes(<<>>)
  /\ UNCHANGED <<senders, low_fifo, lowsev, signal, modes, accounts, count, lowSeen, lastExit>>

(* Faulty variant: the other mutex is given.                                 *)
GiveTheOther ==
  /\ Calling("give_high")
  /\ lowsev' = "free"
  /\ Becomes(<<>>)
  /\ UNCHANGED <<senders, high_fifo, low_fifo, highsev, signal, glob, modes, accounts, count,
                 lowSeen, lastExit>>

GiveHigh ==
  /\ Calling("give_high")
  /\ highsev' = "free"
  /\ Becomes(<<>>)
  /\ UNCHANGED <<senders, high_fifo, low_fifo, lowsev, signal, glob, modes, accounts, count,
                 lowSeen, lastExit>>

(* Faulty variant: the mutex of the low channel is given back.               *)
CheckLowGivingBack ==
  /\ Calling("check_low")
  /\ lowsev = "free"
  /\ IF low_fifo # <<>>
     THEN /\ Becomes(<<[Op("decode_error", glob.task, glob.code)
                          EXCEPT !.at = Head(low_fifo).error]>>)
          /\ low_fifo' = Tail(low_fifo)
          /\ lowSeen' = lowSeen + 1
     ELSE Becomes(<<>>) /\ UNCHANGED <<low_fifo, lowSeen>>
  /\ UNCHANGED <<senders, high_fifo, highsev, lowsev, signal, glob, modes, accounts,
                 count, lastExit>>

(* check_error, low severity: task and code are those left by the high error, *)
(* and the mutex that is given is the other one.                             *)
CheckLow ==
  /\ Calling("check_low")
  /\ IF lowsev = "free"
     THEN /\ lowsev' = "fdir"
          /\ IF low_fifo # <<>>
             THEN /\ Becomes(<<[Op("decode_error", glob.task, glob.code)
                                  EXCEPT !.at = Head(low_fifo).error],
                               Just("give_high")>>)
                  /\ low_fifo' = Tail(low_fifo)
                  /\ lowSeen' = lowSeen + 1
             ELSE Becomes(<<Just("give_high")>>) /\ UNCHANGED <<low_fifo, lowSeen>>
     ELSE Becomes(<<>>) /\ UNCHANGED <<lowsev, low_fifo, lowSeen>>
  /\ UNCHANGED <<senders, high_fifo, highsev, signal, glob, modes, accounts, count, lastExit>>

(* decode_error: the cases in their order, each with the task it expects and  *)
(* what it calls.                                                            *)
Any == "any"
Cases ==
  << <<1, "sched", "1">>, <<2, "sched", "1">>, <<3, "sched", "1">>, <<4, "sched", "4">>,
     <<5, "sched", "5">>, <<6, "hk", "5">>, <<7, "hk", "7">>, <<8, "hk", "1">>,
     <<28, "hk", "1">>, <<9, "time", "5">>, <<10, Any, "10">>, <<11, Any, "11">>,
     <<12, Any, "1_4">>, <<13, Any, "1_4">>, <<14, Any, "14">>, <<15, Any, "1_4">>,
     <<16, Any, "1_4">>, <<17, Any, "1_1">>, <<18, Any, "18">>, <<19, "mem", "1_1">>,
     <<20, "mem", "18">>, <<21, "mem", "1_4">>, <<22, "mem", "5">>, <<23, "eps", "7">>,
     <<24, "eps", "7">>, <<25, "opr", "25">>, <<29, "opr", "29">>, <<31, "opr", "31">>,
     <<32, "pay", "1">>, <<33, "eps", "5">> >>

CaseOf(error) ==
  IF \E i \in DOMAIN Cases : Cases[i][1] = error
  THEN CHOOSE i \in DOMAIN Cases : Cases[i][1] = error
  ELSE Len(Cases) + 1

(* No case has a break: each is followed by the next, the last by the default. *)
DecodeError ==
  /\ Calling("decode_error")
  /\ LET d == Head(todo)
         i == CaseOf(d.at) IN
     IF i > Len(Cases) THEN Becomes(EnterSafe)
     ELSE Becomes((IF Cases[i][2] \in {Any, d.task} THEN <<>> ELSE EnterSafe)
                  \o << Op(Cases[i][3], d.task, d.code),
                        [d EXCEPT !.at = IF i = Len(Cases) THEN 0 ELSE Cases[i + 1][1]] >>)
  /\ UNCHANGED <<senders, queues, signal, glob, modes, accounts, count, lowSeen, lastExit>>

-----------------------------------------------------------------------------
(* The resolution sequences.                                                 *)

unresolved == <<senders, queues, signal, glob, SAFE_MODE, suspended, count,
                lowSeen, lastExit>>

ResolutionSequence1 ==
  /\ Calling("1")
  /\ LET d == Head(todo)
         parts == [c \in {255, 254, 253, 252} |->
                     CASE c = 255 -> "1_1" [] c = 254 -> "1_2"
                       [] c = 253 -> "1_3" [] c = 252 -> "1_4"] IN
     Becomes(IF d.code \in DOMAIN parts THEN <<Op(parts[d.code], d.task, 0)>> ELSE <<>>)
  /\ UNCHANGED <<unresolved, scheduling_on, INTERNAL_MEMORY_FALLBACK_MODE, accounts>>

(* All chips are given up: the same is done for errors 17 and 19.            *)
ResolutionSequence1_1 ==
  /\ Calling("1_1")
  /\ INTERNAL_MEMORY_FALLBACK_MODE' = 1
  /\ Becomes(Clear(Head(todo).task))
  /\ UNCHANGED <<unresolved, scheduling_on, accounts>>

(* Error 10, a busy chip during initialisation.                              *)
SpimemErrorDuringInit ==
  /\ Calling("10")
  /\ INTERNAL_MEMORY_FALLBACK_MODE' = 1
  /\ Becomes(EnterSafe)
  /\ UNCHANGED <<unresolved, scheduling_on, accounts>>

ResolutionSequence1_2 ==
  /\ Calling("1_2")
  /\ LET n == fumbles[<<"schedUsage", 0>>] + 1 IN
     /\ fumbles' = [fumbles EXCEPT ![<<"schedUsage", 0>>] = n]
     /\ Becomes((IF n = FumbleLimit THEN Restart("sched")
                 ELSE IF n > FumbleLimit THEN EnterSafe ELSE <<>>)
                \o Clear(Head(todo).task))
  /\ UNCHANGED <<unresolved, scheduling_on, INTERNAL_MEMORY_FALLBACK_MODE, health, timeouts>>

(* Spi0_Mutex is free within five seconds, or else its holder is asked for: it *)
(* is a binary semaphore, which has none, and eTaskGetState(NULL) stops the OBC *)
(* with interrupts off.                                                      *)
ResolutionSequence1_3 ==
  /\ Calling("1_3")
  /\ \E ops \in {Clear(Head(todo).task), <<Just("halted")>>} : Becomes(ops)
  /\ UNCHANGED <<unresolved, scheduling_on, INTERNAL_MEMORY_FALLBACK_MODE, accounts>>

FirstHealthy == CHOOSE c \in 1 .. 3 :
                  health[c] = 1 /\ \A b \in 1 .. c - 1 : health[b] = 0
NoneHealthy == \A c \in 1 .. 3 : health[c] = 0

(* The first healthy chip has one fumble more and may be given up; with the    *)
(* third the OBC goes to internal memory at once.                             *)
ResolutionSequence1_4 ==
  /\ Calling("1_4")
  /\ IF NoneHealthy
     THEN /\ Becomes(Clear(Head(todo).task))
          /\ UNCHANGED <<health, fumbles, INTERNAL_MEMORY_FALLBACK_MODE>>
     ELSE LET c == FirstHealthy
              n == fumbles[<<"chip", c>>] + 1 IN
          /\ fumbles' = [fumbles EXCEPT ![<<"chip", c>>] = n]
          /\ health' = [health EXCEPT ![c] = IF n >= FumbleLimit THEN 0 ELSE 1]
          /\ INTERNAL_MEMORY_FALLBACK_MODE' =
               IF c = 3 THEN 1 ELSE INTERNAL_MEMORY_FALLBACK_MODE
          /\ Becomes(IF c = 3 THEN Clear(Head(todo).task)
                     ELSE <<Op("testChip", Head(todo).task, 0)>>)
  /\ UNCHANGED <<unresolved, scheduling_on, timeouts>>

(* The test of the first chip that is still healthy, with a pattern written to *)
(* address 0; what follows a failed write, or any read of chips 2 and 3, runs   *)
(* after SAFE_MODE was left.                                                  *)
TestChip ==
  /\ Calling("testChip")
  /\ LET t == Head(todo).task IN
     IF NoneHealthy
     THEN Becomes(Clear(t)) /\ UNCHANGED INTERNAL_MEMORY_FALLBACK_MODE
     ELSE \E written, read \in BOOLEAN :
            LET failed == (IF written THEN <<>> ELSE EnterSafe)
                            \o (IF FirstHealthy = 1 /\ read THEN <<>> ELSE EnterSafe) IN
            /\ INTERNAL_MEMORY_FALLBACK_MODE' =
                 IF failed # <<>> THEN 1 ELSE INTERNAL_MEMORY_FALLBACK_MODE
            /\ Becomes(failed \o <<Op("compare", t, FirstHealthy)>>)
  /\ UNCHANGED <<unresolved, scheduling_on, accounts>>

CompareChip ==
  /\ Calling("compare")
  /\ \E same \in BOOLEAN :
       health' = IF same THEN health ELSE [health EXCEPT ![Head(todo).code] = 0]
  /\ Becomes(Clear(Head(todo).task))
  /\ UNCHANGED <<unresolved, scheduling_on, INTERNAL_MEMORY_FALLBACK_MODE, fumbles, timeouts>>

(* The restart goes through SAFE_MODE before scheduling is paused.            *)
ResolutionSequence4 ==
  \/ /\ Calling("4")
     /\ Becomes(Restart(Head(todo).task) \o <<Just("pauseScheduling")>>)
     /\ UNCHANGED <<unresolved, scheduling_on, INTERNAL_MEMORY_FALLBACK_MODE, accounts>>
  \/ /\ Calling("pauseScheduling")
     /\ scheduling_on' = 0
     /\ Becomes(EnterSafe)
     /\ UNCHANGED <<unresolved, INTERNAL_MEMORY_FALLBACK_MODE, accounts>>

(* A queue to or from the router failed (code 1 or 0).  Restarting the task,    *)
(* recreating its queues and giving up all end in SAFE_MODE; then the signal of  *)
(* this task is cleared.                                                     *)
Tolerated(t) == IF t \in {"coms", "eps", "pay", "opr"} THEN 1 ELSE FifoLimit
Fumbler(t, c) == <<t, IF t = "opr" THEN 0 ELSE c>>

ResolutionSequence5 ==
  /\ Calling("5")
  /\ LET t == Head(todo).task
         d == IF Head(todo).code = 0 THEN 0 ELSE 1
         limit == Tolerated(t)
         now == [fumbles EXCEPT ![Fumbler(t, d)] = @ + 1]
         worst == {now[Fumbler(t, 0)], now[Fumbler(t, 1)]}
         target == IF t = "mem" THEN "hk" ELSE t
         done == <<Op("clearOne", t, 0)>> IN
     IF t \in Tasks \ {"wdt"}
     THEN /\ fumbles' = now
          /\ Becomes((IF limit \in worst THEN Restart(target)
                      ELSE IF \E n \in worst : n > limit THEN EnterSafe
                      ELSE <<Op("recreate_fifo", target, d)>>) \o done)
     ELSE Becomes(EnterSafe) /\ UNCHANGED fumbles
  /\ UNCHANGED <<unresolved, scheduling_on, INTERNAL_MEMORY_FALLBACK_MODE, health, timeouts>>

ClearOne ==
  /\ Calling("clearOne")
  /\ signal' = [signal EXCEPT ![Head(todo).task] = 0]
  /\ Becomes(<<>>)
  /\ UNCHANGED <<senders, queues, glob, modes, accounts, count, lowSeen, lastExit>>

(* recreate_fifo comes to the default of its switch like the other helpers; its  *)
(* helper counts with an uninitialised counter and may put items back for ever,  *)
(* in SAFE_MODE each time one is not there.  (What is in the queues, and what    *)
(* deleting a queue by its first word does to the heap, is not modelled.)      *)
RecreateFifo ==
  /\ Calling("recreate_fifo")
  /\ \E again \in {<<>>, <<Just("recreate_fifo")>>} : Becomes(EnterSafe \o again)
  /\ UNCHANGED <<senders, queues, signal, glob, modes, accounts, count, lowSeen, lastExit>>

Longer(timeout) == timeouts' = [timeouts EXCEPT ![timeout] = @ + 1]
TooLong(timeout) == timeouts[timeout] + 1 > TimeoutLimit

(* A parameter (sequences 7 and 25): ask again with a longer timeout, reset the *)
(* SSM, reprogram it.  The status is read through a null pointer.             *)
ResolutionSequence7 ==
  /\ Calling("7") \/ Calling("25")
  /\ LET t == Head(todo).task
         wait == IF TooLong("req_data") THEN EnterSafe ELSE <<>> IN
     \/ /\ Calling("7")                       \* a parameter of the OBC itself
        /\ Becomes(EnterSafe)
        /\ UNCHANGED timeouts
     \/ /\ Longer("req_data")
        /\ \E ops \in {Clear(t),                              \* got it
                       EnterSafe \o Clear(t),                 \* after reset_SSM
                       EnterSafe \o EnterSafe \o Clear(t)} :  \* not at all
             Becomes(wait \o ops)
  /\ UNCHANGED <<unresolved, scheduling_on, INTERNAL_MEMORY_FALLBACK_MODE, health, fumbles>>

ResolutionSequence11 ==
  /\ Calling("11")
  /\ Longer("chip_erase")
  /\ LET t == Head(todo).task IN
     IF TooLong("chip_erase") THEN Becomes(EnterSafe \o Clear(t))
     ELSE \E ops \in {Clear(t), EnterSafe} : Becomes(ops)
  /\ UNCHANGED <<unresolved, scheduling_on, INTERNAL_MEMORY_FALLBACK_MODE, health, fumbles>>

(* Only the exact value of the limit counts as too long.                      *)
ResolutionSequence14 ==
  /\ Calling("14")
  /\ Longer("erase_sector")
  /\ LET t == Head(todo).task IN
     IF timeouts["erase_sector"] + 1 = TimeoutLimit THEN Becomes(EnterSafe \o Clear(t))
     ELSE \E ops \in {Clear(t), <<Op("1_4", t, 0)>>} : Becomes(ops)
  /\ UNCHANGED <<unresolved, scheduling_on, INTERNAL_MEMORY_FALLBACK_MODE, health, fumbles>>

(* Sequences 18 and 20: if the signal is still set after the repair ...        *)
ResolutionSequence18 ==
  /\ Calling("18")
  /\ LET t == Head(todo).task IN
     Becomes(<<Op("1_4", t, 0), Op("get_fdir_signal", t, 0)>>)
  /\ UNCHANGED <<unresolved, scheduling_on, INTERNAL_MEMORY_FALLBACK_MODE, accounts>>

GetSignal ==
  /\ Calling("get_fdir_signal")
  /\ LET t == Head(todo).task IN
     Becomes((IF t \notin Tasks THEN EnterSafe \o EnterSafe
              ELSE IF signal[t] = 1 THEN EnterSafe ELSE <<>>) \o Clear(t))
  /\ UNCHANGED <<unresolved, scheduling_on, INTERNAL_MEMORY_FALLBACK_MODE, accounts>>

(* The timeout is kept by COMS: how long it has become is its answer.         *)
ResolutionSequence29 ==
  /\ Calling("29")
  /\ \E ops \in {<<>>, EnterSafe} : Becomes(ops)
  /\ UNCHANGED <<unresolved, scheduling_on, INTERNAL_MEMORY_FALLBACK_MODE, accounts>>

ResolutionSequence31 ==
  /\ Calling("31")
  /\ Longer("obc_consec_trans")
  /\ Becomes(IF TooLong("obc_consec_trans") THEN EnterSafe
             ELSE <<Op("clearOne", "opr", 0)>>)
  /\ UNCHANGED <<unresolved, scheduling_on, INTERNAL_MEMORY_FALLBACK_MODE, health, fumbles>>

Resolve ==
  \/ ResolutionSequence1 \/ ResolutionSequence1_1 \/ ResolutionSequence1_2
  \/ ResolutionSequence1_3 \/ ResolutionSequence1_4 \/ TestChip \/ CompareChip
  \/ SpimemErrorDuringInit \/ ResolutionSequence4 \/ ResolutionSequence5
  \/ ResolutionSequence7 \/ ResolutionSequence11 \/ ResolutionSequence14
  \/ ResolutionSequence18 \/ ResolutionSequence29 \/ ResolutionSequence31

-----------------------------------------------------------------------------
(* What the sequences call.                                                   *)

(* The signals of the task and of those after it, then the default.           *)
ClearFdirSignal ==
  /\ Calling("clear_fdir_signal")
  /\ LET cleared == TasksFrom(Head(todo).task) IN
     signal' = [t \in Tasks |-> IF t \in cleared THEN 0 ELSE signal[t]]
  /\ Becomes(EnterSafe)
  /\ UNCHANGED <<senders, queues, glob, modes, accounts, count, lowSeen, lastExit>>

(* Tasks are deleted and created again, running; what they held stays taken.   *)
RestartTask ==
  /\ Calling("restart_task")
  /\ LET restarted == TasksFrom(Head(todo).task) IN
     /\ suspended' = suspended \ restarted
     /\ rep' = [t \in Reporters |-> IF t \in restarted THEN Idle ELSE rep[t]]
     /\ starting' = starting \cup (restarted \cap {"sched", "mem"})
  /\ Becomes(EnterSafe)
  /\ UNCHANGED <<high_error_array, low_error_array, mixed, queues, signal, glob,
                 SAFE_MODE, scheduling_on, INTERNAL_MEMORY_FALLBACK_MODE, accounts,
                 count, lowSeen, lastExit>>

unmoded == <<senders, queues, signal, glob, scheduling_on,
             INTERNAL_MEMORY_FALLBACK_MODE, accounts, count, lowSeen>>

(* Faulty variant: tasks are suspended only when SAFE_MODE is new.            *)
EnterUnlessIn ==
  /\ Calling("enter_SAFE_MODE")
  /\ SAFE_MODE' = 1
  /\ suspended' = IF SAFE_MODE = 1 THEN suspended ELSE Held
  /\ Becomes(<<Just("SAFE_MODE")>>)
  /\ UNCHANGED <<unmoded, lastExit>>

EnterSafeMode ==
  /\ Calling("enter_SAFE_MODE")
  /\ SAFE_MODE' = 1
  /\ suspended' = Held
  /\ Becomes(<<Just("SAFE_MODE")>>)
  /\ UNCHANGED <<unmoded, lastExit>>

(* while(SAFE_MODE): a command, then errors.  (The diagnostics and the time    *)
(* are in TimeKeeping.)                                                       *)
StayInSafeMode ==
  /\ Calling("SAFE_MODE")
  /\ SAFE_MODE = 1
  /\ Becomes(<<Just("exec_commands"), Just("check_high"), Just("check_low"),
               Just("SAFE_MODE")>>)
  /\ UNCHANGED <<unmoded, SAFE_MODE, suspended, lastExit>>

LeaveSafeMode ==
  /\ Calling("SAFE_MODE")
  /\ SAFE_MODE = 0
  /\ suspended' = {}
  /\ Becomes(<<>>)
  /\ UNCHANGED <<unmoded, SAFE_MODE, lastExit>>

-----------------------------------------------------------------------------
(* Commands to FDIR.  The cases have no breaks: a command goes on with all that *)
(* come after it.  Its argument is lost with the first case that reports to the *)
(* router, which builds the report in current_command; restart_task and         *)
(* delete_task then find no such task.                                        *)

Requests == {"ENTER_LOW_POWER_MODE", "EXIT_LOW_POWER_MODE", "ENTER_COMS_TAKEOVER_MODE",
             "EXIT_COMS_TAKEOVER_MODE", "PAUSE_SSM_OPERATIONS", "RESUME_SSM_OPERATIONS"}

Case(i, arg) == IF i > Len(CommandOrder) THEN <<>>
                ELSE << [Op("command", arg, 0) EXCEPT !.at = i] >>

Commanded(names) == Calling("command") /\ CommandOrder[Head(todo).at] \in names
NextCase(arg) == Case(Head(todo).at + 1, arg)

(* A command from obc_to_fdir_fifo, or none within 100 ms.                    *)
ExecCommands ==
  /\ Calling("exec_commands")
  /\ \/ Becomes(<<>>) /\ UNCHANGED count
     \/ /\ Counted("inputs", MaxInputs)
        /\ \E c \in Commands :
             Becomes(Case(CHOOSE i \in DOMAIN CommandOrder : CommandOrder[i] = c.name, c.arg))
  /\ UNCHANGED <<senders, queues, signal, glob, modes, accounts, lowSeen, lastExit>>

uncommanded == <<senders, queues, signal, glob, suspended, scheduling_on,
                 INTERNAL_MEMORY_FALLBACK_MODE, fumbles, timeouts, count, lowSeen>>

(* A CAN message to an SSM; if it cannot be sent, FDIR enters SAFE_MODE.       *)
Request ==
  /\ Commanded(Requests)
  /\ \E failed \in {<<>>, EnterSafe} : Becomes(failed \o NextCase(NoTask))
  /\ UNCHANGED <<uncommanded, SAFE_MODE, health, lastExit>>

EnterCommand ==
  /\ Commanded({"ENTER_SAFE_MODE", "RESET_SSM"})
  /\ Becomes(EnterSafe \o NextCase(NoTask))
  /\ UNCHANGED <<uncommanded, SAFE_MODE, health, lastExit>>

(* Faulty variant: this case ends with a break.                              *)
ExitWithBreak ==
  /\ Commanded({"EXIT_SAFE_MODE"})
  /\ SAFE_MODE' = 0
  /\ lastExit' = "command"
  /\ Becomes(<<>>)
  /\ UNCHANGED <<uncommanded, health>>

ExitCommand ==
  /\ Commanded({"EXIT_SAFE_MODE"})
  /\ SAFE_MODE' = 0
  /\ lastExit' = "command"
  /\ Becomes(NextCase(NoTask))
  /\ UNCHANGED <<uncommanded, health>>

(* REPROGRAM_SSM changes nothing that is modelled here; restart_task and then   *)
(* delete_task get the argument, if it is still there.                        *)
TaskCommand ==
  /\ Commanded({"REPROGRAM_SSM", "RESET_TASK", "DELETE_TASK"})
  /\ LET arg == Head(todo).task IN
     Becomes(IF Commanded({"REPROGRAM_SSM"}) THEN NextCase(arg)
             ELSE Restart(IF Commanded({"RESET_TASK"}) THEN arg ELSE NoTask)
                  \o NextCase(NoTask))
  /\ UNCHANGED <<uncommanded, SAFE_MODE, health, lastExit>>

(* A variable of the OBC: the health of a chip is set with those that follow it. *)
SetVariable ==
  /\ Commanded({"setVariable"})
  /\ IF Head(todo).task = "health"
     THEN \E c \in 1 .. 3, v \in {0, 1} :
            health' = [b \in 1 .. 3 |-> IF b >= c THEN v ELSE health[b]]
     ELSE UNCHANGED health
  /\ Becomes(NextCase(NoTask))
  /\ UNCHANGED <<uncommanded, SAFE_MODE, lastExit>>

GetVariable ==
  /\ Commanded({"getVariable"})
  /\ Becomes(<<>>)
  /\ UNCHANGED <<uncommanded, SAFE_MODE, health, lastExit>>

Command == Request \/ EnterCommand \/ ExitCommand \/ TaskCommand \/ SetVariable \/ GetVariable

-----------------------------------------------------------------------------
Fdir ==
  \/ MainLoop \/ CheckHigh \/ GiveHigh \/ CheckLow \/ DecodeError \/ Resolve
  \/ ClearOne \/ RecreateFifo \/ GetSignal \/ ClearFdirSignal \/ RestartTask
  \/ EnterSafeMode \/ StayInSafeMode \/ LeaveSafeMode \/ ExecCommands \/ Command

(* Sequence 1.3 may stop the OBC (configASSERT): nothing runs any more.        *)
Halted == Calling("halted")

Running ==
  \/ \E t \in Reporters : Report(t) \/ InCall(t)
  \/ \E t \in starting : StartTask(t)
  \/ SsmErrorAssert \/ ExitMessage
  \/ Fdir

Next == ~Halted /\ Running

Spec == Init /\ [][Next]_vars

(* FDIR has the highest priority and its waits are bounded; a task in a call is *)
(* delayed only by tasks above it, which wait for their queues.               *)
FairSpec ==
  /\ Spec
  /\ WF_vars(~Halted /\ Fdir)
  /\ \A t \in Reporters : WF_vars(~Halted /\ InCall(t))

-----------------------------------------------------------------------------
(* What calls and error arrays hold.                                         *)
Subjects == Tasks \cup {NoTask} \cup {r.task : r \in ReportSet} \cup {c.arg : c \in Commands}
Errors == [task : Subjects, code : Int, error : Int]

CallNames ==
  {Cases[i][3] : i \in DOMAIN Cases} \cup
  {"check_high", "check_low", "give_high", "exec_commands", "decode_error",
   "enter_SAFE_MODE", "SAFE_MODE", "clear_fdir_signal", "get_fdir_signal", "restart_task",
   "1_2", "1_3", "testChip", "compare", "pauseScheduling", "clearOne", "recreate_fifo",
   "halted"}
Calls ==
  [op : CallNames, task : Subjects, code : Int, at : Int]
    \cup [op : {"command"}, task : Subjects, code : {0}, at : DOMAIN CommandOrder]

Doing == [pc : {"idle", "fill", "take", "send", "give", "signal", "poll"},
          sev : {"high", "low"}, report : ReportSet \cup {NoReport},
          at : DOMAIN TaskOrder, polls : 0 .. AssertPolls]

(* Each variable stays in its range; the stack holds calls.                   *)
TypeOK ==
  /\ high_error_array \in Errors /\ low_error_array \in Errors
  /\ high_fifo \in Seq(Errors) /\ Len(high_fifo) <= FifoLength
  /\ low_fifo \in Seq(Errors) /\ Len(low_fifo) <= FifoLength
  /\ highsev \in Reporters \cup {"free", "fdir"} /\ lowsev \in Reporters \cup {"free", "fdir"}
  /\ signal \in [Tasks -> {0, 1}]
  /\ rep \in [Reporters -> Doing]
  /\ todo \in Seq(Calls)
  /\ glob \in [task : Subjects, code : Int]
  /\ starting \subseteq {"sched", "mem"}
  /\ SAFE_MODE \in {0, 1} /\ suspended \subseteq Held /\ scheduling_on \in {0, 1}
  /\ INTERNAL_MEMORY_FALLBACK_MODE \in {0, 1}
  /\ health \in [1 .. 3 -> {0, 1}]

(* While FDIR serves SAFE_MODE, all other tasks but the router are suspended,   *)
(* also those that a restart, or the end of an inner SAFE_MODE, had set going.  *)
SafeModeHoldsTasks == (Calling("SAFE_MODE") /\ SAFE_MODE = 1) => suspended = Held

(* However the calls were nested, FDIR is back in its loop only outside of      *)
(* SAFE_MODE and with no task left suspended.                                 *)
AllResumed == todo = <<>> => (suspended = {} /\ SAFE_MODE = 0)

(* SAFE_MODE is left for good by the message of an SSM only: EXIT_SAFE_MODE     *)
(* goes on with RESET_SSM and enters it again.                                *)
OnlyMessageLeaves == todo = <<>> => lastExit # "command"

(* Queues, mutexes and counters keep their ranges, and FDIR comes back to its *)
(* loop as it should.                                                         *)
FdirInv == TypeOK /\ AllResumed /\ OnlyMessageLeaves

(* As long as no two tasks are between the first write to an error array and    *)
(* its copy to the queue, FDIR gets the reports as they were made: task, code    *)
(* and error of one call.                                                    *)
QueuedAsGiven ==
  mixed = 0 => \A i \in DOMAIN high_fifo : high_fifo[i] \in Asserts \cup SsmAsserts

(* FDIR keeps the mutex of the low-severity queue from its first look on: it    *)
(* decodes at most one low-severity error in all its life.                     *)
LowReadOnce == lowSeen <= 1

(* A task was deleted while it held the mutex of the high-severity queue.      *)
Orphaned == highsev \in Reporters /\ rep[highsev].pc \notin {"send", "give"}

(* A high-severity error that was queued brings the OBC into SAFE_MODE, as all   *)
(* sequences end there, unless the mutex was orphaned or the OBC stopped.       *)
HighErrorsReachFdir == (high_fifo # <<>>) ~> (SAFE_MODE = 1 \/ Orphaned \/ Halted)

(* What the comments promise: an error that a task reports with errorREPORT gets *)
(* into the queue that check_error reads.                                     *)
LowErrorsGetQueued ==
  \A t \in Reporters :
    (rep[t].pc = "take" /\ rep[t].sev = "low") ~> (low_fifo # <<>>)
=============================================================================

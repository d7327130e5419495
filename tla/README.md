# CDH-OBC Phase II: a TLA+ model of the on-board computer

The repository holds the flight software of the on-board computer (OBC) of a
student satellite: FreeRTOS tasks on an ATSAM3X8E that talk over CAN to three
subsystem microcontrollers (SSMs): COMS, EPS and PAYLOAD. This directory models
its core logic in TLA+, model-checks it with TLC on small instances, and proves
some of the results with TLAPS for every value of the constants. Paths below are
relative to the repository; `can_func.c:1722` means `src/src/can_func.c`, line 1722.

## 1. The system

`main` (`main.c:198-239`) creates the queues, mutexes and four tasks:
`housekeep`, `obc_packet_router`, `coms` and `wdt_reset`. The calls that create
the other tasks are commented out at this commit; their code is part of the
repository and of the inventory, but nothing in the running image takes from
their queues.

| part | source | state | operations | talks to |
|---|---|---|---|---|
| telecommand (TC) reception | `obc_packet_router.c:260-301, 604-653, 732-815`, `can_func.c:316-322, 1720-1728` | `tc_msg_fifo`, `current_tc`, `tc_sequence_count`, `tc_buffer`, flags `receiving_tcf`, `current_tc_fullf` | CAN1 interrupt pushes words; the router reassembles, answers, stores, decodes | COMS (CAN), decoding |
| telemetry (TM) downlink | `obc_packet_router.c:298-340, 508-594, 669-723, 821-845`, `can_func.c` TM cases | `current_tm`, `tm_buffer`, `tm_to_downlink`, flags `tm_down_fullf`, `current_tm_fullf`, `start_tm_transferf`, `tm_transfer_completef` | packetize, store, pick, send with timeouts; the interrupt sets the two answer flags | COMS (CAN), every part that makes telemetry |
| TC verification and routing | `obc_packet_router.c:352-486, 857-1357`, `housekeep.c:255-308, 739-790` | FIFOs between tasks, `experiment_armed`, `experiment_started`, definition flags of housekeeping | `verify_telecommand`, `decode_telecommand_h`, `send_tc_verification`, `exec_commands` | reception, downlink, all tasks |
| requests to SSMs | `can_func.c:395-457, 1346-1710` | `Can0_Mutex`, a received flag and a two-word register per task | `request_sensor_data`, `set_variable`, `alert_can_data` in the interrupt | SSMs (CAN), callers in every task |
| housekeeping collection | `housekeep.c:189-228, 375-535, 739-749`, `can_func.c:467-533, 894-934` | `current_hk`, `hk_updated`, `can_hk_fifo` | a round per report: ask, collect, ask for what is missing, send | SSMs, routing |
| SPI memory driver | `spimem.c` | three flash chips, `spi_bit_map`, `spi_mem_buff`, `SPI_HEALTH1-3`, `Spi0_Mutex` | write, read, sector rewrite, initialise | scheduling, memory management, payload, time, FDIR |
| error channel | `error_handling.c` | error arrays, `Highsev_Mutex`, `Lowsev_Mutex`, per-task FDIR signals | `errorASSERT`, `errorREPORT`, task-to-task queues | every task, FDIR |
| FDIR | `fdir.c` | signals, fumble counts, SAFE_MODE | `check_error`, `decode_error`, resolution sequences, task restart | error channel, all tasks |
| scheduling | `scheduling.c` | list of commands in SPI memory, `num_commands`, `next_command_time` | add, shift, execute, report | SPI memory, routing |
| memory management | `memory_manage.c` | addresses of the wash, science offset | `memory_wash`, dump, load, science downlink | SPI memory, routing |
| time | `time_manage.c`, `rtc.c`, `time.c` | `ABSOLUTE_DAY`, `CURRENT_HOUR/MINUTE/SECOND` | minute tick, broadcast, report | SSMs, SPI memory |
| power | `eps.c` | modes, duty cycles, heater thresholds | MPPT, battery balance, heaters | requests to SSMs |
| payload | `payload.c` | experiment phase, valves, science buffer | control loop, science storage | requests, SPI memory, routing |
| SSM programming | `ssm_programming.c` | pins, page under way | reprogram an SSM | SPI |
| checksums | `checksum.c` | none | `fletcher16/32/64` | memory management |
| antenna deployment | `obc_packet_router.c:286-296, 1106-1112`, `can_func.c:377-380` | `antenna_deploy`, `time_of_deploy` | EPS asks in the interrupt; burn on, burn off after a timeout; order from ground | EPS (CAN), routing |
| watchdog, COMS task, boot, drivers, bench tasks | `wdt_reset.c`, `coms.c`, `main.c`, `usart_func.c`, `spi_func.c`, `camera.c`, ... | - | - | - |

Vendored code (`src/src/asf`, with FreeRTOS, and `src/src/Common-Demo-Source`)
is modelled only by what the application relies on: bounded queues whose send
fails when full, binary semaphores, tasks that are preempted between any two
statements, and interrupts that run to completion.

**What is hard here.** The CAN interrupt and the tasks share plain variables. The
transfer protocols with COMS have no session numbers, so an answer or a word of
one transfer may be taken for one of the next. All queues are short, and most
results of sends to them are ignored. Timeouts are counted polls, so answers may
come after the wait. Chips are written one after the other with one bitmap.
`PROJECT.json` lists the hazards line by line, with the properties that watch
each of them or the reason why none does.

**What makes each part correct.**
- *Reception*: a packet is put together from the words of one transfer, all of
  them; one that was answered as complete is not lost on board (the code loses it in one case,
  section 5); each command is carried out at most once, in order, and in the end.
- *Downlink*: telemetry stored on board leaves it whole, in order and at least
  once; what is retired was received.
- *Routing*: dangerous commands need their arming command; every command carried
  out is answered, once.
- *Requests*: a value is the answer to the request; the mutex comes back.
- *Housekeeping*: a report holds the values of its round; leftovers of a round do
  not pile up; no value goes back in time; every round ends.
- *SPI memory*: what is reported as written is there; rewriting a page harms no
  other; no page is programmed twice without an erase.
- *Error channel and FDIR*: what is reported gets to FDIR as it was reported; in
  SAFE_MODE the other tasks are held, after it they all run; the mutexes come back.
- *Time*: it advances, no day is lost or repeated. *Scheduling*: only what ground
  scheduled is executed, when it is due. *Power*: batteries are balanced again and
  again. *Antenna*: the wire is heated long enough, and not for ever.
- *Memory wash*: a byte that differs on one chip is corrected to the majority.
  *Payload*: valves open only in a started experiment. (Not modelled, section 6.)

## 2. Modules

| module | models | abstract specification | proofs |
|---|---|---|---|
| `TcUplink` | reception: COMS, CAN1 interrupt, router | `TcService` | `TcUplinkProofs` |
| `TmDownlink` | downlink: router, CAN1 interrupt, COMS | `TmService` | `TmDownlinkProofs` |
| `TcRouting` | inspection, routing, housekeeping's commands, reports | | `RouterProofs` |
| `SensorRequest` | request_sensor_data, set_variable | | `SensorRequestProofs` |
| `Housekeeping` | a task's rounds and the interrupt that fills current_hk | | `HousekeepingProofs` |
| `SpiMem` | spimem_write on several chips, resets, health | `PageStore` | `SpiMemProofs` |
| `FaultRecovery` | errorASSERT, errorREPORT, the FDIR task with all it calls | | `FaultRecoveryProofs` |
| `TimeKeeping` | RTC, time task, FDIR's time_update, time set by ground | | |
| `Scheduling` | the scheduler, on top of `TimeKeeping` | | |
| `BatteryBalance` | the EPS task, on top of `Scheduling` | | `BatteryBalanceProofs` |
| `AntennaDeploy` | deployment: CAN1 interrupt, router, ground | | `RouterProofs` |
| `MC*` | instances for TLC | | |

They meet at queues: `TcUplink` ends where a packet is taken out of `tc_buffer`,
which is where `TcRouting` begins; what `TcRouting` hands to
`packetize_send_telemetry` is what `TmDownlink` starts from;
`Housekeeping!SendHkAsTm` is `TcRouting!SendHkAsTm`. The value of an SSM request
that `Housekeeping!RequestMissing` uses is what `SensorRequest` delivers to the
sender id of housekeeping. `TimeKeeping`, `Scheduling` and `BatteryBalance` extend
each other: they share `CURRENT_TIME`, SAFE_MODE, the restarts of
`FaultRecovery!RestartTask` and the command that sets a variable, whose cases fall
through from the time to the interval of the EPS task.

**Common conventions.** A variable with the name of one in the code models it; a
variable marked *observer* is history that no action's guard reads; counters
called `Max...` in the constants are bounds. An action is a stretch of code
without a point where another actor could make a difference; where an interrupt
can come between two statements that it touches, they are two actions. Payloads
are abstracted to what they can be confused with: a word to its transfer and
number, a packet to its request, an answer to the request it answers, a written
byte to the number of the write. A definition whose comment says "Faulty
variant" is not part of any specification; substituting it for the definition
after it makes one of the properties fail, which is how each property was shown
to depend on the code.

### TcUplink
The interrupt's two cases are `StartTcPacket` and `SendTcFromISR`; they are taken
inside the actions of COMS, since sending a message and its interrupt are one step
for the router. `ReceiveLow`, `ReceiveHigh`, `ReceiveTimeout` are the two
one-tick receives at the top of the task's loop; a data word without its header
word is kept in `low_received`. `ReceiveTcMsg` compares the chunk number,
`ResetReception` is the code after a rejected chunk (a chunk that is too far ahead is
rejected before `current_tc_fullf` is looked at, and clears `current_tc`), `StoreCurrentTc` queues the
packet or leaves it in `current_tc` with `current_tc_fullf` set, `ServiceSkipped`
and `DecodeTelecommand` are the bottom of the loop. COMS is external: it asks
(`ComsBegin`, `ComsAskAgain`), sends chunks in order once told to, and may give up
in the states of `AbortStates`.

Assumed of what is not modelled: `Can0_Mutex` may be busy when the interrupt
answers, so OK_START may not go out; the packet error control that
`verify_telecommand` computes catches packets that are not from one transfer
(`Intact`).

### TmDownlink
`PacketizeSendTelemetry` fills `current_tm` and stores it (`StoreCurrentTm`), or is
refused while the previous packet is held there. `PickPacket` takes from
`tm_buffer` to `tm_to_downlink`; `BeginTransfer`, `AskAgain`, `AskTimeout` are the
loop that sends TM_PACKET_READY; `StartSending`, `SendChunk` the transfer;
`WaitForResponse`, `WaitTimeout`, `CheckResponse` the wait for the answer;
`Settle` the 3000-tick sleep after which the router looks again. `Deliver` is the
interrupt writing `start_tm_transferf` or `tm_transfer_completef`. The branch of
packetize for several packets (`obc_packet_router.c:567-594`) is not reached: every
caller passes at most one packet's data. All of it happens in a turn of the loop that finds
`receiving_tcf` cleared (`ServeTurn`, `obc_packet_router.c:298`), and `exec_commands` ends the turn
(`ExecDone`). What makes the interrupt set the flag and a message clear it is in `TcUplink`; here
`StartTcPacket` may set it at any moment, `ReceiveTcMsg` leaves it either way, and neither is fair.

### TcRouting
`Checks` is the list of tests of `verify_telecommand` in order, each with the
report it sends; the verdict is computed and, as in the code
(`obc_packet_router.c:900-907`), not used. `HkTelecommand` ... `Schedule` are the
branches of `decode_telecommand_h`; queues that no task reads only fill.
`ExecCommands` takes one entry of `hk_to_obc_fifo`. `HkExecCommands` is the
fall-through switch of housekeeping (`ExecCommandsH2` carries out the case of the
subtype and all after it). Decoding and `ExecCommands` wait for `receiving_tcf` to be cleared, which is
as arbitrary here as in `TmDownlink`.

### SensorRequest
One caller at a time is inside `Can0_Mutex`; `pc` follows
`request_sensor_data_h`: send, poll the flag (`SeeFlag`, `Timeout`), compare the
name, take the value, clear the flag last (`ReturnValue`). `AlertCanData` is the
interrupt. The polling loop is not counted: `Timeout` may come at any poll, as
long as an answer to the call is lost or `MaxLates` allows it to be late. A call of housekeeping polls
its own flag, and then reads the register of scheduling and clears scheduling's flag (`ValueRegister`,
`can_func.c:1507-1519`). What is claimed of the other senders would be false for it, so the properties say
`ExceptHk`; what holds for housekeeping is `HkReadsSched`, and that it does not harm the others is part of
what `InStep` and `LagBounded` show.

### Housekeeping
`StoreCanMsg` is the interrupt: it writes the value into `current_hk` and queues the
message; `Collect` counts messages and marks the parameter as updated;
`CollectTimeout` ends the wait; `CheckUpdated`/`RequestMissing`/`StoreLow`/
`StoreHigh` ask again for what was not marked; `CopyLow`/`CopyHigh` copy the
report byte by byte. What the second request returns is arbitrary among a failure
and a foreign register (see Divergences). Assumed of the definition: no two SSMs
send the same parameter, an SSM sends each once, and `can_hk_fifo` (50 in the code)
holds the messages of a round (28); without this an undisturbed report need not be
of its round.

### SpiMem
`Call` is the entry of `spimem_write`, `NextChip`/`SkipChip` its walk over the
chips, the other actions the steps of `spimem_write_h`. A flash cell is the set of
writes programmed into it since it was erased (programming can only clear bits).
`SpimemInitialize` is a reset followed by `spimem_initialize`. The
call in `main.c:303` is commented out together with the tasks that write; the
driver is modelled as it runs with it. `SetObcVariable` sets the health of one
chip and, since the cases fall through, of those after it;
`ResolutionSequence14` is FDIR giving a chip up.
`FirstWriteStored` promises that a write is found on some chip, and alone there only
if the bitmap has accounted for the chip since it was last erased: initialisation
erases one chip and clears the bitmap of all, so that when another chip is the only
healthy one after a reset, the next write is programmed over its old data.

### FaultRecovery
FDIR is one task whose functions call each other and return to where they were;
`enter_SAFE_MODE` calls `check_error` and `exec_commands`, which call it again.
`todo` is its stack of pending calls: each action takes the call on top
and puts the calls it makes in its place. `Call`, `Fill`, `AssertTake`, `AssertSend`,
`AssertGive`, `SetSignal`, `Poll` are the statements of `errorASSERT` for one reporter,
`ReportTake`, `ReportSend`, `ReportGive` those of `errorREPORT` that differ.
`DecodeError` runs through the cases of its switch, none of which has a break;
`Cases` lists them. `ResolutionSequence1` ... `31` are the functions of that name,
`CommandOrder` the cases of `exec_commands` in theirs. `RestartTask` deletes and
creates a task and all later ones wherever they are. A sensor value, a comparison
with a chip and the answer of COMS are choices. The configuration is the one with all tasks created.
Sequence 1.3 may halt the OBC (`Halted`): `eTaskGetState` of a null handle.

### TimeKeeping, Scheduling, BatteryBalance
The time task is a chain of steps (`PollAlarm` ... `ResetAlarm`), one for each access
to the clock or to a variable that FDIR may write in between. FDIR has the highest priority and runs in one step, except where it waits:
`EnterSafeMode` sets SAFE_MODE, then the reports of `enter_SAFE_MODE` wait a tick each for a FIFO nobody empties
(`fdir.c:1799`), and only `SuspendTasks` suspends the tasks (1826-1833). In between any task runs that has not been
suspended yet, or that `RestartTask` has just created again: restarts happen within SAFE_MODE, too. `LeaveSafeMode` ends the loop. The clock ticks early, in the middle of an update, while the
bound `MaxEvents` allows it. The scheduler keeps a number of
commands and the time of the next one; its list is never stored, as
`task_spimem_write` returns -1 without writing (`spimem.c:930-993`), and what is read back
is what the buffer held. The EPS task compares minutes as the C types do: unsigned.

### AntennaDeploy
Time is the age of the last request. A turn of the router's loop takes up to
`MaxPass` ticks and passes through `TestFlag`, `SendDeploy`, the two reads of the
comparison in either order (C does not fix it), `SendOff` and `ClearFlag`; `Alert` may
come between any two. Whether a CAN command gets out is a choice, because
`send_can_command` gives up when `Can0_Mutex` is taken for more than a tick.

## 3. Runs

All runs use the configuration `PROJECT.json` gives. Times are with two workers.
Each module's type invariant is a part of its `...Inv`.

| run | instance | shows |
|---|---|---|
| `tc_uplink` | 3 chunks, FIFO of 12 words, buffer of 2, 4 transfers, COMS gives up anywhere, fair; 435,457 states | `UplinkInv`: types, and no packet is queued or decoded with an unwritten chunk after the first, even when words are dropped; `NeverMixed`: without drops no packet mixes two transfers; `AckedAccountedFor`: what was answered with 37 is, in order and with its content, decoded, queued or whole in `current_tc`, or was wiped there (without drops, only after COMS began another transfer); `BlockedForGood`: after a full `tc_buffer`, reception is over; `DecodedOnceInOrder`: refinement of `TcService`, commands are decoded in the order of their transfers, once each unless a word was dropped; `BufferedEventuallyDecoded`: every queued packet is decoded, unless the router is starved |
| `tc_blocked` (violated) | buffer of 1, 3 transfers, COMS never gives up, fair | `AlwaysDecoded` fails: a refused start stops the router for ever |
| `tm_downlink` | 3 chunks, buffer of 2, 4 packets, 4 faults, 3 answers in the air, `receiving_tcf` set and cleared at any time, fair; 424,344 states | `DownlinkInv` (what is retired was received), `NothingLostOnBoard`, `HeldForGood`, `DeliveredAtLeastOnce` (refines `TmService`), `StoredEventuallySent` (unless `receiving_tcf` stays set for ever) |
| `tc_routing` | 17 kinds of telecommands, FIFOs of 2, 3 telecommands, 1 housekeeping report, `receiving_tcf` set and cleared at any time, fair; 374,628 states | `RoutingInv` (the experiment starts armed), `OneReportPerCommand`, `HkReportHandedOver`: a queued command is carried out and its report given to `packetize_send_telemetry`, or lost to a full FIFO, unless `receiving_tcf` stays set for ever |
| `sensor_request` | scheduling and housekeeping, 2 calls each, 1 loss, 1 late answer, fair; 1,425,893 states, 3 minutes | for all but housekeeping: each answer is used once, in order (`RequestInv`), `LagBounded`, `InStep` (without late answers each value is one's own and a confirmed set is set); for housekeeping: it gets scheduling's answers and never an older one than before (`RequestInv`); `MutexGivenBack` |
| `housekeeping` | 3 parameters, one of the OBC, two SSMs, FIFO of 2, 3 rounds, 1 loss, 2 early timeouts, fair; 664,429 states | `HousekeepingInv` (an undisturbed report is of its round), `BacklogShrinks`, `NeverOlder`, `RoundsEnd` |
| `spimem` | 2 chips, 2 sectors of 2 pages of 2 cells, 2 tasks, 2 writes, 1 fault, 1 reset, 1 health command; 373,287 states up to symmetry of tasks | `SpiMemInv` (a clean page is blank), `NeverAnded`, `FirstWriteStored`, `WrittenOnce` (refines `PageStore`) |
| `spimem_lost` (violated) | 1 task, 2 writes, no faults | `SuccessMeansWritten` fails |
| `fdir` | 2 reporting tasks, 11 reports and 3 commands that reach every sequence, 2 inputs, 3 exits, fair; 1,014,036 states, 3 minutes | `FdirInv`: FDIR is back in its loop only with all tasks resumed, and not because of EXIT_SAFE_MODE; `SafeModeHoldsTasks`; `QueuedAsGiven`; `LowReadOnce`; `HighErrorsReachFdir` |
| `fdir_low` (violated) | 1 task, 1 low-severity report, fair | `LowErrorsGetQueued` fails: FDIR keeps the mutex |
| `timed` | hours of 2 minutes, days of 3 hours, bytes modulo 3, words modulo 7, 1 event (early minute, entry of SAFE_MODE, variable set by ground) and a restart within SAFE_MODE, fair; 1,705,714 states, 3 minutes | `TimedInv`: no day is lost or counted twice but for the races it names; `AlwaysDue`: the scheduler always has a command due; `FrozenInSafeMode`: once FDIR has served an alarm, time stands still until the mode is left, the time task is restarted or ground sets the time; `BalancesWhileShort`, unless SAFE_MODE comes again and again or stays; `LongIntervalEndsIt` |
| `antenna` | timeout of 12 ticks, turns of up to 4, fair; 8,000 states, and complete: nothing is bounded but the turn | `AntennaInv`: a watched burn ends in time; `UnattendedBurn`; `NotCutShort`; `DeploymentEnds` |

**Why the bounds are enough.** Three chunks give a first, a middle and a last one,
which is all that `receive_tc_msg` and the downlink distinguish. Buffers of two
can be empty, partly filled and full. The FIFO of 12 words is smaller than what
COMS can send, so that words are dropped, between the two words of a chunk too. Four transfers
allow an abandoned one, a repeated one, one that fills the buffer and one
refused after that. Two requests of scheduling with a lost and a late answer let a value lag
behind by as much as the late answers allow, and two of housekeeping, before, between or after, meet the same register twice: its
own flag, which nothing clears, is set from its first answer on. Two sectors of two pages with writes of up to two cells
have writes within a page, over a page and over a sector boundary and at the end
of the memory; the code's page 0 is a special case (below) and is page 0 in the
instance. In `fdir` an input may begin any sequence while another is under way, and three
exits unwind the nested SAFE_MODEs of most of them; limits of 1 and 2 are reached within a run. `AssertPolls` is 18, the
smallest number that shows the same as the code's: it is even, and `errorASSERT` uses at most two polls with each of nine tasks. In `timed`
hours, days and bytes wrap several times; one event is enough
for each race that `DayKept` names, and one more for a restart lets the time task be restarted in SAFE_MODE and run
before it is suspended; two do not finish in the time. The interval of 0 is the only short one with hours of two minutes. In `antenna` three turns fit into the timeout, so
that a request may come in any phase of any turn. `CHECK_DEADLOCK FALSE` stands only where the bounds let the system stop.

**Fairness.** `FairSpec` of `TcUplink`: the router task never ends and never waits
without a timeout, so it takes a step when it can; COMS finishes what it
begins; `Can0_Mutex` is not taken for ever, so that an OK_START repeated often
enough goes out. `TmDownlink`: the router, and COMS answers within the 3000-tick sleep; the number of faults is
finite. Nothing is assumed of what clears `receiving_tcf`: `tc_blocked` shows that it may stay set. `SensorRequest`: the poll counts down, and a message that is not lost
arrives. `Housekeeping`: the task never ends, unlost messages arrive.
`TcRouting`: both tasks run for ever and neither waits for the other, the router serves whenever it finds `receiving_tcf` cleared.
`FaultRecovery`: FDIR, of the highest priority with bounded waits, and a task in a
call, unless suspended. `BatteryBalance`: the clock, the time task and the EPS task, which
share a priority; nothing of FDIR, which may stay in SAFE_MODE. `AntennaDeploy`: time and the router. No
fairness is assumed of the ground, of COMS starting a transfer, of SSM messages or of losses.

## 4. Theorems

Each is proved for every value of the constants that the module's named assumption allows.

`TcUplinkProofs` (`ConstantsOK`: packets of at least two chunks, queues of any length):

| theorem | states |
|---|---|
| `TypeCorrect`, `HolesNever`, `UplinkInvariant` | `Spec => []TypeOK`, `[]NoHoles`, `[]UplinkInv` |
| `AckedAccounted` | `Spec => []AckedAccountedFor` |
| `FullBufferBlocks` | `Spec => BlockedForGood` (an action property) |
| `TransfersNeverMixed` | `Spec => []NeverMixed` |
| `ReceptionImplementsService` | `Spec => DecodedOnceInOrder` (the refinement of `TcService`) |

None of the invariants is inductive. `TypeInv` adds that the header register holds a
word when it is looked at. `HolesInv` ties the sequence count to the chunks
already written, and the packets in the queue and in history to what
`StoreCurrentTc` and `DecodeTelecommand` could have taken. `AckInv` says that the
packets answered as complete are those decoded, queued and held, in order, that a packet about to be stored is whole and marked by
`current_tc_fullf`, and that the held one is whole or blank. `TransferInv` is the
strongest: as long as no word was dropped, the words already taken, those in the
registers and those in `tc_msg_fifo` form one chain (`ChainInv`), a data word
before its header word, chunks in order within a transfer, transfers in
order, which the next word of COMS continues; the registers are links of the chain
(`RegisterInv`) and `current_tc` holds a prefix of the transfer the next word
belongs to (`AssemblyInv`). One lemma per action shows that it is kept.
The refinement needs the order of the words even when some are dropped: `OrderedInv`
says that words leave `tc_msg_fifo` in the order of the transfers, none older than the last data word
taken, and that a packet stands for the transfer of that word or an earlier one;
`OnceInv` that without drops a transfer that closed a packet has no chunk left to be stored.
A packet that is stored is an `Accept` of `TcService`, a packet taken from `tc_buffer` its `Decode`.

`FaultRecoveryProofs` (`ConstantsOK`: any reporting tasks, reports, queue lengths and limits):

| theorem | states |
|---|---|
| `LowIsReadOnce` | `Spec => []LowReadOnce` |
| `ReportsQueuedAsGiven` | `Spec => []QueuedAsGiven` |
| `SafeModeHolds` | `Spec => []SafeModeHoldsTasks` |
| `FdirInvariant` | `Spec => []FdirInv` |

The invariant says who holds the low mutex (`LowHeld`: a reporter between taking and
giving it, so that no give of another sets it free; `LowRead`: FDIR has looked into
the queue at most once, and once it has it never lets go) and what is in the array
of the high channel (`UsedAlone`: as long as `mixed` is 0 it has one user;
`ArrayFilled`: it holds what that user passed, the error first). All of FDIR's actions but three leave the
reporters' state alone (`FdirQuiet`).

SAFE_MODE may be entered from within itself to any depth, so its invariant `FdirInd` is about
the calls that are pending, wherever they are on the stack. `HeldOrEntering`: with the mode on, the tasks are held,
or the call on top is the one that holds them. `Unwinding`: whoever is suspended, and the mode, has a pending
SAFE_MODE that will end it. `Leaving`: after EXIT_SAFE_MODE the mode is on again, or the cases up to
RESET_SSM, which enters it, are still pending. Lemmas say what each action puts on the stack (`QuietCall` to
`Carries`). The types need one more fact about `errorASSERT` (`Waits`): a call that has come to the n-th task of
its switch has used at most two polls with each one before.

`BatteryBalanceProofs` (`TimeAssumption`, `SchedulingAssumption`, `BalanceAssumption`: any lengths of hours, days,
bytes and words):

| theorem | states |
|---|---|
| `TimeStandsStill` | `SpecAll => FrozenInSafeMode` (an action property) |
| `CommandsAlwaysDue` | `SpecAll => []AlwaysDue` |
| `DaysAreKept` | `SpecAll => []TimedInv` (the types, and `DayKept`) |

The first rests on `Updated`: after FDIR's update the time is what the struct of the
suspended time task holds, so that another update changes nothing, as long as that task stays suspended. The second on
`SchedInv`: the time of the next command is a byte, because it is read back from one
byte or lowered, and the first minute recorded is `Packed(0, 0, 1)`, larger than any byte.
The third on `DayInv`, for the histories that `DayKept` does not except: the clock is in the hour the time task read
last, or in the first minutes of the next (`InTheHour`); the hour that is assigned is the one in the struct, outside
of an update (`HourAssigned`); and `ABSOLUTE_DAY` is the day of that reading as soon as the update has counted it, the day before
until then (`DayCounted`). `DayKept`, which compares with the clock itself, follows, as at most one midnight lies between.

`RouterProofs`, the antenna (`DeployAssumption`: any timeout and length of a turn):

| theorem | states |
|---|---|
| `AntennaTypeCorrect`, `BurnIsBounded`, `AntennaInvariant` | `AntennaSpec => []AntennaTypeOK`, `[]BurnBounded`, `[]AntennaInv` |
| `UnattendedBurnHasCause` | `AntennaSpec => []UnattendedBurn` |
| `NeverCutShort` | `AntennaSpec => NotCutShort` (an action property) |

The invariant adds what the router knows between the test of the flag and its
clearing: the age of the request against the length of the turn (`Deadline`), of the two
values it has read (`TicksRead`, `TimeRead`), and that it goes to switch off only when it is
late or a request raced it (`DecidedLate`).

`RouterProofs`, the routing (`ConstantsOK` of `TcRouting`: any set of telecommands, any length of the FIFOs):

| theorem | states |
|---|---|
| `RoutingInvariant` | `Spec => []RoutingInv` (the types, and `StartedOnlyWhenArmed`) |
| `OneReportEach` | `Spec => []OneReportPerCommand` |

`StartedOnlyWhenArmed` needs that the flag remembers a command (`ArmedBefore`). The count of reports needs three
facts of other places: only subtypes that the switch of housekeeping knows are queued for it (`Queued`), so that it
always runs into REPORT_HK_DEFINITIONS (`SwitchReports`); a report is due only between a command and the report after it
(`NothingDue`), so that no command finds one due and shares it; and nothing that the router itself makes for ground is
a report (`CheckKind`, `VerificationKind`). `ConcatCount`, `AppendCount` and `TailCount` count the reports of a
queue, `SendOne` says what a full one loses. `Branches` brings the ten branches of the router into one form.

`TmDownlinkProofs` (`ConstantsOK`: any number of chunks, buffer length, packets, faults and answers in the air):

| theorem | states |
|---|---|
| `DownlinkInvariant` | `Spec => []DownlinkInv` |
| `NothingIsLost`, `NeverPatched` | `Spec => []NothingLostOnBoard`, `[]WholeReceived` |
| `HeldStaysHeld` | `Spec => HeldForGood` (an action property) |
| `DownlinkImplementsService` | `Spec => DeliveredAtLeastOnce` (the refinement of `TmService`) |

What makes it work is a statement about answers. An answer may be late, so that the flag
it sets is read in a later transfer. `LinkInv` says why it does no harm:
`QuietBetween`, between two packets all answers have come in, thanks to the sleep of 3000 ticks; `OkIsOfHand`, an OK
that is still to be read is about the packet in hand; `StaleKeptSilent`, the first chunk is sent
only after COMS has let go of what it kept of another packet. `BoardInv` numbers the packets in
`tm_buffer`, in hand and held in the order they were made.

`SensorRequestProofs` (`ConstantsOK`: any senders, sensors and values, any number of calls, losses and late answers):

| theorem | states |
|---|---|
| `RequestInvariant` | `Spec => []RequestInv` |
| `LagIsBounded` | `Spec => []LagBounded` |
| `CallersInStep` | `Spec => []InStep` |

`OrderInv` orders the life of a request: in the queue to the SSM, answered in the queue to the OBC, in the
register of its sender, used; each stage holds younger requests than the next. `UseInv` concludes that an
answer is used once. `LagInv`: no answer that may still be used lags behind its call by more
than the calls that gave up too early. `OwnInv`: the request of the call under way is the last message to
the SSMs, so that nothing can change the variable any more, and an answer with the number of the call is
about its sensor and true. `HkInv`: what housekeeping has read is no younger than what is in the register of
scheduling (`HkKept`), which only ever gets younger.

`HousekeepingProofs` (`ConstantsOK`: any definition and assignment of its parameters to SSMs, any `can_hk_fifo` that holds a round):

| theorem | states |
|---|---|
| `HousekeepingInvariant` | `Spec => []HousekeepingInv` |
| `LeftoversShrink` | `Spec => []BacklogShrinks` |
| `NoOlderValue` | `Spec => NeverOlder` (an action property) |

`AgeInv`: messages come in the order of their rounds and nothing stored is younger than what is to come. `CountInv`
follows the backlog through a round: the SSMs asked so far added at most as many messages as they have
parameters (`BeforeNext`, a lemma about cardinalities), at most N - 1 in all, and the wait takes N unless it ends first; so each round
takes away one more than it adds. `FreshInv`: in an undisturbed run a parameter that was asked for is
under way, or stored and counted, or stored and marked. That a mark may be reset after
its message has come is made good by the message still being in `can_hk_fifo`, which needs the bound on the backlog.
`CopiedInv` follows the copy.

`SpiMemProofs` (`ConstantsOK`: any number of chips, sectors, pages to a sector (at least two), cells to a page, tasks, writes, faults and resets):

| theorem | states |
|---|---|
| `SpiMemInvariant` | `Spec => []SpiMemInv` |
| `NoWriteOverAnother` | `Spec => []NeverAnded` |
| `FirstWriteKept` | `Spec => []FirstWriteStored` |
| `IsPageStore` | `Spec => WrittenOnce` (the refinement of `PageStore`) |

The invariant is about contents, not cells: `Content` is what a chip will hold once a rewrite of a sector that is under way has
ended, so that an erase does not change it. `ContentInv`: on a chip the bitmap accounts for, clean pages are
blank and no cell has two writes. `MarksInv`: a page is dirty because a write was meant for it.
`KeptInv`: a write alone on a dirty page is whole on a chip. `CallsInv` and `StepInv` tie the
step of the driver to the bitmap (it programs clean pages, rewrites dirty ones) and to the buffer.
The arithmetic of chips, sectors, pages and cells, with the quotients and remainders of
variables that the provers do not know, is proved first (`DivMod` to `Parts`). Proving it for any
number of commands of ground showed that the earlier form of `FirstWriteStored`, that a write is alone on a chip,
held only within the bounds of its run: it fails with three commands.

Only model-checked are the liveness properties (`BufferedEventuallyDecoded`, `StoredEventuallySent`,
`HkReportHandedOver`, `MutexGivenBack`, `RoundsEnd`, `HighErrorsReachFdir`, `BalancesWhileShort`,
`LongIntervalEndsIt`, `DeploymentEnds`): fairness and ENABLED are out of the prover's reach.
Every other property of a passing run is a theorem.

## 5. Divergences between code and documentation

Shown by a run, with the counterexample:
1. `tc_blocked`: a refused TC_PACKET_READY sets `receiving_tcf` (`can_func.c:1726`)
   and the router serves nothing any more.
2. `spimem_lost`: "the number of consecutive bytes which were successfully
   written", but the second write to any page other than page 0 is dropped
   (`spimem.c:569-574`).
3. `fdir_low`: `check_error` takes `Lowsev_Mutex` and gives `Highsev_Mutex`
   (`fdir.c:361`): low-severity errors never reach FDIR.

Met while modelling, visible in the modules. Reception and requests:
- A packet that was answered as received and found `tc_buffer` full stays in `current_tc`, but a chunk that is too far ahead,
  of a transfer begun just before, clears it there: 610 is tested before `current_tc_fullf` (615, 618; `Wiped`).
- "attempts to reconstruct the entire telecommand packet"
  (`obc_packet_router.c:190-191`), but with the count at 0 chunk 1 is accepted as a start (626):
  a packet without its first chunk can be completed. `NoHoles` is about the other chunks.
- A dropped word leaves the pairs of data and header words out of step (260-274), for good: the data word of one chunk
  goes with the header of another, and the end of one transfer may complete two packets. This came out of the proof of the
  refinement, whose first form promised each command once; `TcService!NotBefore` makes the exception.
- "otherwise returns sensor value requested", but late answers are
  returned for later requests, of other sensors (`can_func.c:1376`); `LagBounded` says how late.
- `xQueueSendToBackTask` has a switch without breaks that ends in `return pdFAIL`
  (`error_handling.c:208-233`): execution verifications of housekeeping
  (`housekeep.c:286`) never reach the router (`TcRouting!SendToBackTask`).
- The verdict of `verify_telecommand` is not used (`obc_packet_router.c:900-907`).
- A report can carry one byte of an old and one of a new value: `send_hk_as_tm`
  copies byte by byte (`housekeep.c:745`), `store_housekeeping` stores in two
  statements (453-454), and the interrupt writes in between.
- The housekeeping branch of `request_sensor_data_h` returns
  `sched_data_receive[0]` (`can_func.c:1518`; `HkReadsSched`) and clears scheduling's flag, and the status is written through
  a null pointer (1542): `Housekeeping!RequestMissing` is arbitrary.
- `clear_current_hk` is commented out (`housekeep.c:409`): values of earlier rounds
  stand in for missing ones. The loop at 403 clears `PACKET_LENGTH` (152) flags
  of an array of 137.
- `request_housekeeping_all` answers -1 on failure and is tested as a truth value
  (`housekeep.c:217`); the failure cannot happen, as `send_can_command_h` never fails.
- ADD_SCHEDULE is queued twice (`obc_packet_router.c:1117`); a success report
  with status 0 makes no packet (1060, 1347); a packet of service 70 is refused and
  queued all the same (1120-1128, 1167); NEW_HK_DEFINITION falls through to the
  default definition (`housekeep.c:274-305`).
- Once `current_tm` is held because `tm_buffer` was full, it is
  never stored again and every later request is refused (839; `HeldForGood`).
- One bitmap stands for all chips: with two chips healthy, the first marks the page
  and the second gets an erase and its old data (`spimem.c:239-246, 890`), so
  the chips do not hold the same data.

Error channel and FDIR:
- `errorASSERT` waits with `while (signal & timeout--)`: the lowest bit of the timeout ends the
  wait after two polls at most, the cases fall through all tasks, and the answer is always -1 (`error_handling.c:94-154`).
- `decode_error` has no breaks: an error runs all sequences after its own, each
  with the SAFE_MODE it ends in (`fdir.c:383-500`). The error of an SSM is taken from the byte
  that holds the minute (`can_func.c:335-343`).
- EXIT_SAFE_MODE clears the flag and falls through to RESET_SSM, which sets it again
  (`fdir.c:1223`; `OnlyMessageLeaves`): only the CAN message leaves SAFE_MODE.
- `restart_task` restarts all tasks after the one it is given, in the middle of whatever they do; a
  mutex they hold stays taken (`Orphaned`). Sequence 4 pauses scheduling after
  the restart; when the new task starts it switches scheduling on again (`scheduling.c:170`).

Time, scheduling, power:
- FDIR's `time_update` reads the clock into its own static `time` (`fdir.c:280`), and
  `update_absolute_time` uses the one of `time_manage.c`: time stands still in
  SAFE_MODE (`FrozenInSafeMode`), but for the ticks in which a time task restarted there runs before it is suspended, and with it whatever waits for a minute there.
- `task_spimem_read` and `task_spimem_write` return -1 before they do anything
  (`spimem.c:930-993`): the schedule is neither stored nor executed. The scheduler executes
  empty commands for ever (`AlwaysDue`) and `num_commands` wraps at 0 (`scheduling.c:472`).
- ADD_SCHEDULE falls through to CLEAR_SCHEDULE and PAUSE_SCHEDULE to RESUME_SCHEDULE (`scheduling.c:200-233`).
- `set_obc_variable` has no breaks: setting the day sets hour, minute and, among others, the health
  of the chips and the balancing interval; a day of 23 is an hour of 23, and the next update
  makes it 24. An interval of 59 or more ends balancing (`LongIntervalEndsIt`).
- EPS_HEAT_INTV sets `eps_heater_interval`, the loop reads `eps_heater_control_interval`
  (`obc_packet_router.c:1441`, `eps.c:192`). `battery_heater` writes through a null pointer (`eps.c:507-508`).

Antenna:
- DEPLOY_ANTENNA from ground sets no flag: the router never switches that burn off
  (`obc_packet_router.c:1106-1112`), and "Let ground know the command was executed" (1109)
  ignores the result and makes no packet for status 0.
- DEP_ANT_OFF is sent once; if `Can0_Mutex` is busy for a tick it is lost (291; `UnattendedBurn`).

## 6. Not modelled, and what is left

By decision: vendored code, register-level drivers, bench tasks, boot
(its results are the `Init` of each module), the watchdog loop, and formatting of
reports. In `can_func.c`, `read_from_SSM` and `write_to_SSM` (1185-1330) and
`set_sensor_high/low` have no callers.

Because the code gives nothing to follow:
- *Memory management.* `memory_wash` returns at once, always: it tests
  `INTERNAL_MEMORY_FALLBACK`, a macro of value 6 (`global_var.h:138`), not the variable
  `INTERNAL_MEMORY_FALLBACK_MODE` (`memory_manage.c:184`). Its commands fall through from
  LOAD to DUMP to CHECK; the router has the code for their reports commented out
  (`obc_packet_router.c:388-416`); a dump of up to 128 bytes sends nothing, a longer one
  repeats one address; the science downlink reads past what was stored.
- *Payload.* `store_science` writes through a null pointer and reads a page of 256
  bytes into four bytes of the stack (`payload.c:400-405`): what follows is
  undefined. Before that, COLLECT_PD is sent at most once per start, and `pd_collectedf` is never cleared.
- *SSM programming*: one sequence of pin and SPI transfers, with no second actor.
- *Checksums*: loops over bytes. `fletcher64_on_spimem` sums bytes past its
  count, and `fletcher32` skips a word by its `while(--len)`.

Parts of modelled components: in `FaultRecovery`, DELETE_TASK with a valid id, the
service commands for housekeeping and memory, the diagnostics, and what deleting a queue
by its first word does to the heap (`fdir.c:1669-1734`); in `Scheduling`, the
positions of commands in a list that is never stored; in `TimeKeeping`, seconds and
`report_time`; in `Housekeeping`, definitions from ground; in `SpiMem`, reading and the fallback to internal memory.

Left to do:
1. A router that composes `TcUplink`, `TmDownlink`, `TcRouting` and `AntennaDeploy` in one loop: that a
   transfer in one direction holds up the other (`obc_packet_router.c:298`).
2. Proofs: the properties of such a router; that what `SensorRequest` returns is what `Housekeeping!RequestMissing` may
   store, once the housekeeping branch returns its own register.

------------------------------ MODULE TcRouting ------------------------------
(***************************************************************************)
(* What becomes of a telecommand once it is put together.  The router        *)
(* inspects it (verify_telecommand), carries it out or queues it for a task  *)
(* (decode_telecommand_h), and turns what the tasks send back into           *)
(* telemetry (exec_commands).  The housekeeping task carries out its         *)
(* commands and answers each with the definition in use.  The other tasks    *)
(* that have a FIFO are not created by main at this commit: theirs only      *)
(* fill.  Telecommands are decoded and the tasks heard only in turns of the   *)
(* router's loop that find receiving_tcf cleared; TcUplink says why it is set *)
(* and cleared, here the CAN1 interrupt may set it at any moment and nothing  *)
(* says that it is ever cleared.                                             *)
(*                                                                         *)
(* A telecommand is known by its number in the order of decoding; of its     *)
(* contents only service, subtype and the first thing wrong with it count.   *)
(***************************************************************************)
EXTENDS Integers, Sequences, FiniteSets

CONSTANTS
  Telecommands,   \* what the ground may send
  FifoLength,     \* commands a FIFO between tasks holds (4 in the code)
  MaxTcs,         \* bound: telecommands decoded
  MaxHkReports    \* bound: housekeeping reports made

Tasks == {"hk", "time", "mem", "sched", "fdir"}

(* The cases of exec_commands_H2, in the order they are written.             *)
HkCases == <<"NEW_HK_DEFINITION", "CLEAR_HK_DEFINITION", "ENABLE_PARAM_REPORT",
             "DISABLE_PARAM_REPORT", "REPORT_HK_DEFINITIONS">>
HkSubtypes == {HkCases[k] : k \in DOMAIN HkCases}
DiagSubtypes == {"NEW_DIAG_DEFINITION", "CLEAR_DIAG_DEFINITION", "ENABLE_D_PARAM_REPORT",
                 "DISABLE_D_PARAM_REPORT", "REPORT_DIAG_DEFINITIONS"}
PassedOnly == {"17", "18"}   \* pass the inspection, are known to no one
MemSubtypes == {"MEMORY_LOAD_ABS", "DUMP_REQUEST_ABS", "CHECK_MEM_REQUEST"}
KSubtypes == {"ADD_SCHEDULE", "CLEAR_SCHEDULE", "SCHED_REPORT_REQUEST", "SCHED_REPORT",
              "PAUSE_SCHEDULE", "RESUME_SCHEDULE", "COMPLETED_SCHED_COM_REPORT",
              "START_EXPERIMENT_ARM", "START_EXPERIMENT_FIRE", "SET_VARIABLE",
              "GET_PARAMETER", "SINGLE_PARAMETER_REPORT", "DEPLOY_ANTENNA"}
Defects == {"none", "length", "pec", "apid", "argument", "time", "header"}

ASSUME ConstantsOK ==
  /\ Telecommands \subseteq
       [service : {"hk", "time", "mem", "k", "fdir", "unknown"},
        sub : STRING, defect : Defects]
  /\ FifoLength \in Nat \ {0} /\ MaxTcs \in Nat /\ MaxHkReports \in Nat

VARIABLES
  receiving_tcf,           \* a telecommand is being received: no service
  pc,                      \* the router: receiving, about to decode, or in
                           \* exec_commands
  fifo,                    \* obc_to_hk_fifo, obc_to_sched_fifo, ...
  hk_to_obc_fifo,
  experiment_armed, experiment_started,
  hkPc,                    \* the housekeeping task: commands or report next
  hk,                      \* its definition and param_report_requiredf
  hkReports,               \* counter behind the bound
  decoded,                 \* observer: telecommands decoded
  tm,                      \* observer: packets packetize_send_telemetry was given
  executed, lostReports    \* observers: commands of housekeeping; reports that
                           \* found hk_to_obc_fifo full
routerVars == <<receiving_tcf, pc, experiment_armed, experiment_started, decoded, tm>>
hkVars == <<hkPc, hk, hkReports, executed, lostReports>>
vars == <<routerVars, fifo, hk_to_obc_fifo, hkVars>>

Packet(kind, about, code) == [kind |-> kind, about |-> about, code |-> code]

Init ==
  /\ receiving_tcf = 0
  /\ pc = "receive"
  /\ fifo = [t \in Tasks |-> <<>>]
  /\ hk_to_obc_fifo = <<>>
  /\ experiment_armed = 0 /\ experiment_started = 0
  /\ hkPc = "commands"
  /\ hk = [definition |-> "default", param_report_requiredf |-> 0]
  /\ hkReports = 0
  /\ decoded = <<>> /\ tm = <<>> /\ executed = <<>> /\ lostReports = 0

(* xQueueSendToBack, its result ignored: k copies as far as there is room.    *)
Send(q, x, k) == SubSeq(q \o [j \in 1 .. k |-> x], 1,
                        IF Len(q) + k < FifoLength THEN Len(q) + k ELSE FifoLength)

-----------------------------------------------------------------------------
(* The loop.  TC_PACKET_READY sets receiving_tcf from the interrupt, whether  *)
(* or not the transfer is then allowed to start (start_tc_packet).           *)

NothingElse ==
  UNCHANGED <<experiment_armed, experiment_started, decoded, tm, fifo,
              hk_to_obc_fifo, hkVars>>

StartTcPacket ==
  /\ receiving_tcf' = 1
  /\ UNCHANGED pc
  /\ NothingElse

(* receive_tc_msg with a message of COMS: an accepted chunk leaves the flag   *)
(* set, the last one and every refused one leave it cleared.                  *)
ReceiveTcMsg ==
  /\ pc = "receive"
  /\ receiving_tcf' \in 0 .. 1
  /\ pc' = IF receiving_tcf' = 0 THEN "decode" ELSE "receive"
  /\ NothingElse

(* A turn without a message goes on to serve unless the flag is set.          *)
ServeTurn ==
  /\ pc = "receive"
  /\ receiving_tcf = 0
  /\ pc' = "decode"
  /\ UNCHANGED receiving_tcf
  /\ NothingElse

-----------------------------------------------------------------------------
(* send_tc_verification: what is made for ground.                            *)
SendTcVerification(n, status, code, type) ==
  CASE type = 1 /\ status = 0 -> <<Packet("accepted", n, code)>>
    [] type = 1 /\ status # 0 -> <<Packet("refused", n, code)>>
    [] type = 2 /\ status = 255 -> <<Packet("failed", n, code)>>
    [] type = 2 /\ status = 1 -> <<Packet("done", n, code)>>
    [] OTHER -> <<>>

Refuse(n, code) == SendTcVerification(n, 255, code, 1)

(* verify_telecommand: the first check that fails, and what it reports.       *)
Checks(tc, n) ==
  << [fails |-> tc.defect = "length", report |-> Refuse(n, 1)],
     [fails |-> tc.defect = "pec", report |-> Refuse(n, 2)],
     [fails |-> tc.service \notin {"hk", "mem", "time", "k"}, report |-> Refuse(n, 3)],
     [fails |-> tc.service = "hk" /\ tc.sub \notin HkSubtypes \cup DiagSubtypes \cup PassedOnly,
      report |-> <<>>],
     [fails |-> tc.service = "hk" /\ tc.defect = "apid", report |-> <<>>],
     [fails |-> \/ tc.service = "mem" /\ tc.sub \notin MemSubtypes
                \/ tc.service = "time" /\ tc.sub # "UPDATE_REPORT_FREQ"
                \/ tc.service = "k" /\ tc.sub \notin KSubtypes,
      report |-> Refuse(n, 4)],
     [fails |-> tc.service \in {"mem", "time"} /\ tc.defect = "apid",
      report |-> Refuse(n, 0)],
     [fails |-> tc.service = "mem" /\ tc.defect = "argument", report |-> Refuse(n, 5)],
     [fails |-> tc.service = "k" /\ tc.defect = "time", report |-> Refuse(n, 5)],
     [fails |-> tc.defect = "header", report |-> Refuse(n, 5)] >>

VerifyTelecommand(tc, n) ==
  LET checks == Checks(tc, n)
      FailsFirst(k) == checks[k].fails /\ \A j \in 1 .. k - 1 : ~checks[j].fails
  IN IF \E k \in DOMAIN checks : FailsFirst(k)
     THEN checks[CHOOSE k \in DOMAIN checks : FailsFirst(k)].report
     ELSE <<>>

-----------------------------------------------------------------------------
(* decode_telecommand_h, one action per service.  The outcome of the          *)
(* inspection is reported and otherwise ignored.                              *)

Decode(tc, more, t, k) ==
  LET n == Len(decoded) + 1 IN
  /\ pc = "decode"
  /\ n <= MaxTcs
  /\ decoded' = Append(decoded, tc)
  /\ tm' = tm \o VerifyTelecommand(tc, n) \o more
  /\ fifo' = [fifo EXCEPT ![t] = Send(@, n, k)]
  /\ pc' = "exec"
  /\ UNCHANGED <<receiving_tcf, hk_to_obc_fifo, hkVars>>

Number == Len(decoded) + 1
Experiment(armed, started) ==
  experiment_armed' = armed /\ experiment_started' = started
SameExperiment == UNCHANGED <<experiment_armed, experiment_started>>

(* A new or cleared definition must have structure ID 1 and at most 64        *)
(* parameters.                                                               *)
HkTelecommand(tc) ==
  /\ tc.service = "hk"
  /\ \/ /\ tc.sub \in {"NEW_HK_DEFINITION", "CLEAR_HK_DEFINITION"}
        /\ tc.defect = "argument"
        /\ Decode(tc, Refuse(Number, 5), "hk", 0)
     \/ /\ tc.sub \in HkSubtypes
        /\ tc.sub \in {"NEW_HK_DEFINITION", "CLEAR_HK_DEFINITION"}
             => tc.defect # "argument"
        /\ Decode(tc, <<>>, "hk", 1)
     \/ /\ tc.sub \in DiagSubtypes
        /\ Decode(tc, <<>>, "fdir", 1)
     \/ /\ tc.sub \notin HkSubtypes \cup DiagSubtypes
        /\ Decode(tc, <<>>, "hk", 0)
  /\ SameExperiment

TimeTelecommand(tc) ==
  tc.service = "time" /\ Decode(tc, <<>>, "time", 1) /\ SameExperiment

(* SAFE_MODE is 0 once the tasks run.                                        *)
MemTelecommand(tc) ==
  tc.service = "mem" /\ Decode(tc, <<>>, "mem", 1) /\ SameExperiment

FdirTelecommand(tc) ==
  tc.service = "fdir" /\ Decode(tc, <<>>, "fdir", 1) /\ SameExperiment

UnknownService(tc) ==
  tc.service = "unknown" /\ Decode(tc, <<>>, "hk", 0) /\ SameExperiment

(* The reports of success pass status 0.                                     *)
Success == SendTcVerification(Number, 0, "router", 2)

(* The else of DEPLOY_ANTENNA belongs to every other subtype, and             *)
(* ADD_SCHEDULE has been queued before.                                      *)
CopiesToSched(sub) ==
  CASE sub = "ADD_SCHEDULE" -> 2 [] sub = "DEPLOY_ANTENNA" -> 0 [] OTHER -> 1

DecodeK(tc, more) == Decode(tc, more, "sched", CopiesToSched(tc.sub))

Arm(tc) ==
  /\ tc.service = "k" /\ tc.sub = "START_EXPERIMENT_ARM"
  /\ Experiment(1, experiment_started)
  /\ DecodeK(tc, Success)

(* Faulty variant: firing does not look at experiment_armed.                 *)
FireUnchecked(tc) ==
  /\ tc.service = "k" /\ tc.sub = "START_EXPERIMENT_FIRE"
  /\ Experiment(experiment_armed, 1)
  /\ DecodeK(tc, Success)

Fire(tc) ==
  /\ tc.service = "k" /\ tc.sub = "START_EXPERIMENT_FIRE"
  /\ IF experiment_armed = 1
       THEN Experiment(experiment_armed, 1) /\ DecodeK(tc, Success)
       ELSE SameExperiment /\ DecodeK(tc, Refuse(Number, 5))

SetDeploy(tc) ==
  /\ tc.service = "k" /\ tc.sub \in {"SET_VARIABLE", "DEPLOY_ANTENNA"}
  /\ SameExperiment
  /\ DecodeK(tc, Success)

GetParameter(tc) ==
  /\ tc.service = "k" /\ tc.sub = "GET_PARAMETER"
  /\ SameExperiment
  /\ DecodeK(tc, Success \o <<Packet("parameter", Number, 0)>>)

Schedule(tc) ==
  /\ tc.service = "k"
  /\ tc.sub \notin {"START_EXPERIMENT_ARM", "START_EXPERIMENT_FIRE", "SET_VARIABLE",
                    "DEPLOY_ANTENNA", "GET_PARAMETER"}
  /\ SameExperiment
  /\ DecodeK(tc, <<>>)

DecodeTelecommand ==
  \E tc \in Telecommands :
    \/ HkTelecommand(tc) \/ TimeTelecommand(tc) \/ MemTelecommand(tc)
    \/ FdirTelecommand(tc) \/ UnknownService(tc)
    \/ Arm(tc) \/ Fire(tc) \/ SetDeploy(tc) \/ GetParameter(tc) \/ Schedule(tc)

NothingToDecode ==
  /\ pc = "decode"
  /\ pc' = "exec"
  /\ UNCHANGED receiving_tcf
  /\ NothingElse

(* exec_commands, for hk_to_obc_fifo.                                        *)
ExecCommands ==
  /\ pc = "exec"
  /\ IF hk_to_obc_fifo = <<>>
       THEN UNCHANGED <<tm, hk_to_obc_fifo>>
       ELSE LET m == Head(hk_to_obc_fifo) IN
            /\ hk_to_obc_fifo' = Tail(hk_to_obc_fifo)
            /\ tm' = tm \o IF m.kind = "verification"
                             THEN SendTcVerification(m.about, m.code, "hk", 2)
                             ELSE <<m>>
  /\ pc' = "receive"
  /\ UNCHANGED <<receiving_tcf, experiment_armed, experiment_started, decoded, fifo,
                 hkVars>>

Router ==
  \/ ReceiveTcMsg \/ ServeTurn \/ DecodeTelecommand \/ NothingToDecode
  \/ ExecCommands

-----------------------------------------------------------------------------
(* The housekeeping task.                                                    *)

(* xQueueSendToBackTask: every case of its switch runs into the default,      *)
(* which returns before anything is queued.                                  *)
SendToBackTask(q, m) == q

SendTcExecutionVerify(st, n) ==
  [st EXCEPT !.out = SendToBackTask(@, Packet("verification", n, 1))]

(* What one case of exec_commands_H2 does to the definition and the flag.      *)
Switched(c, h) ==
  CASE c = "NEW_HK_DEFINITION" -> [h EXCEPT !.definition = "alternate"]
    [] c = "CLEAR_HK_DEFINITION" -> [h EXCEPT !.definition = "default"]
    [] c \in {"ENABLE_PARAM_REPORT", "REPORT_HK_DEFINITIONS"} ->
         [h EXCEPT !.param_report_requiredf = 1]
    [] OTHER -> [h EXCEPT !.param_report_requiredf = 0]

(* One case; only REPORT_HK_DEFINITIONS verifies nothing.                     *)
Case(c, st, n) ==
  LET changed == [st EXCEPT !.hk = Switched(c, @)] IN
  IF c = "REPORT_HK_DEFINITIONS" THEN changed ELSE SendTcExecutionVerify(changed, n)

(* No case ends with a break: the ones after it are carried out as well.      *)
ExecCommandsH2(sub, st, n) ==
  LET first == CHOOSE k \in DOMAIN HkCases : HkCases[k] = sub
      FallInto(k, before) == IF first <= k THEN Case(HkCases[k], before, n) ELSE before
  IN FallInto(5, FallInto(4, FallInto(3, FallInto(2, FallInto(1, st)))))

(* Faulty variant: all commands that wait are carried out before the report.  *)
HkExecAll ==
  /\ hkPc = "commands"
  /\ fifo["hk"] # <<>>
  /\ LET n == Head(fifo["hk"])
         st == ExecCommandsH2(decoded[n].sub, [hk |-> hk, out |-> hk_to_obc_fifo], n)
     IN /\ hk' = st.hk
        /\ hk_to_obc_fifo' = st.out
        /\ executed' = Append(executed, n)
        /\ fifo' = [fifo EXCEPT !["hk"] = Tail(@)]
  /\ hkPc' = IF Len(fifo["hk"]) = 1 THEN "report" ELSE "commands"
  /\ UNCHANGED <<routerVars, hkReports, lostReports>>

HkExecCommands ==
  /\ hkPc = "commands"
  /\ fifo["hk"] # <<>>
  /\ LET n == Head(fifo["hk"])
         st == ExecCommandsH2(decoded[n].sub, [hk |-> hk, out |-> hk_to_obc_fifo], n)
     IN /\ hk' = st.hk
        /\ hk_to_obc_fifo' = st.out
        /\ executed' = Append(executed, n)
        /\ fifo' = [fifo EXCEPT !["hk"] = Tail(@)]
  /\ hkPc' = "report"
  /\ UNCHANGED <<routerVars, hkReports, lostReports>>

SendParamReport ==
  /\ hkPc = "report"
  /\ IF hk.param_report_requiredf = 1
       THEN /\ hk_to_obc_fifo' =
                 Send(hk_to_obc_fifo, Packet("definition", 0, hk.definition), 1)
            /\ lostReports' = lostReports +
                 IF Len(hk_to_obc_fifo) = FifoLength THEN 1 ELSE 0
            /\ hk' = [hk EXCEPT !.param_report_requiredf = 0]
       ELSE UNCHANGED <<hk_to_obc_fifo, lostReports, hk>>
  /\ hkPc' = "commands"
  /\ UNCHANGED <<routerVars, fifo, hkReports, executed>>

(* The report of a round of Housekeeping.                                    *)
SendHkAsTm ==
  /\ hkPc = "commands"
  /\ hkReports < MaxHkReports
  /\ hkReports' = hkReports + 1
  /\ hk_to_obc_fifo' =
       Send(hk_to_obc_fifo, Packet("housekeeping", 0, hk.definition), 1)
  /\ UNCHANGED <<routerVars, fifo, hkPc, hk, executed, lostReports>>

HkTask == HkExecCommands \/ SendParamReport \/ SendHkAsTm

Next == StartTcPacket \/ Router \/ HkTask

Spec == Init /\ [][Next]_vars

(* Both tasks run for ever; neither waits for the other.  Nothing is assumed   *)
(* of the messages that clear receiving_tcf.                                 *)
FairSpec == Spec /\ WF_vars(ServeTurn \/ NothingToDecode \/ ExecCommands)
                 /\ WF_vars(HkExecCommands \/ SendParamReport)

-----------------------------------------------------------------------------
Definitions(s) == Cardinality({k \in DOMAIN s : s[k].kind = "definition"})

TypeOK ==
  /\ receiving_tcf \in 0 .. 1
  /\ pc \in {"receive", "decode", "exec"} /\ hkPc \in {"commands", "report"}
  /\ fifo \in [Tasks -> Seq(1 .. MaxTcs)]
  /\ \A t \in Tasks : Len(fifo[t]) <= FifoLength
  /\ Len(hk_to_obc_fifo) <= FifoLength
  /\ experiment_armed \in 0 .. 1 /\ experiment_started \in 0 .. 1
  /\ hk.definition \in {"default", "alternate"}
  /\ hk.param_report_requiredf \in 0 .. 1
  /\ decoded \in Seq(Telecommands) /\ Len(decoded) <= MaxTcs
  /\ executed \in Seq(1 .. MaxTcs)
  /\ lostReports \in Nat /\ hkReports \in 0 .. MaxHkReports

(* The experiment is only started by a fire command that comes after an arm   *)
(* command.                                                                   *)
StartedOnlyWhenArmed ==
  experiment_started = 1 =>
    \E j, k \in DOMAIN decoded :
      /\ j < k
      /\ decoded[j].sub = "START_EXPERIMENT_ARM"
      /\ decoded[k].sub = "START_EXPERIMENT_FIRE"

(* Queues and flags keep their ranges, and the experiment its arming.         *)
RoutingInv == TypeOK /\ StartedOnlyWhenArmed

(* Every command housekeeping carries out is answered by one report of the    *)
(* definition, which is with ground, in the FIFO, due, or was lost to a full  *)
(* FIFO: no two commands share one.                                          *)
OneReportPerCommand ==
  Len(executed) = Definitions(tm) + Definitions(hk_to_obc_fifo)
                  + hk.param_report_requiredf + lostReports

(* Every command for housekeeping that found room in obc_to_hk_fifo is         *)
(* carried out, and its report is given to packetize_send_telemetry or lost to *)
(* a full FIFO (FairSpec) - unless receiving_tcf stays set for ever: then the  *)
(* loop never gets to exec_commands again (obc_packet_router.c:298, 335).  What *)
(* packetize_send_telemetry refuses while current_tm is held is the matter of  *)
(* TmDownlink (HeldForGood).                                                 *)
HkReportHandedOver ==
  \A n \in 1 .. MaxTcs :
    \/ <>[](receiving_tcf = 1)
    \/ (\E k \in DOMAIN fifo["hk"] : fifo["hk"][k] = n)
         ~> (\E k \in DOMAIN executed :
               executed[k] = n /\ k <= Definitions(tm) + lostReports)
=============================================================================

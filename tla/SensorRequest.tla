--------------------------- MODULE SensorRequest ---------------------------
(***************************************************************************)
(* request_sensor_data and set_variable: how a task asks an SSM for a value  *)
(* over CAN.  The caller takes Can0_Mutex, sends REQ_DATA and polls a flag   *)
(* that the CAN1 interrupt sets together with the two words of the answer.   *)
(* Every sender id has a flag and a register of its own, shared by all tasks  *)
(* that use the id, and nothing in an answer tells which request it answers:  *)
(* only the name of the sensor is compared.                                  *)
(*                                                                         *)
(* A call is known by its number among the calls with the same sender id.    *)
(***************************************************************************)
EXTENDS Integers, Sequences, FiniteSets

CONSTANTS
  Senders,      \* ids that have a flag and a register
  Callers,      \* those of them that make requests
  Hk, Sched,    \* HK_TASK_ID and SCHEDULING_TASK_ID
  Sensors,      \* sensors and variables of the SSMs
  Values,       \* what a variable may hold
  Initial,      \* what it holds at first
  MaxCalls,     \* bound: calls made with each sender id, per caller
  MaxLosses,    \* bound: messages lost
  MaxLates      \* bound: answers that come after the wait for them

Free == "free"
NoSensor == "none"

ASSUME ConstantsOK ==
  /\ Callers \subseteq Senders /\ Free \notin Senders
  /\ Hk \in Senders /\ Sched \in Senders /\ Hk # Sched
  /\ NoSensor \notin Sensors
  /\ Initial \in Values
  /\ MaxCalls \in [Callers -> Nat] /\ MaxLosses \in Nat /\ MaxLates \in Nat

VARIABLES
  Can0_Mutex,          \* the caller inside, or Free
  pc, call,            \* where that caller is, and what it asked for
  data_receivedf,      \* eps_data_receivedf, coms_data_receivedf, ...
  data_receive,        \* eps_data_receive, coms_data_receive, ...
  toSsm, toObc,        \* messages under way
  ssm,                 \* the variables of the SSMs
  losses,              \* counter behind the bound
  results              \* observer: what each sender's calls came to, in order

registers == <<data_receivedf, data_receive>>
bus == <<toSsm, toObc, ssm, losses>>
vars == <<Can0_Mutex, pc, call, registers, bus, results>>

Kinds == {"get", "set"}
Answer(to, sensor, value, n) ==
  [to |-> to, sensor |-> sensor, value |-> value, n |-> n]
Blank(id) == Answer(id, NoSensor, Initial, 0)
NoCall == [sender |-> Free, kind |-> "get", sensor |-> NoSensor,
           value |-> Initial, got |-> Blank(Free)]

CallNumber(id) == Len(results[id]) + 1
LateCount(rs) == Cardinality({k \in DOMAIN rs : rs[k].outcome = "late"})

Init ==
  /\ Can0_Mutex = Free
  /\ pc = "idle" /\ call = NoCall
  /\ data_receivedf = [id \in Senders |-> 0]
  /\ data_receive = [id \in Senders |-> Blank(id)]
  /\ toSsm = <<>> /\ toObc = <<>>
  /\ ssm = [s \in Sensors |-> Initial]
  /\ losses = 0
  /\ results = [id \in Senders |-> <<>>]

-----------------------------------------------------------------------------
(* The bus and the SSMs (external).  Messages keep their order; any of them  *)
(* may get lost.                                                             *)

Send(m) ==
  \/ toSsm' = Append(toSsm, m) /\ UNCHANGED losses
  \/ losses < MaxLosses /\ losses' = losses + 1 /\ UNCHANGED toSsm

SsmTakes ==
  /\ toSsm # <<>>
  /\ toSsm' = Tail(toSsm)
  /\ LET m == Head(toSsm) IN
     IF m.kind = "set"
       THEN ssm' = [ssm EXCEPT ![m.sensor] = m.value] /\ UNCHANGED toObc
       ELSE /\ toObc' = Append(toObc, Answer(m.sender, m.sensor, ssm[m.sensor], m.n))
            /\ UNCHANGED ssm
  /\ UNCHANGED <<Can0_Mutex, pc, call, registers, losses, results>>

AnswerLost ==
  /\ toObc # <<>> /\ losses < MaxLosses
  /\ toObc' = Tail(toObc)
  /\ losses' = losses + 1
  /\ UNCHANGED <<Can0_Mutex, pc, call, registers, toSsm, ssm, results>>

(* Faulty variant: the flag is set but an answer not yet taken is kept.      *)
AlertKeepingFirst ==
  /\ toObc # <<>>
  /\ toObc' = Tail(toObc)
  /\ LET a == Head(toObc) IN
     /\ data_receivedf' = [data_receivedf EXCEPT ![a.to] = 1]
     /\ data_receive' = [data_receive EXCEPT ![a.to] =
                           IF data_receive[a.to].n > 0 THEN @ ELSE a]
  /\ UNCHANGED <<Can0_Mutex, pc, call, toSsm, ssm, losses, results>>

(* alert_can_data, in the CAN1 interrupt: the flag and both words.           *)
AlertCanData ==
  /\ toObc # <<>>
  /\ toObc' = Tail(toObc)
  /\ LET a == Head(toObc) IN
     /\ data_receivedf' = [data_receivedf EXCEPT ![a.to] = 1]
     /\ data_receive' = [data_receive EXCEPT ![a.to] = a]
  /\ UNCHANGED <<Can0_Mutex, pc, call, toSsm, ssm, losses, results>>

-----------------------------------------------------------------------------
(* The caller.  A call made while another task has Can0_Mutex returns -1 at  *)
(* once and changes nothing: it is a stuttering step here.                   *)

TakeMutex(id, c, next) ==
  /\ Can0_Mutex = Free
  /\ Can0_Mutex' = id
  /\ call' = c
  /\ pc' = next
  /\ UNCHANGED <<registers, bus, results>>

RequestSensorData ==
  \E id \in Callers, s \in Sensors :
    /\ Len(results[id]) < MaxCalls[id]
    /\ TakeMutex(id, [NoCall EXCEPT !.sender = id, !.sensor = s], "request")

SetVariable ==
  \E id \in Callers, s \in Sensors, v \in Values :
    /\ Len(results[id]) < MaxCalls[id]
    /\ TakeMutex(id, [NoCall EXCEPT !.sender = id, !.kind = "set", !.sensor = s,
                                    !.value = v], "set")

SendSetVar ==
  /\ pc = "set"
  /\ Send([kind |-> "set", sender |-> call.sender, sensor |-> call.sensor,
           value |-> call.value, n |-> CallNumber(call.sender)])
  /\ pc' = "request"
  /\ UNCHANGED <<Can0_Mutex, call, registers, toObc, ssm, results>>

SendReqData ==
  /\ pc = "request"
  /\ Send([kind |-> "get", sender |-> call.sender, sensor |-> call.sensor,
           value |-> Initial, n |-> CallNumber(call.sender)])
  /\ pc' = "wait"
  /\ UNCHANGED <<Can0_Mutex, call, registers, toObc, ssm, results>>

(* Faulty variant: every branch uses the register of the housekeeping task.   *)
AlwaysHk(id) == Hk

(* The code is written out once per sender id; the branch of HK_TASK_ID      *)
(* reads and clears the register of the scheduling task.                     *)
ValueRegister(id) == IF id = Hk THEN Sched ELSE id

Return(outcome) ==
  /\ Can0_Mutex' = Free
  /\ pc' = "idle"
  /\ call' = NoCall
  /\ results' = [results EXCEPT ![call.sender] =
                   Append(@, [outcome |-> outcome, sensor |-> call.sensor,
                              got |-> call.got])]
  /\ UNCHANGED bus

(* An answer for the caller is under way, to this call or to an earlier one. *)
AnswerUnderWay ==
  \/ \E k \in DOMAIN toSsm : toSsm[k].kind = "get" /\ toSsm[k].sender = call.sender
  \/ \E k \in DOMAIN toObc : toObc[k].to = call.sender

(* Faulty variant: the wait has no limit.                                    *)
WaitForEver ==
  /\ pc = "wait"
  /\ data_receivedf[call.sender] = 0
  /\ AnswerUnderWay /\ LateCount(results[call.sender]) < MaxLates
  /\ Return("late")
  /\ UNCHANGED registers

(* The wait runs out: because the answer is lost, or before it comes.        *)
Timeout ==
  /\ pc = "wait"
  /\ data_receivedf[call.sender] = 0
  /\ IF AnswerUnderWay
       THEN LateCount(results[call.sender]) < MaxLates /\ Return("late")
       ELSE Return("lost")
  /\ UNCHANGED registers

SeeFlag ==
  /\ pc = "wait"
  /\ data_receivedf[call.sender] = 1
  /\ pc' = "name"
  /\ UNCHANGED <<Can0_Mutex, call, registers, bus, results>>

ClearFlag ==
  /\ data_receivedf' = [data_receivedf EXCEPT ![ValueRegister(call.sender)] = 0]
  /\ UNCHANGED data_receive

CheckName ==
  /\ pc = "name"
  /\ IF data_receive[call.sender].sensor # call.sensor
       THEN ClearFlag /\ Return("mismatch")
       ELSE /\ pc' = "value"
            /\ UNCHANGED <<Can0_Mutex, call, registers, bus, results>>

TakeValue ==
  /\ pc = "value"
  /\ call' = [call EXCEPT !.got = data_receive[ValueRegister(call.sender)]]
  /\ pc' = "clear"
  /\ UNCHANGED <<Can0_Mutex, registers, bus, results>>

(* Faulty variant: the flag is left set, as the branch of HK_TASK_ID does.   *)
ReturnValueUncleared ==
  /\ pc = "clear"
  /\ Return("value")
  /\ UNCHANGED registers

ReturnValue ==
  /\ pc = "clear"
  /\ ClearFlag
  /\ Return("value")

Caller ==
  \/ SendSetVar \/ SendReqData \/ Timeout \/ SeeFlag
  \/ CheckName \/ TakeValue \/ ReturnValue

Bus == SsmTakes \/ AlertCanData

Next == RequestSensorData \/ SetVariable \/ Caller \/ Bus \/ AnswerLost

Spec == Init /\ [][Next]_vars

(* The polling loop counts its timeout down, and a message that is not lost  *)
(* arrives.                                                                  *)
FairSpec == Spec /\ WF_vars(Caller) /\ WF_vars(Bus)

-----------------------------------------------------------------------------
AnswersTo(ids) == [to : ids, sensor : Sensors \cup {NoSensor}, value : Values, n : Nat]
Messages == [kind : Kinds, sender : Callers, sensor : Sensors, value : Values, n : Nat]
Calls == [sender : Callers \cup {Free}, kind : Kinds, sensor : Sensors \cup {NoSensor},
          value : Values, got : AnswersTo(Senders \cup {Free})]
Results == [outcome : {"lost", "late", "mismatch", "value"}, sensor : Sensors,
            got : AnswersTo(Senders \cup {Free})]

TypeOK ==
  /\ Can0_Mutex = call.sender
  /\ pc \in {"idle", "set", "request", "wait", "name", "value", "clear"}
  /\ call \in Calls
  /\ pc = "idle" <=> Can0_Mutex = Free
  /\ pc # "idle" => call.sensor \in Sensors
                    /\ Len(results[call.sender]) < MaxCalls[call.sender]
  /\ data_receivedf \in [Senders -> 0 .. 1]
  /\ data_receive \in [Senders -> AnswersTo(Senders)]
  /\ \A id \in Senders : data_receive[id].to = id
  /\ toSsm \in Seq(Messages)
  /\ toObc \in Seq(AnswersTo(Callers))
  /\ ssm \in [Sensors -> Values]
  /\ losses \in 0 .. MaxLosses
  /\ results \in [Senders -> Seq(Results)]
  /\ \A id \in Callers : Len(results[id]) <= MaxCalls[id]

(* Housekeeping is left out of the four claims that follow: its branch never   *)
(* clears its own flag and takes its values from the register of scheduling    *)
(* (can_func.c 1507-1519), so that with two tasks taking turns it may return    *)
(* one answer twice, or that of another sensor, although nothing was late.     *)
(* HkReadsSched says what is left for it.                                     *)
ExceptHk == Senders \ {Hk}
Obtained(id) == {k \in DOMAIN results[id] : results[id][k].outcome = "value"}

(* Except for housekeeping, an answer is used for at most one call, and        *)
(* answers are used in the order they were asked for, even when some are late  *)
(* or lost (the flag is cleared last).                                        *)
UsedOnceInOrder ==
  \A id \in ExceptHk : \A j, k \in Obtained(id) :
    j < k => results[id][j].got.n < results[id][k].got.n

(* What housekeeping gets are answers to requests of scheduling: maybe the     *)
(* same one again, but never an older one than before, whatever both calls and *)
(* the interrupt do in between.                                               *)
HkReadsSched ==
  \A k \in Obtained(Hk) :
    /\ results[Hk][k].got.to = Sched
    /\ \A j \in Obtained(Hk) :
         j < k => results[Hk][j].got.n <= results[Hk][k].got.n

(* The registers and flags keep their ranges, Can0_Mutex is held exactly while *)
(* a call is under way, each answer is used once by all but housekeeping, and   *)
(* housekeeping does not go back.                                             *)
RequestInv == TypeOK /\ UsedOnceInOrder /\ HkReadsSched

(* Except for housekeeping, a value can be as many calls old as calls before   *)
(* it gave up too early, but no older: lost messages alone never put such a    *)
(* caller out of step.                                                        *)
LagBounded ==
  \A id \in ExceptHk : \A k \in Obtained(id) :
    k - results[id][k].got.n <= LateCount(SubSeq(results[id], 1, k - 1))

(* A call that is not housekeeping's has the answer to its own request or none. *)
OwnAnswer ==
  \A id \in ExceptHk : \A k \in DOMAIN results[id] :
    LET r == results[id][k] IN
    /\ r.outcome # "mismatch"
    /\ r.outcome = "value" => r.got.n = k /\ r.got.sensor = r.sensor

(* set_variable, called by any task but housekeeping, only reports success when *)
(* the variable of the SSM does hold the value.                               *)
SetMeansSet ==
  pc = "clear" /\ call.kind = "set" /\ call.sender # Hk /\ call.got.value = call.value
    => ssm[call.sensor] = call.value

(* Both hold as long as no answer is late, whatever is lost and whatever        *)
(* housekeeping does to the register and the flag of scheduling in between.    *)
InStep ==
  (\A id \in Senders : LateCount(results[id]) = 0) => OwnAnswer /\ SetMeansSet

(* Can0_Mutex is always given back (FairSpec).                                *)
MutexGivenBack == Can0_Mutex # Free ~> Can0_Mutex = Free
=============================================================================

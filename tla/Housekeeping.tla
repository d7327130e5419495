----------------------------- MODULE Housekeeping -----------------------------
(***************************************************************************)
(* The collection of housekeeping.  Once per round the housekeeping task    *)
(* asks every SSM for its parameters, waits for as many messages as the      *)
(* definition has parameters, asks for each one that did not come, and       *)
(* copies current_hk into a report.  Meanwhile the CAN1 interrupt writes the *)
(* values of the messages straight into current_hk: the task only counts     *)
(* them in can_hk_fifo.                                                      *)
(*                                                                         *)
(* The parameters are the positions 1..N of the default definition, two      *)
(* bytes each; one of them is a parameter of the OBC itself, which no SSM    *)
(* sends.  A value is the round in which the SSM was asked for it.           *)
(***************************************************************************)
EXTENDS Integers, Sequences

CONSTANTS
  N,             \* parameters of the definition (29 in the code)
  Obc,           \* the one the task fills in itself (OBC_TEMP)
  Ssms,          \* for each SSM asked, in order, the parameters it sends
                 \* (each parameter of an SSM has a name of its own)
  HkFifoLength,  \* messages can_hk_fifo holds (50 in the code)
  MaxRounds,     \* bound: rounds
  MaxLosses,     \* bound: requests and messages lost, Can0_Mutex taken
  MaxLates       \* bound: waits that end before everything has come

Params == 1 .. N

ASSUME ConstantsOK ==
  /\ N \in Nat \ {0} /\ Obc \in Params
  /\ Ssms \in Seq(Seq(Params \ {Obc})) /\ Ssms # <<>>
  /\ \A s, t \in DOMAIN Ssms : \A k \in DOMAIN Ssms[s], l \in DOMAIN Ssms[t] :
       Ssms[s][k] = Ssms[t][l] => s = t /\ k = l
  /\ HkFifoLength \in Nat \ {0} /\ HkFifoLength >= N - 1
  /\ MaxRounds \in Nat /\ MaxLosses \in Nat /\ MaxLates \in Nat

VARIABLES
  current_hk, hk_updated,    \* written by the task and by the interrupt
  can_hk_fifo,
  pc, i,                     \* where the task is; SSM or parameter at hand
  parameter_count,           \* messages still to come
  req_data_result,
  report,                    \* current_command of send_hk_as_tm
  round,
  air,                       \* messages of the SSMs on their way
  losses, lates,             \* counters behind the bounds
  behind, tardy              \* observers: backlog when the round began; how
                             \* many messages its wait did not wait for

faults == <<losses, lates>>
observers == <<behind, tardy>>
vars == <<current_hk, hk_updated, can_hk_fifo, pc, i, parameter_count,
          req_data_result, report, round, air, faults, observers>>

Never == 0          \* what clear_current_hk leaves
Failed == -1        \* 0xFFFFFFFF, returned by request_sensor_data
Foreign == -2       \* the register of the scheduling task
Results == {Failed, Foreign}
Bytes == Results \cup {Never} \cup 1 .. MaxRounds
Pair(v) == [low |-> v, high |-> v]
Messages == [name : Params, value : 1 .. MaxRounds]

Backlog == Len(can_hk_fifo) + Len(air)

Init ==
  /\ current_hk = [p \in Params |-> Pair(Never)]
  /\ hk_updated = [p \in Params |-> 0]
  /\ can_hk_fifo = <<>>
  /\ pc = "idle" /\ i = 1
  /\ parameter_count = 0 /\ req_data_result = Failed
  /\ report = [p \in Params |-> Pair(Never)]
  /\ round = 0
  /\ air = <<>>
  /\ losses = 0 /\ lates = 0
  /\ behind = 0 /\ tardy = 0

Lose == losses < MaxLosses /\ losses' = losses + 1
NoLoss == UNCHANGED losses

-----------------------------------------------------------------------------
(* store_can_msg, in the CAN1 interrupt (mailboxes 5 and 6): the value goes   *)
(* into current_hk, the message into can_hk_fifo, or nowhere when it is full. *)
StoreCanMsg ==
  /\ air # <<>>
  /\ LET msg == Head(air) IN
     /\ current_hk' = [current_hk EXCEPT ![msg.name] = Pair(msg.value)]
     /\ hk_updated' = [hk_updated EXCEPT ![msg.name] = 1]
     /\ can_hk_fifo' = IF Len(can_hk_fifo) < HkFifoLength
                         THEN Append(can_hk_fifo, msg) ELSE can_hk_fifo
  /\ air' = Tail(air)
  /\ UNCHANGED <<pc, i, parameter_count, req_data_result, report, round, faults,
                 observers>>

MessageLost ==
  /\ air # <<>>
  /\ Lose
  /\ air' = Tail(air)
  /\ UNCHANGED <<current_hk, hk_updated, can_hk_fifo, pc, i, parameter_count,
                 req_data_result, report, round, lates, observers>>

-----------------------------------------------------------------------------
(* The housekeeping task.                                                    *)

(* HK_LOOP_TIMEOUT ticks have passed since the last report.                  *)
StartRound ==
  /\ pc = "idle"
  /\ round < MaxRounds
  /\ round' = round + 1
  /\ pc' = "ask" /\ i' = 1
  /\ behind' = Backlog /\ tardy' = 0
  /\ UNCHANGED <<current_hk, hk_updated, can_hk_fifo, parameter_count,
                 req_data_result, report, air, faults>>

(* What the SSM makes of REQ_HK.                                             *)
Answers(s) == [k \in DOMAIN Ssms[s] |-> [name |-> Ssms[s][k], value |-> round]]

AllAsked == pc' = "reset" /\ i' = 1

(* request_housekeeping, once per SSM.  When Can0_Mutex is taken the rest are *)
(* not asked; the result -1 counts as true in the loop of the task.           *)
RequestHousekeeping ==
  /\ pc = "ask"
  /\ \/ /\ \/ NoLoss /\ air' = air \o Answers(i)
           \/ Lose /\ UNCHANGED air
        /\ IF i = Len(Ssms) THEN AllAsked ELSE i' = i + 1 /\ UNCHANGED pc
     \/ /\ Lose
        /\ AllAsked
        /\ UNCHANGED air
  /\ UNCHANGED <<current_hk, hk_updated, can_hk_fifo, parameter_count,
                 req_data_result, report, round, lates, observers>>

(* Faulty variant: only the parameters of the SSMs are waited for.           *)
CountSsmsOnly == N - 1

ToCount == N

(* The marks are reset one by one, then the OBC's own parameter is filled in. *)
ResetUpdated ==
  /\ pc = "reset"
  /\ IF i < N
       THEN /\ hk_updated' = [hk_updated EXCEPT ![i] = 0]
            /\ i' = i + 1
            /\ UNCHANGED <<pc, parameter_count>>
       ELSE /\ hk_updated' = [hk_updated EXCEPT ![i] = 0, ![Obc] = 1]
            /\ i' = 1
            /\ pc' = "collect"
            /\ parameter_count' = ToCount
  /\ UNCHANGED <<current_hk, can_hk_fifo, req_data_result, report, round, air,
                 faults, observers>>

Collected == IF parameter_count = 1 THEN "check" ELSE "collect"

(* Faulty variant: marking is left to the interrupt.                         *)
CollectUnmarked ==
  /\ pc = "collect"
  /\ can_hk_fifo # <<>>
  /\ can_hk_fifo' = Tail(can_hk_fifo)
  /\ parameter_count' = parameter_count - 1
  /\ pc' = Collected
  /\ UNCHANGED <<current_hk, hk_updated, i, req_data_result, report, round, air,
                 faults, observers>>

(* Faulty variant: the value is taken from the message as well (the two       *)
(* statements that are commented out in the code).                            *)
CollectValues ==
  /\ pc = "collect"
  /\ can_hk_fifo # <<>>
  /\ LET msg == Head(can_hk_fifo) IN
     /\ hk_updated' = [hk_updated EXCEPT ![msg.name] = 1]
     /\ current_hk' = [current_hk EXCEPT ![msg.name] = Pair(msg.value)]
  /\ can_hk_fifo' = Tail(can_hk_fifo)
  /\ parameter_count' = parameter_count - 1
  /\ pc' = Collected
  /\ UNCHANGED <<i, req_data_result, report, round, air, faults, observers>>

(* read_can_hk: any message counts, whatever its parameter and its round.     *)
Collect ==
  /\ pc = "collect"
  /\ can_hk_fifo # <<>>
  /\ hk_updated' = [hk_updated EXCEPT ![Head(can_hk_fifo).name] = 1]
  /\ can_hk_fifo' = Tail(can_hk_fifo)
  /\ parameter_count' = parameter_count - 1
  /\ pc' = Collected
  /\ UNCHANGED <<current_hk, i, req_data_result, report, round, air, faults,
                 observers>>

(* Faulty variant: the wait has no limit.                                    *)
CollectEverything ==
  /\ pc = "collect"
  /\ parameter_count = 0
  /\ pc' = "check"
  /\ UNCHANGED <<current_hk, hk_updated, can_hk_fifo, i, parameter_count,
                 req_data_result, report, round, air, faults, observers>>

(* 5000 turns have passed: nothing more comes, or it comes too late.          *)
CollectTimeout ==
  /\ pc = "collect"
  /\ can_hk_fifo = <<>>
  /\ IF air = <<>> THEN UNCHANGED lates
                   ELSE lates < MaxLates /\ lates' = lates + 1
  /\ tardy' = Len(air)
  /\ pc' = "check"
  /\ UNCHANGED <<current_hk, hk_updated, can_hk_fifo, i, parameter_count,
                 req_data_result, report, round, air, losses, behind>>

NextParam(done) ==
  IF i < N THEN i' = i + 1 /\ pc' = "check" ELSE i' = 1 /\ pc' = done

CheckUpdated ==
  /\ pc = "check"
  /\ IF hk_updated[i] = 1 THEN NextParam("copyLow")
                          ELSE pc' = "missing" /\ UNCHANGED i
  /\ UNCHANGED <<current_hk, hk_updated, can_hk_fifo, parameter_count,
                 req_data_result, report, round, air, faults, observers>>

(* request_sensor_data with HK_TASK_ID fails or returns the register of the   *)
(* scheduling task.  The status it leaves is behind a null pointer: whether   *)
(* the result is used is arbitrary.                                           *)
RequestMissing ==
  /\ pc = "missing"
  /\ \/ /\ req_data_result' \in Results
        /\ pc' = "storeLow" /\ UNCHANGED i
     \/ NextParam("copyLow") /\ UNCHANGED req_data_result
  /\ UNCHANGED <<current_hk, hk_updated, can_hk_fifo, parameter_count, report,
                 round, air, faults, observers>>

StoreLow ==
  /\ pc = "storeLow"
  /\ current_hk' = [current_hk EXCEPT ![i].low = req_data_result]
  /\ pc' = "storeHigh"
  /\ UNCHANGED <<hk_updated, can_hk_fifo, i, parameter_count, req_data_result,
                 report, round, air, faults, observers>>

StoreHigh ==
  /\ pc = "storeHigh"
  /\ current_hk' = [current_hk EXCEPT ![i].high = req_data_result]
  /\ hk_updated' = [hk_updated EXCEPT ![i] = 1]
  /\ NextParam("copyLow")
  /\ UNCHANGED <<can_hk_fifo, parameter_count, req_data_result, report, round,
                 air, faults, observers>>

(* send_hk_as_tm copies current_hk byte by byte.                             *)
CopyLow ==
  /\ pc = "copyLow"
  /\ report' = [report EXCEPT ![i].low = current_hk[i].low]
  /\ pc' = "copyHigh"
  /\ UNCHANGED <<current_hk, hk_updated, can_hk_fifo, i, parameter_count,
                 req_data_result, round, air, faults, observers>>

CopyHigh ==
  /\ pc = "copyHigh"
  /\ report' = [report EXCEPT ![i].high = current_hk[i].high]
  /\ IF i < N THEN i' = i + 1 /\ pc' = "copyLow" ELSE i' = 1 /\ pc' = "send"
  /\ UNCHANGED <<current_hk, hk_updated, can_hk_fifo, parameter_count,
                 req_data_result, round, air, faults, observers>>

(* The report goes into hk_to_obc_fifo (see TcRouting).                      *)
SendHkAsTm ==
  /\ pc = "send"
  /\ pc' = "idle"
  /\ UNCHANGED <<current_hk, hk_updated, can_hk_fifo, i, parameter_count,
                 req_data_result, report, round, air, faults, observers>>

Task ==
  \/ StartRound \/ RequestHousekeeping \/ ResetUpdated
  \/ Collect \/ CollectTimeout \/ CheckUpdated \/ RequestMissing
  \/ StoreLow \/ StoreHigh \/ CopyLow \/ CopyHigh \/ SendHkAsTm

Next == Task \/ StoreCanMsg \/ MessageLost

Spec == Init /\ [][Next]_vars

(* The task never ends; a message that is not lost arrives.                  *)
FairSpec == Spec /\ WF_vars(Task) /\ WF_vars(StoreCanMsg)

-----------------------------------------------------------------------------
TypeOK ==
  /\ current_hk \in [Params -> [low : Bytes, high : Bytes]]
  /\ report \in [Params -> [low : Bytes, high : Bytes]]
  /\ hk_updated \in [Params -> 0 .. 1]
  /\ can_hk_fifo \in Seq(Messages) /\ Len(can_hk_fifo) <= HkFifoLength
  /\ air \in Seq(Messages)
  /\ pc \in {"idle", "ask", "reset", "collect", "check", "missing", "storeLow",
             "storeHigh", "copyLow", "copyHigh", "send"}
  /\ i \in IF pc = "ask" THEN DOMAIN Ssms ELSE Params
  /\ parameter_count \in 0 .. N
  /\ pc = "collect" => parameter_count > 0
  /\ req_data_result \in Results
  /\ round \in 0 .. MaxRounds /\ (pc # "idle" => round > 0)
  /\ losses \in 0 .. MaxLosses /\ lates \in 0 .. MaxLates
  /\ behind \in Nat /\ tardy \in Nat

Sent == {p \in Params : \E s \in DOMAIN Ssms : \E k \in DOMAIN Ssms[s] : Ssms[s][k] = p}

(* Without losses and with waits that are long enough, a report carries the   *)
(* values measured in its own round, both bytes of each: no mark is reset     *)
(* after its message, and no answer is overwritten by a fallback.             *)
ReportsThisRound ==
  pc = "send" /\ losses = 0 /\ lates = 0
    => \A p \in Sent : report[p] = Pair(round)

(* The queue and the counters of a round keep their bounds (a round that waits *)
(* waits for something), and an undisturbed report is of its round.           *)
HousekeepingInv == TypeOK /\ ReportsThisRound

(* A parameter's value in current_hk is never replaced by an older one, even   *)
(* when messages of earlier rounds are still in can_hk_fifo.                  *)
NeverOlder ==
  [][\A p \in Params : \A b \in {"low", "high"} :
       current_hk[p][b] > 0 /\ current_hk'[p][b] > 0
         => current_hk[p][b] <= current_hk'[p][b]]_vars

(* The messages a wait left behind are made up for: a round whose own wait is  *)
(* long enough leaves at least one message less than it found.  (The count    *)
(* includes the OBC's parameter, for which no message comes.)                 *)
BacklogShrinks ==
  pc = "idle" /\ tardy = 0 => Backlog <= IF behind > 0 THEN behind - 1 ELSE 0

(* Every round ends, whatever is lost (FairSpec).                             *)
RoundsEnd == pc # "idle" ~> pc = "idle"
=============================================================================

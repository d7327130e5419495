------------------------ MODULE SensorRequestProofs ------------------------
(***************************************************************************)
(* Proofs about SensorRequest, for any tasks, sensors, values and numbers   *)
(* of calls, losses and late answers.  For every sender but housekeeping:   *)
(* each answer is used for at most one call, a value lags behind by no more *)
(* calls than gave up too early, and without such a call every value is     *)
(* one's own.  Housekeeping reads answers of scheduling and never goes back.*)
(***************************************************************************)
EXTENDS SensorRequest, SequenceTheorems, FiniteSetTheorems, TLAPS

-----------------------------------------------------------------------------
(* The inductive invariant.                                                  *)

IsGet(m) == m.kind = "get"

(* The numbers of the calls with this id that are still to be answered.       *)
Coming(id) ==
  {toSsm[k].n : k \in {j \in DOMAIN toSsm : IsGet(toSsm[j]) /\ toSsm[j].sender = id}}
    \cup {toObc[k].n : k \in {j \in DOMAIN toObc : toObc[j].to = id}}

(* The last call with this id for which an answer was asked.                  *)
Asked(id) == call.sender = id /\ pc \in {"wait", "name", "value", "clear"}
Newest(id) == IF Asked(id) THEN CallNumber(id) ELSE Len(results[id])

(* Requests and their answers stay in the order of the calls.                 *)
BusInOrder ==
  /\ \A j, k \in DOMAIN toSsm :
       j < k /\ IsGet(toSsm[j]) /\ IsGet(toSsm[k]) /\ toSsm[j].sender = toSsm[k].sender
         => toSsm[j].n < toSsm[k].n
  /\ \A j, k \in DOMAIN toObc :
       j < k /\ toObc[j].to = toObc[k].to => toObc[j].n < toObc[k].n
  /\ \A j \in DOMAIN toObc, k \in DOMAIN toSsm :
       IsGet(toSsm[k]) /\ toObc[j].to = toSsm[k].sender => toObc[j].n < toSsm[k].n

(* What is still to come is newer than the register and was asked for.        *)
RegisterOldest ==
  \A id \in Senders :
    /\ \A n \in Coming(id) : data_receive[id].n < n /\ n <= Newest(id)
    /\ data_receive[id].n <= Newest(id)

(* Only the housekeeping branch clears a flag that is not its own.            *)
FlagSeen ==
  pc \in {"name", "value"} /\ call.sender # Hk => data_receivedf[call.sender] = 1

(* The register holds an answer newer than those used, if its flag is set.    *)
Fresh(id, n) == \A k \in Obtained(id) : results[id][k].got.n < n
UsedAreOlder ==
  \A id \in ExceptHk :
    /\ \A k \in Obtained(id) : results[id][k].got.n <= data_receive[id].n
    /\ data_receivedf[id] = 1 => Fresh(id, data_receive[id].n)

(* So does the caller about to return, and the register is not older.         *)
Returning == pc = "clear" /\ call.sender # Hk
GotIsFresh ==
  Returning => /\ Fresh(call.sender, call.got.n)
               /\ call.got.n <= data_receive[call.sender].n

(* No answer that may still be used lags behind by more than the late calls.  *)
InLag(id, n) == CallNumber(id) - n <= LateCount(results[id])
LagKept ==
  /\ \A id \in ExceptHk :
       /\ \A n \in Coming(id) : InLag(id, n)
       /\ data_receivedf[id] = 1 => InLag(id, data_receive[id].n)
  /\ Returning => InLag(call.sender, call.got.n)

(* The answer to the call under way is about its sensor, and nothing can       *)
(* change the variable any more: the request was the last message.            *)
OwnRequest ==
  \A k \in DOMAIN toSsm :
    pc # "idle" /\ IsGet(toSsm[k]) /\ toSsm[k].sender = call.sender
    /\ toSsm[k].n = CallNumber(call.sender)
      => k = Len(toSsm) /\ toSsm[k].sensor = call.sensor
TrueIfOwn(a) ==
  a.n = CallNumber(call.sender) =>
    toSsm = <<>> /\ a.sensor = call.sensor /\ ssm[a.sensor] = a.value
OwnAnswerTrue ==
  pc # "idle" =>
    /\ \A k \in DOMAIN toObc : toObc[k].to = call.sender => TrueIfOwn(toObc[k])
    /\ TrueIfOwn(data_receive[call.sender])
    /\ Returning => TrueIfOwn(call.got)

(* InStep, sender by sender.                                                 *)
OwnResults ==
  \A id \in ExceptHk : LateCount(results[id]) = 0 =>
    \A k \in DOMAIN results[id] :
      /\ results[id][k].outcome # "mismatch"
      /\ results[id][k].outcome = "value" =>
           results[id][k].got.n = k /\ results[id][k].got.sensor = results[id][k].sensor

(* What housekeeping used, or is about to return, is no newer than what is in  *)
(* the register of scheduling.                                               *)
HkKept ==
  /\ \A k \in Obtained(Hk) : results[Hk][k].got.n <= data_receive[Sched].n
  /\ pc = "clear" /\ call.sender = Hk =>
       /\ call.got.to = Sched /\ call.got.n <= data_receive[Sched].n
       /\ \A k \in Obtained(Hk) : results[Hk][k].got.n <= call.got.n

OrderInv == BusInOrder /\ RegisterOldest /\ FlagSeen
UseInv == UsedAreOlder /\ GotIsFresh /\ UsedOnceInOrder
HkInv == HkKept /\ HkReadsSched
LagInv == LagKept /\ LagBounded
OwnInv == OwnRequest /\ OwnAnswerTrue /\ OwnResults
Inv == TypeOK /\ OrderInv /\ UseInv /\ HkInv /\ LagInv /\ OwnInv

-----------------------------------------------------------------------------
(* Type correctness.                                                         *)

(* What is known of a call while it holds the mutex.                          *)
LEMMA CallerInside ==
  ASSUME TypeOK, pc # "idle"
  PROVE  /\ call.sender \in Callers /\ call.sender \in Senders
         /\ call.sensor \in Sensors /\ call.sensor # NoSensor
         /\ results[call.sender] \in Seq(Results)
         /\ CallNumber(call.sender) \in Nat \ {0}
<1>1. call.sender \in Callers /\ call.sender \in Senders
  BY ConstantsOK DEF TypeOK, Calls
<1>2. results[call.sender] \in Seq(Results)
  BY <1>1 DEF TypeOK
<1>3. Len(results[call.sender]) \in Nat
  BY <1>2
<1> QED BY <1>1, <1>2, <1>3, ConstantsOK DEF TypeOK, CallNumber

(* The ranges hold at the start.                                              *)
LEMMA TypeInit == Init => TypeOK
BY ConstantsOK DEF Init, TypeOK, NoCall, Blank, Answer, Calls, AnswersTo, Kinds

(* Taking the mutex keeps the ranges.                                         *)
LEMMA MutexTaken ==
  ASSUME TypeOK, RequestSensorData \/ SetVariable
  PROVE  TypeOK'
<1>1. PICK id \in Callers, c \in Calls, next \in {"request", "set"} :
        /\ TakeMutex(id, c, next) /\ Len(results[id]) < MaxCalls[id]
        /\ c.sender = id /\ c.sensor \in Sensors
  <2>1. CASE RequestSensorData
    <3>1. PICK id \in Callers, s \in Sensors :
            /\ Len(results[id]) < MaxCalls[id]
            /\ TakeMutex(id, [NoCall EXCEPT !.sender = id, !.sensor = s], "request")
      BY <2>1 DEF RequestSensorData
    <3>2. [NoCall EXCEPT !.sender = id, !.sensor = s] \in Calls
      BY <3>1, ConstantsOK DEF NoCall, Calls, Blank, Answer, AnswersTo, Kinds
    <3> QED BY <3>1, <3>2 DEF NoCall
  <2>2. CASE SetVariable
    <3>1. PICK id \in Callers, s \in Sensors, v \in Values :
            /\ Len(results[id]) < MaxCalls[id]
            /\ TakeMutex(id, [NoCall EXCEPT !.sender = id, !.kind = "set", !.sensor = s,
                                            !.value = v], "set")
      BY <2>2 DEF SetVariable
    <3>2. [NoCall EXCEPT !.sender = id, !.kind = "set", !.sensor = s,
                         !.value = v] \in Calls
      BY <3>1, ConstantsOK DEF NoCall, Calls, Blank, Answer, AnswersTo, Kinds
    <3> QED BY <3>1, <3>2 DEF NoCall
  <2> QED BY <2>1, <2>2
<1>2. id # Free
  BY ConstantsOK
<1>3. /\ Can0_Mutex' = id /\ call' = c /\ pc' = next
      /\ UNCHANGED <<data_receivedf, data_receive, toSsm, toObc, ssm, losses, results>>
  BY <1>1 DEF TakeMutex, registers, bus
<1> QED BY <1>1, <1>2, <1>3 DEF TypeOK

(* A message is put at the end of the bus, or lost.                           *)
LEMMA Sent ==
  ASSUME TypeOK, NEW m \in Messages, Send(m)
  PROVE  /\ toSsm' \in Seq(Messages) /\ losses' \in 0 .. MaxLosses
         /\ \/ toSsm' = toSsm
            \/ /\ toSsm' = Append(toSsm, m) /\ Len(toSsm') = Len(toSsm) + 1
               /\ toSsm'[Len(toSsm) + 1] = m
               /\ \A k \in 1 .. Len(toSsm) : toSsm'[k] = toSsm[k]
<1>1. toSsm \in Seq(Messages) /\ losses \in 0 .. MaxLosses /\ MaxLosses \in Nat
  BY ConstantsOK DEF TypeOK
<1>2. CASE toSsm' = Append(toSsm, m) /\ UNCHANGED losses
  BY <1>1, <1>2, AppendProperties
<1>3. CASE losses < MaxLosses /\ losses' = losses + 1 /\ UNCHANGED toSsm
  BY <1>1, <1>3
<1> QED BY <1>2, <1>3 DEF Send

(* Sending a message keeps the ranges.                                        *)
LEMMA TypeBySending ==
  ASSUME TypeOK, SendSetVar \/ SendReqData
  PROVE  TypeOK'
<1>1. pc \in {"set", "request"} /\ pc' \in {"request", "wait"}
      /\ UNCHANGED <<Can0_Mutex, call, data_receivedf, data_receive, toObc, ssm, results>>
  BY DEF SendSetVar, SendReqData, registers
<1>2. /\ call.sender \in Callers /\ call.sensor \in Sensors /\ call.value \in Values
      /\ CallNumber(call.sender) \in Nat
  BY <1>1, CallerInside DEF TypeOK, Calls
<1>3. PICK m \in Messages : Send(m)
  BY <1>2, ConstantsOK DEF SendSetVar, SendReqData, Messages, Kinds
<1>4. toSsm' \in Seq(Messages) /\ losses' \in 0 .. MaxLosses
  BY <1>3, Sent
<1> QED BY <1>1, <1>4 DEF TypeOK

(* What an SSM does keeps the ranges.                                         *)
LEMMA TypeBySsm ==
  ASSUME TypeOK, SsmTakes
  PROVE  TypeOK'
<1>1. /\ toSsm \in Seq(Messages) /\ toSsm # <<>> /\ toSsm' = Tail(toSsm)
      /\ ssm \in [Sensors -> Values] /\ toObc \in Seq(AnswersTo(Callers))
      /\ UNCHANGED <<Can0_Mutex, pc, call, data_receivedf, data_receive, losses, results>>
  BY DEF TypeOK, SsmTakes, registers
<1>2. Head(toSsm) \in Messages /\ toSsm' \in Seq(Messages)
  BY <1>1
<1> DEFINE m == Head(toSsm)
           a == Answer(m.sender, m.sensor, ssm[m.sensor], m.n)
<1>3. m.sender \in Callers /\ m.sensor \in Sensors /\ m.value \in Values /\ m.n \in Nat
  BY <1>2 DEF Messages
<1>4. a \in AnswersTo(Callers) /\ [ssm EXCEPT ![m.sensor] = m.value] \in [Sensors -> Values]
  BY <1>1, <1>3 DEF Answer, AnswersTo
<1>5. Append(toObc, a) \in Seq(AnswersTo(Callers))
  BY <1>1, <1>4, AppendProperties
<1>6. /\ toObc' \in {toObc, Append(toObc, a)}
      /\ ssm' \in {ssm, [ssm EXCEPT ![m.sensor] = m.value]}
  BY DEF SsmTakes
<1>7. toObc' \in Seq(AnswersTo(Callers)) /\ ssm' \in [Sensors -> Values]
  BY <1>1, <1>4, <1>5, <1>6
<1> QED BY <1>1, <1>2, <1>7 DEF TypeOK

(* The first answer on the bus and the others.                                *)
LEMMA FirstAnswer ==
  ASSUME TypeOK, toObc # <<>>, toObc' = Tail(toObc)
  PROVE  /\ toObc' \in Seq(AnswersTo(Callers)) /\ Head(toObc) \in AnswersTo(Callers)
         /\ Head(toObc) = toObc[1] /\ 1 \in DOMAIN toObc
         /\ Head(toObc).to \in Senders
         /\ \A k \in DOMAIN toObc' : k + 1 \in DOMAIN toObc /\ k \in Nat \ {0}
                                     /\ toObc'[k] = toObc[k + 1]
<1>1. toObc \in Seq(AnswersTo(Callers))
  BY DEF TypeOK
<1>2. /\ toObc' \in Seq(AnswersTo(Callers)) /\ Head(toObc) \in AnswersTo(Callers)
      /\ Head(toObc) = toObc[1] /\ 1 \in DOMAIN toObc
      /\ \A k \in DOMAIN toObc' : k + 1 \in DOMAIN toObc /\ k \in Nat \ {0}
                                  /\ toObc'[k] = toObc[k + 1]
  BY <1>1
<1>3. Head(toObc).to \in Senders
  BY <1>2, ConstantsOK DEF AnswersTo
<1> QED BY <1>2, <1>3

(* The interrupt, or the loss of an answer, keeps the ranges.                 *)
LEMMA TypeByAnswer ==
  ASSUME TypeOK, AlertCanData \/ AnswerLost
  PROVE  TypeOK'
<1>1. /\ toObc # <<>> /\ toObc' = Tail(toObc)
      /\ UNCHANGED <<Can0_Mutex, pc, call, toSsm, ssm, results>>
  BY DEF AlertCanData, AnswerLost
<1>2. /\ toObc' \in Seq(AnswersTo(Callers)) /\ Head(toObc) \in AnswersTo(Callers)
      /\ Head(toObc).to \in Senders
  BY <1>1, FirstAnswer
<1>3. CASE AlertCanData
  <2> DEFINE a == Head(toObc)
  <2>1. a \in AnswersTo(Senders) /\ a.to \in Senders
    BY <1>2, ConstantsOK DEF AnswersTo
  <2>2. /\ data_receivedf' = [data_receivedf EXCEPT ![a.to] = 1]
        /\ data_receive' = [data_receive EXCEPT ![a.to] = a] /\ losses' = losses
    BY <1>3 DEF AlertCanData
  <2> HIDE DEF a
  <2>3. /\ data_receivedf' \in [Senders -> 0 .. 1]
        /\ data_receive' \in [Senders -> AnswersTo(Senders)]
        /\ \A id \in Senders : data_receive'[id].to = id
    BY <2>1, <2>2 DEF TypeOK
  <2> QED BY <1>1, <1>2, <2>2, <2>3 DEF TypeOK
<1>4. CASE AnswerLost
  BY <1>1, <1>2, <1>4, ConstantsOK DEF AnswerLost, TypeOK, registers
<1> QED BY <1>3, <1>4

(* A call that returns leaves one result more and nothing else of itself.     *)
LEMMA Returned ==
  ASSUME TypeOK, pc # "idle", NEW o \in {"lost", "late", "mismatch", "value"}, Return(o)
  PROVE  /\ UNCHANGED <<toSsm, toObc, ssm, losses>> /\ Can0_Mutex' = Free
         /\ pc' = "idle" /\ call' = NoCall
         /\ results' \in [Senders -> Seq(Results)]
         /\ \A id \in Senders : id # call.sender => results'[id] = results[id]
         /\ LET r == [outcome |-> o, sensor |-> call.sensor, got |-> call.got]
                rs == results[call.sender] IN
            /\ r \in Results /\ results'[call.sender] = Append(rs, r)
            /\ Len(results'[call.sender]) = Len(rs) + 1
            /\ results'[call.sender][Len(rs) + 1] = r
            /\ \A k \in 1 .. Len(rs) : results'[call.sender][k] = rs[k]
<1> DEFINE r == [outcome |-> o, sensor |-> call.sensor, got |-> call.got]
           rs == results[call.sender]
<1>1. call.sender \in Senders /\ rs \in Seq(Results) /\ call.sensor \in Sensors
  BY CallerInside
<1>2. r \in Results
  BY <1>1 DEF TypeOK, Calls, Results
<1>3. results' = [results EXCEPT ![call.sender] = Append(rs, r)]
  BY DEF Return
<1> HIDE DEF r
<1>4. /\ Append(rs, r) \in Seq(Results) /\ Len(Append(rs, r)) = Len(rs) + 1
      /\ Append(rs, r)[Len(rs) + 1] = r
      /\ \A k \in 1 .. Len(rs) : Append(rs, r)[k] = rs[k]
  BY <1>1, <1>2, AppendProperties
<1> HIDE DEF rs
<1>5. /\ results' \in [Senders -> Seq(Results)] /\ results'[call.sender] = Append(rs, r)
      /\ \A id \in Senders : id # call.sender => results'[id] = results[id]
  BY <1>1, <1>3, <1>4 DEF TypeOK
<1> QED BY <1>2, <1>4, <1>5 DEF Return, bus, r, rs

(* The end of a call keeps the ranges.                                        *)
LEMMA TypeByReturn ==
  ASSUME TypeOK, pc # "idle", NEW o \in {"lost", "late", "mismatch", "value"}, Return(o),
         ClearFlag \/ UNCHANGED registers
  PROVE  TypeOK'
<1>1. /\ UNCHANGED <<toSsm, toObc, ssm, losses>> /\ Can0_Mutex' = Free
      /\ pc' = "idle" /\ call' = NoCall
      /\ results' \in [Senders -> Seq(Results)]
      /\ \A id \in Senders : id # call.sender => results'[id] = results[id]
      /\ Len(results'[call.sender]) = Len(results[call.sender]) + 1
  BY Returned
<1>2. NoCall \in Calls /\ NoCall.sender = Free
  BY ConstantsOK DEF NoCall, Calls, Blank, Answer, AnswersTo, Kinds
<1>3. /\ data_receivedf' \in [Senders -> 0 .. 1] /\ UNCHANGED data_receive
  <2>1. ValueRegister(call.sender) \in Senders
    BY CallerInside, ConstantsOK DEF ValueRegister
  <2>2. CASE ClearFlag
    <3>1. [data_receivedf EXCEPT ![ValueRegister(call.sender)] = 0] \in [Senders -> 0 .. 1]
      BY <2>1 DEF TypeOK
    <3> QED BY <2>2, <3>1 DEF ClearFlag
  <2>3. CASE UNCHANGED registers
    BY <2>3 DEF registers, TypeOK
  <2> QED BY <2>2, <2>3
<1>4. \A id \in Callers : Len(results'[id]) <= MaxCalls[id]
  <2> SUFFICES ASSUME NEW id \in Callers PROVE Len(results'[id]) <= MaxCalls[id]
    OBVIOUS
  <2>1. /\ id \in Senders /\ MaxCalls[id] \in Nat /\ Len(results[id]) \in Nat
        /\ Len(results[id]) <= MaxCalls[id]
    BY ConstantsOK DEF TypeOK
  <2>2. CASE id = call.sender
    <3>1. Len(results[id]) < MaxCalls[id]
      BY <2>2 DEF TypeOK
    <3> QED BY <1>1, <2>1, <2>2, <3>1
  <2>3. CASE id # call.sender
    BY <1>1, <2>1, <2>3
  <2> QED BY <2>2, <2>3
<1> QED BY <1>1, <1>2, <1>3, <1>4 DEF TypeOK

(* Every step keeps the ranges.                                               *)
LEMMA TypeNext == TypeOK /\ [Next]_vars => TypeOK'
<1> SUFFICES ASSUME TypeOK, [Next]_vars PROVE TypeOK'
  OBVIOUS
<1>1. CASE RequestSensorData \/ SetVariable
  BY <1>1, MutexTaken
<1>2. CASE SendSetVar \/ SendReqData
  BY <1>2, TypeBySending
<1>3. CASE SsmTakes
  BY <1>3, TypeBySsm
<1>4. CASE AlertCanData \/ AnswerLost
  BY <1>4, TypeByAnswer
<1>5. CASE Timeout
  BY <1>5, TypeByReturn DEF Timeout
<1>6. CASE SeeFlag
  BY <1>6 DEF SeeFlag, TypeOK, registers, bus
<1>7. CASE CheckName
  <2>1. CASE ClearFlag /\ Return("mismatch")
    BY <1>7, <2>1, TypeByReturn DEF CheckName
  <2>2. CASE pc' = "value" /\ UNCHANGED <<Can0_Mutex, call, registers, bus, results>>
    BY <1>7, <2>2 DEF CheckName, TypeOK, registers, bus
  <2> QED BY <1>7, <2>1, <2>2 DEF CheckName
<1>8. CASE TakeValue
  <2>1. /\ pc = "value" /\ pc' = "clear"
        /\ call' = [call EXCEPT !.got = data_receive[ValueRegister(call.sender)]]
        /\ UNCHANGED <<Can0_Mutex, registers, bus, results>>
    BY <1>8 DEF TakeValue
  <2>2. data_receive[ValueRegister(call.sender)] \in AnswersTo(Senders)
    BY <2>1, CallerInside, ConstantsOK DEF TypeOK, ValueRegister
  <2>3. data_receive[ValueRegister(call.sender)] \in AnswersTo(Senders \cup {Free})
    BY <2>2 DEF AnswersTo
  <2>4. call' \in Calls /\ call'.sender = call.sender /\ call'.sensor = call.sensor
    BY <2>1, <2>3 DEF TypeOK, Calls
  <2> QED BY <2>1, <2>4 DEF TypeOK, registers, bus
<1>9. CASE ReturnValue
  BY <1>9, TypeByReturn DEF ReturnValue
<1>10. CASE UNCHANGED vars
  BY <1>10 DEF vars, TypeOK, registers, bus
<1> QED BY <1>1, <1>2, <1>3, <1>4, <1>5, <1>6, <1>7, <1>8, <1>9, <1>10
        DEF Next, Caller, Bus

-----------------------------------------------------------------------------
(* Numbers in order.                                                         *)

(* The numbers of the requests and answers under way are naturals.            *)
LEMMA ComingNumbers ==
  ASSUME TypeOK, NEW id \in Senders
  PROVE  /\ Newest(id) \in Nat /\ Len(results[id]) \in Nat
         /\ CallNumber(id) = Len(results[id]) + 1
         /\ data_receive[id].n \in Nat
         /\ \A n \in Coming(id) : n \in Nat
         /\ \A k \in DOMAIN toSsm :
              /\ toSsm[k].n \in Nat /\ toSsm[k].sender \in Senders
              /\ IsGet(toSsm[k]) /\ toSsm[k].sender = id => toSsm[k].n \in Coming(id)
         /\ \A k \in DOMAIN toObc :
              /\ toObc[k].n \in Nat /\ toObc[k].to \in Senders
              /\ toObc[k].to = id => toObc[k].n \in Coming(id)
<1>1. results[id] \in Seq(Results) /\ Len(results[id]) \in Nat
  BY DEF TypeOK
<1>2. \A k \in DOMAIN toSsm : toSsm[k].n \in Nat /\ toSsm[k].sender \in Senders
  <2>1. \A k \in DOMAIN toSsm : toSsm[k] \in Messages
    BY DEF TypeOK
  <2> QED BY <2>1, ConstantsOK DEF Messages
<1>3. \A k \in DOMAIN toObc : toObc[k].n \in Nat /\ toObc[k].to \in Senders
  <2>1. \A k \in DOMAIN toObc : toObc[k] \in AnswersTo(Callers)
    BY DEF TypeOK
  <2> QED BY <2>1, ConstantsOK DEF AnswersTo
<1>4. data_receive[id].n \in Nat
  BY DEF TypeOK, AnswersTo
<1> QED BY <1>1, <1>2, <1>3, <1>4 DEF Newest, CallNumber, Coming

(* A number is under way when a request or an answer carries it.              *)
LEMMA ComingFrom ==
  ASSUME NEW id, NEW n
  PROVE  /\ n \in Coming(id) <=>
              \/ \E k \in DOMAIN toSsm :
                   IsGet(toSsm[k]) /\ toSsm[k].sender = id /\ toSsm[k].n = n
              \/ \E k \in DOMAIN toObc : toObc[k].to = id /\ toObc[k].n = n
         /\ n \in Coming(id)' <=>
              \/ \E k \in DOMAIN toSsm' :
                   IsGet(toSsm'[k]) /\ toSsm'[k].sender = id /\ toSsm'[k].n = n
              \/ \E k \in DOMAIN toObc' : toObc'[k].to = id /\ toObc'[k].n = n
BY DEF Coming

(* Nothing is under way at the start.                                         *)
LEMMA OrderInit == Init => OrderInv
BY DEF Init, OrderInv, BusInOrder, RegisterOldest, FlagSeen, Coming, Newest, Asked,
       Blank, Answer

(* A message goes to the end of the bus, a request with the number of its call. *)
LEMMA SendStep ==
  ASSUME TypeOK, SendSetVar \/ SendReqData
  PROVE  /\ pc \in {"set", "request"} /\ pc' \in {"request", "wait"}
         /\ UNCHANGED <<call, data_receivedf, data_receive, toObc, ssm, results>>
         /\ call.sender \in Senders
         /\ Len(toSsm) \in Nat /\ DOMAIN toSsm = 1 .. Len(toSsm)
         /\ DOMAIN toSsm' = 1 .. Len(toSsm')
         /\ \E m \in Messages :
              /\ IsGet(m) => /\ m.sender = call.sender /\ m.n = CallNumber(call.sender)
                             /\ m.sensor = call.sensor /\ pc' = "wait"
              /\ \A k \in DOMAIN toSsm' :
                   \/ k \in DOMAIN toSsm /\ toSsm'[k] = toSsm[k]
                   \/ k = Len(toSsm) + 1 /\ Len(toSsm') = k /\ toSsm'[k] = m
<1> DEFINE s == call.sender
<1>1. /\ pc \in {"set", "request"} /\ pc' \in {"request", "wait"}
      /\ UNCHANGED <<call, data_receivedf, data_receive, toObc, ssm, results>>
  BY DEF SendSetVar, SendReqData, registers
<1>2. /\ s \in Callers /\ s \in Senders /\ call.sensor \in Sensors
      /\ CallNumber(s) \in Nat /\ call.value \in Values
  BY <1>1, CallerInside DEF TypeOK, Calls
<1>3. PICK m \in Messages :
        /\ Send(m)
        /\ IsGet(m) => /\ m.sender = s /\ m.n = CallNumber(s) /\ m.sensor = call.sensor
                       /\ pc' = "wait"
  <2>1. CASE SendSetVar
    <3>1. [kind |-> "set", sender |-> s, sensor |-> call.sensor,
           value |-> call.value, n |-> CallNumber(s)] \in Messages
      BY <1>2 DEF Messages, Kinds
    <3> QED BY <2>1, <3>1 DEF SendSetVar, IsGet
  <2>2. CASE SendReqData
    <3>1. [kind |-> "get", sender |-> s, sensor |-> call.sensor,
           value |-> Initial, n |-> CallNumber(s)] \in Messages
      BY <1>2, ConstantsOK DEF Messages, Kinds
    <3> QED BY <2>2, <3>1 DEF SendReqData, IsGet
  <2> QED BY <2>1, <2>2
<1>4. \/ toSsm' = toSsm
      \/ /\ Len(toSsm') = Len(toSsm) + 1
         /\ toSsm'[Len(toSsm) + 1] = m
         /\ \A k \in 1 .. Len(toSsm) : toSsm'[k] = toSsm[k]
  BY <1>3, Sent
<1>5. toSsm \in Seq(Messages) /\ Len(toSsm) \in Nat /\ toSsm' \in Seq(Messages)
      /\ DOMAIN toSsm = 1 .. Len(toSsm) /\ DOMAIN toSsm' = 1 .. Len(toSsm')
  <2>1. toSsm \in Seq(Messages) /\ toSsm' \in Seq(Messages)
    BY <1>3, Sent DEF TypeOK
  <2> QED BY <2>1
<1>6. \A k \in DOMAIN toSsm' :
        \/ k \in DOMAIN toSsm /\ toSsm'[k] = toSsm[k]
        \/ k = Len(toSsm) + 1 /\ Len(toSsm') = k /\ toSsm'[k] = m
  <2>1. CASE toSsm' = toSsm
    BY <2>1
  <2>2. CASE /\ Len(toSsm') = Len(toSsm) + 1
             /\ toSsm'[Len(toSsm) + 1] = m
             /\ \A k \in 1 .. Len(toSsm) : toSsm'[k] = toSsm[k]
    <3>1. \A k \in 1 .. Len(toSsm) + 1 : k \in 1 .. Len(toSsm) \/ k = Len(toSsm) + 1
      BY <1>5
    <3> QED BY <1>5, <2>2, <3>1
  <2> QED BY <1>4, <2>1, <2>2
<1> QED BY <1>1, <1>2, <1>3, <1>5, <1>6

(* Sending adds the number of the call that sends, at most.                   *)
LEMMA ComingBySending ==
  ASSUME TypeOK, SendSetVar \/ SendReqData, NEW id \in Senders, NEW n \in Coming(id)'
  PROVE  n \in Coming(id) \/ (id = call.sender /\ n = CallNumber(id) /\ pc' = "wait")
<1>1. UNCHANGED toObc
  BY SendStep
<1>2. PICK m \in Messages :
        /\ IsGet(m) => m.sender = call.sender /\ m.n = CallNumber(call.sender) /\ pc' = "wait"
        /\ \A k \in DOMAIN toSsm' :
             (k \in DOMAIN toSsm /\ toSsm'[k] = toSsm[k]) \/ toSsm'[k] = m
  BY SendStep
<1>3. CASE \E k \in DOMAIN toObc' : toObc'[k].to = id /\ toObc'[k].n = n
  BY <1>1, <1>3, ComingFrom
<1>4. CASE \E k \in DOMAIN toSsm' :
             IsGet(toSsm'[k]) /\ toSsm'[k].sender = id /\ toSsm'[k].n = n
  <2>1. PICK k \in DOMAIN toSsm' :
          IsGet(toSsm'[k]) /\ toSsm'[k].sender = id /\ toSsm'[k].n = n
    BY <1>4
  <2>2. CASE k \in DOMAIN toSsm /\ toSsm'[k] = toSsm[k]
    BY <2>1, <2>2, ComingFrom
  <2>3. CASE toSsm'[k] = m
    BY <1>2, <2>1, <2>3
  <2> QED BY <1>2, <2>2, <2>3
<1> QED BY <1>3, <1>4, ComingFrom

(* A request is the newest of its sender.                                     *)
LEMMA OrderBySending ==
  ASSUME TypeOK, OrderInv, SendSetVar \/ SendReqData
  PROVE  OrderInv'
<1> DEFINE s == call.sender
<1>1. /\ pc \in {"set", "request"} /\ pc' \in {"request", "wait"}
      /\ UNCHANGED <<call, data_receivedf, data_receive, toObc, results>>
  BY SendStep
<1>2. s \in Senders
  BY SendStep
<1>3. PICK m \in Messages :
        /\ IsGet(m) => m.sender = s /\ m.n = CallNumber(s) /\ pc' = "wait"
        /\ \A k \in DOMAIN toSsm' :
             \/ k \in DOMAIN toSsm /\ toSsm'[k] = toSsm[k]
             \/ k = Len(toSsm) + 1 /\ toSsm'[k] = m
  BY SendStep
<1>4. /\ Len(toSsm) \in Nat /\ DOMAIN toSsm = 1 .. Len(toSsm)
      /\ DOMAIN toSsm' = 1 .. Len(toSsm')
  BY SendStep
<1>5. \A k \in DOMAIN toSsm' :
        \/ k \in DOMAIN toSsm /\ toSsm'[k] = toSsm[k]
        \/ k = Len(toSsm) + 1 /\ toSsm'[k] = m
  BY <1>3
<1>6. Newest(s) = Len(results[s]) /\ CallNumber(s) = Len(results[s]) + 1
  BY <1>1 DEF Newest, Asked, CallNumber
<1>7. \A n \in Coming(s) : n < CallNumber(s)
  <2>1. \A n \in Coming(s) : n \in Nat /\ n <= Len(results[s])
    BY <1>2, <1>6, ComingNumbers DEF OrderInv, RegisterOldest
  <2>2. Len(results[s]) \in Nat
    BY <1>2, ComingNumbers
  <2> QED BY <1>6, <2>1, <2>2
<1>8. BusInOrder'
  <2>1. \A j, k \in DOMAIN toSsm' :
          j < k /\ IsGet(toSsm'[j]) /\ IsGet(toSsm'[k])
            /\ toSsm'[j].sender = toSsm'[k].sender => toSsm'[j].n < toSsm'[k].n
    <3> SUFFICES ASSUME NEW j \in DOMAIN toSsm', NEW k \in DOMAIN toSsm',
                        j < k, IsGet(toSsm'[j]), IsGet(toSsm'[k]),
                        toSsm'[j].sender = toSsm'[k].sender
                 PROVE  toSsm'[j].n < toSsm'[k].n
      OBVIOUS
    <3>1. j \in DOMAIN toSsm /\ toSsm'[j] = toSsm[j]
      <4>1. j \in Int /\ k \in Int /\ k <= Len(toSsm) + 1
        BY <1>4, <1>5
      <4>2. j # Len(toSsm) + 1
        BY <1>4, <4>1
      <4> QED BY <1>5, <4>2
    <3>2. CASE k \in DOMAIN toSsm /\ toSsm'[k] = toSsm[k]
      BY <3>1, <3>2 DEF OrderInv, BusInOrder
    <3>3. CASE toSsm'[k] = m
      <4>1. toSsm[j].n \in Coming(s)
        BY <1>2, <1>3, <3>1, <3>3, ComingNumbers
      <4> QED BY <1>3, <1>7, <3>1, <3>3, <4>1
    <3> QED BY <1>5, <3>2, <3>3
  <2>2. \A j \in DOMAIN toObc', k \in DOMAIN toSsm' :
          IsGet(toSsm'[k]) /\ toObc'[j].to = toSsm'[k].sender
            => toObc'[j].n < toSsm'[k].n
    <3> SUFFICES ASSUME NEW j \in DOMAIN toObc, NEW k \in DOMAIN toSsm',
                        IsGet(toSsm'[k]), toObc[j].to = toSsm'[k].sender
                 PROVE  toObc[j].n < toSsm'[k].n
      BY <1>1
    <3>1. CASE k \in DOMAIN toSsm /\ toSsm'[k] = toSsm[k]
      BY <3>1 DEF OrderInv, BusInOrder
    <3>2. CASE toSsm'[k] = m
      <4>1. toObc[j].n \in Coming(s)
        BY <1>2, <1>3, <3>2, ComingNumbers
      <4> QED BY <1>3, <1>7, <3>2, <4>1
    <3> QED BY <1>5, <3>1, <3>2
  <2> QED BY <1>1, <2>1, <2>2 DEF OrderInv, BusInOrder
<1>9. RegisterOldest'
  <2> SUFFICES ASSUME NEW id \in Senders
               PROVE  /\ \A n \in Coming(id)' : data_receive[id].n < n /\ n <= Newest(id)'
                      /\ data_receive[id].n <= Newest(id)'
    BY <1>1 DEF RegisterOldest
  <2>1. /\ Newest(id) \in Nat /\ Newest(id)' \in Nat /\ Newest(id) <= Newest(id)'
        /\ data_receive[id].n \in Nat /\ \A n \in Coming(id) : n \in Nat
    <3>1. /\ Newest(id) \in Nat /\ Len(results[id]) \in Nat
          /\ CallNumber(id) = Len(results[id]) + 1
          /\ data_receive[id].n \in Nat /\ \A n \in Coming(id) : n \in Nat
      BY ComingNumbers
    <3>2. Newest(id) = Len(results[id])
      BY <1>1 DEF Newest, Asked
    <3>3. Newest(id)' \in {CallNumber(id), Len(results[id])}
      BY <1>1 DEF Newest, CallNumber
    <3> QED BY <3>1, <3>2, <3>3
  <2>2. ASSUME NEW n \in Coming(id)'
        PROVE  n \in Coming(id) \/ (id = s /\ n = CallNumber(s) /\ pc' = "wait")
    BY <2>2, ComingBySending
  <2>3. /\ data_receive[id].n <= Newest(id)
        /\ \A n \in Coming(id) : data_receive[id].n < n /\ n <= Newest(id)
    BY DEF OrderInv, RegisterOldest
  <2>4. id = s /\ pc' = "wait" => Newest(id)' = CallNumber(s)
    BY <1>1 DEF Newest, Asked, CallNumber
  <2>5. data_receive[id].n <= Newest(id)'
    BY <2>1, <2>3
  <2>6. ASSUME NEW n \in Coming(id)'
        PROVE  data_receive[id].n < n /\ n <= Newest(id)'
    <3>1. CASE n \in Coming(id)
      BY <2>1, <2>3, <3>1
    <3>2. CASE id = s /\ n = CallNumber(s) /\ pc' = "wait"
      <4>1. data_receive[id].n <= Len(results[s]) /\ n = Len(results[s]) + 1
        BY <1>6, <2>3, <3>2
      <4>2. Len(results[s]) \in Nat
        BY <1>2, ComingNumbers
      <4> QED BY <2>1, <2>4, <3>2, <4>1, <4>2
    <3> QED BY <2>2, <2>6, <3>1, <3>2
  <2> QED BY <2>5, <2>6
<1> QED BY <1>1, <1>8, <1>9 DEF OrderInv, FlagSeen

(* An SSM answers in the order of the requests.                               *)
LEMMA SsmStep ==
  ASSUME TypeOK, SsmTakes
  PROVE  /\ toSsm # <<>> /\ Head(toSsm) = toSsm[1] /\ 1 \in DOMAIN toSsm
         /\ \A k \in DOMAIN toSsm' : k + 1 \in DOMAIN toSsm /\ k \in Nat \ {0}
                                     /\ toSsm'[k] = toSsm[k + 1]
         /\ LET m == Head(toSsm) IN
            \/ ~IsGet(m) /\ toObc' = toObc /\ ssm' = [ssm EXCEPT ![m.sensor] = m.value]
            \/ /\ IsGet(m) /\ ssm' = ssm
               /\ DOMAIN toObc = 1 .. Len(toObc) /\ Len(toObc) \in Nat
               /\ \A k \in DOMAIN toObc' :
                    \/ k \in DOMAIN toObc /\ toObc'[k] = toObc[k]
                    \/ k = Len(toObc) + 1
                         /\ toObc'[k] = Answer(m.sender, m.sensor, ssm[m.sensor], m.n)
<1>1. toSsm \in Seq(Messages) /\ toSsm # <<>> /\ toSsm' = Tail(toSsm)
  BY DEF TypeOK, SsmTakes
<1>2. /\ Head(toSsm) = toSsm[1] /\ 1 \in DOMAIN toSsm
      /\ \A k \in DOMAIN toSsm' : k + 1 \in DOMAIN toSsm /\ k \in Nat \ {0}
                                  /\ toSsm'[k] = toSsm[k + 1]
  BY <1>1
<1> DEFINE m == Head(toSsm)
           a == Answer(m.sender, m.sensor, ssm[m.sensor], m.n)
<1>3. m \in Messages
  BY <1>1
<1>4. CASE m.kind = "set"
  BY <1>1, <1>2, <1>4 DEF SsmTakes, IsGet
<1>5. CASE m.kind = "get"
  <2>1. toObc' = Append(toObc, a) /\ ssm' = ssm
    BY <1>5 DEF SsmTakes
  <2>2. toObc \in Seq(AnswersTo(Callers))
    BY DEF TypeOK
  <2>3. a \in AnswersTo(Callers)
    BY <1>3 DEF Messages, Answer, AnswersTo, TypeOK
  <2>4. \A k \in DOMAIN toObc' :
          \/ k \in DOMAIN toObc /\ toObc'[k] = toObc[k]
          \/ k = Len(toObc) + 1 /\ toObc'[k] = a
    BY <2>1, <2>2, <2>3, AppendProperties
  <2> QED BY <1>1, <1>2, <1>5, <2>1, <2>2, <2>4 DEF IsGet
<1> QED BY <1>3, <1>4, <1>5 DEF Messages, Kinds

(* An SSM answers in the order in which it was asked.                         *)
LEMMA OrderBySsm ==
  ASSUME TypeOK, OrderInv, SsmTakes
  PROVE  OrderInv' /\ \A id \in Senders : Coming(id)' \subseteq Coming(id)
<1> DEFINE m == Head(toSsm)
           a == Answer(m.sender, m.sensor, ssm[m.sensor], m.n)
<1>1. UNCHANGED <<pc, call, data_receivedf, data_receive, results>>
  BY DEF SsmTakes, registers
<1>2. /\ m = toSsm[1] /\ 1 \in DOMAIN toSsm
      /\ \A k \in DOMAIN toSsm' : k + 1 \in DOMAIN toSsm /\ k \in Nat \ {0}
                                  /\ toSsm'[k] = toSsm[k + 1]
  BY SsmStep
<1>3. \A k \in DOMAIN toObc' :
        \/ k \in DOMAIN toObc /\ toObc'[k] = toObc[k]
        \/ /\ DOMAIN toObc = 1 .. Len(toObc) /\ Len(toObc) \in Nat
           /\ k = Len(toObc) + 1 /\ IsGet(m)
           /\ toObc'[k].to = m.sender /\ toObc'[k].n = m.n
  <2>1. a.to = m.sender /\ a.n = m.n
    BY DEF Answer
  <2> HIDE DEF a
  <2> QED BY <2>1, SsmStep DEF a
<1>4. \A id \in Senders : Coming(id)' \subseteq Coming(id)
  BY <1>2, <1>3 DEF Coming
<1>5. BusInOrder'
  <2>1. \A j, k \in DOMAIN toSsm' :
          j < k /\ IsGet(toSsm'[j]) /\ IsGet(toSsm'[k])
            /\ toSsm'[j].sender = toSsm'[k].sender => toSsm'[j].n < toSsm'[k].n
    <3>1. \A j, k \in DOMAIN toSsm' : j < k => j + 1 < k + 1
      BY <1>2
    <3> QED BY <1>2, <3>1 DEF OrderInv, BusInOrder
  <2>2. \A j, k \in DOMAIN toObc' :
          j < k /\ toObc'[j].to = toObc'[k].to => toObc'[j].n < toObc'[k].n
    <3> SUFFICES ASSUME NEW j \in DOMAIN toObc', NEW k \in DOMAIN toObc',
                        j < k, toObc'[j].to = toObc'[k].to
                 PROVE  toObc'[j].n < toObc'[k].n
      OBVIOUS
    <3>1. CASE k \in DOMAIN toObc /\ toObc'[k] = toObc[k]
      <4>1. j \in DOMAIN toObc /\ toObc'[j] = toObc[j]
        BY <1>3, <3>1
      <4> QED BY <3>1, <4>1 DEF OrderInv, BusInOrder
    <3>2. CASE ~(k \in DOMAIN toObc /\ toObc'[k] = toObc[k])
      <4>1. /\ k = Len(toObc) + 1 /\ Len(toObc) \in Nat /\ IsGet(m)
            /\ toObc'[k].to = m.sender /\ toObc'[k].n = m.n
        BY <1>3, <3>2
      <4>2. j \in DOMAIN toObc /\ toObc'[j] = toObc[j]
        BY <1>3, <4>1
      <4> QED BY <1>2, <4>1, <4>2 DEF OrderInv, BusInOrder
    <3> QED BY <3>1, <3>2
  <2>3. \A j \in DOMAIN toObc', k \in DOMAIN toSsm' :
          IsGet(toSsm'[k]) /\ toObc'[j].to = toSsm'[k].sender
            => toObc'[j].n < toSsm'[k].n
    <3> SUFFICES ASSUME NEW j \in DOMAIN toObc', NEW k \in DOMAIN toSsm',
                        IsGet(toSsm'[k]), toObc'[j].to = toSsm'[k].sender
                 PROVE  toObc'[j].n < toSsm'[k].n
      OBVIOUS
    <3>1. CASE j \in DOMAIN toObc /\ toObc'[j] = toObc[j]
      BY <1>2, <3>1 DEF OrderInv, BusInOrder
    <3>2. CASE IsGet(m) /\ toObc'[j].to = m.sender /\ toObc'[j].n = m.n
      <4>1. 1 < k + 1
        BY <1>2
      <4> QED BY <1>2, <3>2, <4>1 DEF OrderInv, BusInOrder
    <3> QED BY <1>3, <3>1, <3>2
  <2> QED BY <2>1, <2>2, <2>3 DEF BusInOrder
<1>6. RegisterOldest'
  <2>1. \A id \in Senders : Newest(id)' = Newest(id)
    BY <1>1 DEF Newest, Asked, CallNumber
  <2> QED BY <1>1, <1>4, <2>1 DEF OrderInv, RegisterOldest
<1> QED BY <1>1, <1>4, <1>5, <1>6 DEF OrderInv, FlagSeen

(* The interrupt takes the oldest answer into the register of its task.       *)
LEMMA AlertStep ==
  ASSUME TypeOK, OrderInv, AlertCanData
  PROVE  LET a == Head(toObc) IN
         /\ a \in AnswersTo(Senders) /\ a.to \in Senders /\ a.n \in Coming(a.to)
         /\ data_receivedf'[a.to] = 1 /\ data_receive'[a.to] = a
         /\ data_receive[a.to].n < a.n
         /\ \A id \in Senders : id # a.to => /\ data_receivedf'[id] = data_receivedf[id]
                                             /\ data_receive'[id] = data_receive[id]
<1> DEFINE a == Head(toObc)
<1>1. /\ toObc # <<>> /\ toObc' = Tail(toObc)
      /\ data_receivedf' = [data_receivedf EXCEPT ![a.to] = 1]
      /\ data_receive' = [data_receive EXCEPT ![a.to] = a]
  BY DEF AlertCanData
<1>2. a \in AnswersTo(Callers) /\ a = toObc[1] /\ 1 \in DOMAIN toObc /\ a.to \in Senders
  BY <1>1, FirstAnswer
<1>3. a \in AnswersTo(Senders)
  BY <1>2, ConstantsOK DEF AnswersTo
<1>4. a.n \in Coming(a.to)
  BY <1>2 DEF Coming
<1>5. data_receive[a.to].n < a.n
  BY <1>2, <1>4 DEF OrderInv, RegisterOldest
<1> HIDE DEF a
<1>6. /\ data_receivedf'[a.to] = 1 /\ data_receive'[a.to] = a
      /\ \A id \in Senders : id # a.to => /\ data_receivedf'[id] = data_receivedf[id]
                                          /\ data_receive'[id] = data_receive[id]
  BY <1>1, <1>2 DEF TypeOK
<1> QED BY <1>2, <1>3, <1>4, <1>5, <1>6 DEF a

(* The answers reach the flag in their order.                                 *)
LEMMA OrderByAnswer ==
  ASSUME TypeOK, OrderInv, AlertCanData \/ AnswerLost
  PROVE  OrderInv' /\ \A id \in Senders : Coming(id)' \subseteq Coming(id)
<1> DEFINE a == Head(toObc)
<1>1. /\ toObc # <<>> /\ toObc' = Tail(toObc) /\ UNCHANGED <<pc, call, toSsm, results>>
  BY DEF AlertCanData, AnswerLost
<1>2. /\ a = toObc[1] /\ 1 \in DOMAIN toObc /\ a.to \in Senders
      /\ \A k \in DOMAIN toObc' : k + 1 \in DOMAIN toObc /\ k \in Nat \ {0}
                                  /\ toObc'[k] = toObc[k + 1]
  BY <1>1, FirstAnswer
<1>3. \A id \in Senders : Coming(id)' \subseteq Coming(id)
  BY <1>1, <1>2 DEF Coming
<1>4. BusInOrder'
  <2>1. \A j, k \in DOMAIN toObc' : j < k => j + 1 < k + 1
    BY <1>2
  <2> QED BY <1>1, <1>2, <2>1 DEF OrderInv, BusInOrder
<1>5. \A id \in Senders : Newest(id)' = Newest(id)
  BY <1>1 DEF Newest, Asked, CallNumber
<1>6. RegisterOldest' /\ FlagSeen'
  <2>1. CASE AnswerLost
    BY <1>1, <1>3, <1>5, <2>1 DEF AnswerLost, OrderInv, RegisterOldest, FlagSeen, registers
  <2>2. CASE AlertCanData
    <3>1. /\ a.n \in Coming(a.to) /\ data_receivedf'[a.to] = 1 /\ data_receive'[a.to] = a
          /\ \A id \in Senders : id # a.to => /\ data_receivedf'[id] = data_receivedf[id]
                                              /\ data_receive'[id] = data_receive[id]
      BY <2>2, AlertStep
    <3>2. ASSUME NEW id \in Senders, id = a.to
          PROVE  \A n \in Coming(id)' : a.n < n
      <4>1. ASSUME NEW k \in DOMAIN toObc', toObc'[k].to = id
            PROVE  a.n < toObc'[k].n
        <5>1. 1 < k + 1
          BY <1>2, <4>1
        <5> QED BY <1>2, <3>2, <4>1, <5>1 DEF OrderInv, BusInOrder
      <4>2. ASSUME NEW k \in DOMAIN toSsm, IsGet(toSsm[k]), toSsm[k].sender = id
            PROVE  a.n < toSsm[k].n
        BY <1>2, <3>2, <4>2 DEF OrderInv, BusInOrder
      <4> HIDE DEF a
      <4> QED BY <1>1, <4>1, <4>2, ComingFrom
    <3>3. RegisterOldest'
      <4> SUFFICES ASSUME NEW id \in Senders
                   PROVE  /\ \A n \in Coming(id)' : data_receive'[id].n < n
                                                    /\ n <= Newest(id)'
                          /\ data_receive'[id].n <= Newest(id)'
        BY DEF RegisterOldest
      <4>1. CASE id = a.to
        <5>1. a.n <= Newest(id)
          BY <3>1, <4>1 DEF OrderInv, RegisterOldest
        <5>2. \A n \in Coming(id)' : a.n < n /\ n <= Newest(id)
          BY <1>3, <3>2, <4>1 DEF OrderInv, RegisterOldest
        <5> HIDE DEF a
        <5> QED BY <1>5, <3>1, <4>1, <5>1, <5>2
      <4>2. CASE id # a.to
        BY <1>3, <1>5, <3>1, <4>2 DEF OrderInv, RegisterOldest
      <4> QED BY <4>1, <4>2
    <3>4. FlagSeen'
      <4>1. pc # "idle" => call.sender \in Senders
        BY CallerInside
      <4> QED BY <1>1, <3>1, <4>1 DEF OrderInv, FlagSeen
    <3> QED BY <3>3, <3>4
  <2> QED BY <2>1, <2>2
<1> QED BY <1>3, <1>4, <1>6 DEF OrderInv

(* A call that is begun: nothing has been asked for it yet.                   *)
LEMMA Begun ==
  ASSUME TypeOK, RequestSensorData \/ SetVariable
  PROVE  /\ pc = "idle" /\ pc' \in {"request", "set"}
         /\ UNCHANGED <<data_receivedf, data_receive, toSsm, toObc, ssm, losses, results>>
<1>1. Can0_Mutex = Free /\ pc' \in {"request", "set"} /\ UNCHANGED <<registers, bus, results>>
  BY DEF RequestSensorData, SetVariable, TakeMutex
<1> QED BY <1>1 DEF TypeOK, registers, bus

(* How a call ends, with its flag still set or cleared.                       *)
Ending(o) ==
  /\ Return(o)
  /\ data_receive' = data_receive
  /\ data_receivedf' \in
       {data_receivedf, [data_receivedf EXCEPT ![ValueRegister(call.sender)] = 0]}
  /\ Asked(call.sender)
  /\ \/ o = "lost" /\ pc = "wait" /\ data_receivedf[call.sender] = 0 /\ ~AnswerUnderWay
     \/ o = "late" /\ data_receivedf[call.sender] = 0
     \/ /\ o = "mismatch" /\ pc = "name" /\ ClearFlag
        /\ data_receive[call.sender].sensor # call.sensor
     \/ o = "value" /\ pc = "clear" /\ ClearFlag

(* A call that leaves its loop without a value ends in one of four ways.      *)
LEMMA Ends ==
  ASSUME TypeOK, Timeout \/ CheckName \/ ReturnValue, pc' # "value"
  PROVE  pc # "idle" /\ \E o \in {"lost", "late", "mismatch", "value"} : Ending(o)
BY DEF Timeout, CheckName, ReturnValue, Ending, ClearFlag, registers, Asked

(* What the caller does leaves the bus, the registers and what was asked.     *)
CallerStep ==
  \/ RequestSensorData \/ SetVariable \/ Timeout \/ SeeFlag \/ CheckName \/ TakeValue
  \/ ReturnValue \/ UNCHANGED vars

(* While a call waits and checks, nothing moves on the bus.                   *)
LEMMA CallerQuiet ==
  ASSUME TypeOK, CallerStep
  PROVE  /\ UNCHANGED <<toSsm, toObc, data_receive, ssm>>
         /\ \A id \in Senders : Newest(id)' = Newest(id) /\ Coming(id)' = Coming(id)
<1>1. UNCHANGED <<toSsm, toObc, data_receive, ssm>>
  BY DEF CallerStep, RequestSensorData, SetVariable, TakeMutex, Timeout, SeeFlag, CheckName,
         TakeValue, ReturnValue, Return, ClearFlag, vars, registers, bus
<1>2. ASSUME NEW id \in Senders PROVE Coming(id)' = Coming(id)
  BY <1>1 DEF Coming
<1>3. ASSUME NEW id \in Senders PROVE Newest(id)' = Newest(id)
  <2>1. CASE RequestSensorData \/ SetVariable
    BY <2>1, Begun DEF Newest, Asked
  <2>2. CASE (Timeout \/ CheckName \/ ReturnValue) /\ pc' # "value"
    <3>1. PICK o \in {"lost", "late", "mismatch", "value"} : Ending(o)
      BY <2>2, Ends
    <3>2. pc # "idle" /\ Asked(call.sender) /\ Return(o)
      BY <2>2, <3>1, Ends DEF Ending
    <3>3. /\ pc' = "idle" /\ (id # call.sender => results'[id] = results[id])
          /\ Len(results'[call.sender]) = Len(results[call.sender]) + 1
      BY <3>2, Returned
    <3>4. CASE id = call.sender
      BY <3>2, <3>3, <3>4 DEF Newest, Asked, CallNumber
    <3>5. CASE id # call.sender
      BY <3>3, <3>5 DEF Newest, Asked, CallNumber
    <3> QED BY <3>4, <3>5
  <2>3. CASE SeeFlag \/ TakeValue \/ UNCHANGED vars \/ (CheckName /\ pc' = "value")
    <3>1. /\ UNCHANGED results
          /\ \/ UNCHANGED <<pc, call>>
             \/ /\ pc \in {"wait", "name", "value"} /\ pc' \in {"name", "value", "clear"}
                /\ call'.sender = call.sender
      BY <2>3 DEF SeeFlag, TakeValue, vars, CheckName, Return, TypeOK, Calls
    <3> QED BY <3>1 DEF Newest, Asked, CallNumber
  <2>4. CASE (Timeout \/ ReturnValue) /\ pc' = "value"
    BY <2>4 DEF Timeout, ReturnValue, Return
  <2> QED BY <2>1, <2>2, <2>3, <2>4 DEF CallerStep
<1> QED BY <1>1, <1>2, <1>3

(* The steps of a call keep the order.                                        *)
LEMMA OrderByCaller ==
  ASSUME TypeOK, OrderInv, CallerStep
  PROVE  OrderInv'
<1>1. /\ UNCHANGED <<toSsm, toObc, data_receive>>
      /\ \A id \in Senders : Newest(id)' = Newest(id) /\ Coming(id)' = Coming(id)
  BY CallerQuiet
<1>2. BusInOrder' /\ RegisterOldest'
  BY <1>1 DEF OrderInv, BusInOrder, RegisterOldest
<1>3. FlagSeen'
  <2>1. CASE RequestSensorData \/ SetVariable
    BY <2>1, Begun DEF FlagSeen
  <2>2. CASE Timeout \/ ReturnValue \/ TakeValue
    BY <2>2 DEF Timeout, ReturnValue, TakeValue, Return, FlagSeen
  <2>3. CASE SeeFlag
    BY <2>3 DEF SeeFlag, registers, FlagSeen
  <2>4. CASE CheckName
    BY <2>4 DEF CheckName, Return, registers, OrderInv, FlagSeen
  <2>5. CASE UNCHANGED vars
    BY <2>5 DEF vars, registers, OrderInv, FlagSeen
  <2> QED BY <2>1, <2>2, <2>3, <2>4, <2>5 DEF CallerStep
<1> QED BY <1>2, <1>3 DEF OrderInv

(* Every step keeps the order of requests and answers.                        *)
LEMMA OrderNext ==
  ASSUME TypeOK, OrderInv, [Next]_vars
  PROVE  OrderInv'
BY OrderBySending, OrderBySsm, OrderByAnswer, OrderByCaller
DEF Next, Caller, Bus, CallerStep

-----------------------------------------------------------------------------
(* Each answer is used once, in order.                                       *)

(* Nothing has been used at the start.                                        *)
LEMMA UseInit == Init => UseInv
BY DEF Init, UseInv, UsedAreOlder, GotIsFresh, UsedOnceInOrder, Returning, Obtained, ExceptHk,
       Fresh, Blank, Answer

(* The numbers in the results.                                               *)
LEMMA ResultNumbers ==
  ASSUME TypeOK
  PROVE  /\ \A id \in Senders : \A k \in DOMAIN results[id] :
              k \in Nat \ {0} /\ results[id][k].got.n \in Nat
         /\ call.got.n \in Nat
         /\ \A id \in Senders : data_receive[id].n \in Nat
<1>1. \A id \in Senders : \A k \in DOMAIN results[id] :
        k \in Nat \ {0} /\ results[id][k] \in Results
  BY DEF TypeOK
<1> QED BY <1>1 DEF TypeOK, Results, Calls, AnswersTo

(* What a return adds to the results, seen from the sender.                   *)
LEMMA ResultsGrow ==
  ASSUME TypeOK, pc # "idle", NEW o \in {"lost", "late", "mismatch", "value"}, Return(o),
         NEW id \in Senders, NEW k \in DOMAIN results'[id]
  PROVE  \/ k \in DOMAIN results[id] /\ results'[id][k] = results[id][k]
         \/ /\ id = call.sender /\ k = CallNumber(id)
            /\ results'[id][k]
                 = [outcome |-> o, sensor |-> call.sensor, got |-> call.got]
<1>1. CASE id # call.sender
  BY <1>1, Returned
<1>2. CASE id = call.sender
  <2> DEFINE rs == results[id]
             r == [outcome |-> o, sensor |-> call.sensor, got |-> call.got]
  <2>1. /\ Len(results'[id]) = Len(rs) + 1 /\ results'[id][Len(rs) + 1] = r
        /\ \A j \in 1 .. Len(rs) : results'[id][j] = rs[j]
        /\ results' \in [Senders -> Seq(Results)]
    BY <1>2, Returned
  <2>2. rs \in Seq(Results) /\ results'[id] \in Seq(Results)
    BY <2>1 DEF TypeOK
  <2> HIDE DEF r
  <2>3. k \in 1 .. Len(rs) + 1 /\ Len(rs) \in Nat /\ DOMAIN rs = 1 .. Len(rs)
    BY <2>1, <2>2
  <2>4. CASE k \in 1 .. Len(rs)
    BY <2>1, <2>3, <2>4
  <2>5. CASE k = Len(rs) + 1
    BY <1>2, <2>1, <2>5 DEF CallNumber, r
  <2> QED BY <2>3, <2>4, <2>5
<1> QED BY <1>1, <1>2

(* An answer taken in by the interrupt is newer than all used ones.           *)
LEMMA UseByBus ==
  ASSUME TypeOK, OrderInv, UseInv,
         SendSetVar \/ SendReqData \/ SsmTakes \/ AlertCanData \/ AnswerLost
  PROVE  UseInv'
<1>1. UNCHANGED <<call, results>> /\ (pc' = "clear" => pc = "clear")
  BY DEF SendSetVar, SendReqData, SsmTakes, AlertCanData, AnswerLost
<1>2. UsedOnceInOrder'
  BY <1>1 DEF UseInv, UsedOnceInOrder, Obtained
<1>3. CASE ~AlertCanData
  <2>1. UNCHANGED registers
    BY <1>3 DEF SendSetVar, SendReqData, SsmTakes, AnswerLost
  <2> QED BY <1>1, <1>2, <2>1
          DEF UseInv, UsedAreOlder, GotIsFresh, Returning, Fresh, Obtained, registers
<1>4. CASE AlertCanData
  <2> DEFINE a == Head(toObc)
  <2>1. /\ a.to \in Senders /\ data_receive'[a.to] = a /\ data_receive[a.to].n < a.n
        /\ \A id \in Senders : id # a.to => /\ data_receivedf'[id] = data_receivedf[id]
                                            /\ data_receive'[id] = data_receive[id]
    BY <1>4, AlertStep
  <2>2. a.n \in Nat
    BY <1>4, AlertStep DEF AnswersTo
  <2> HIDE DEF a
  <2>3. \A id \in Senders : data_receive[id].n <= data_receive'[id].n
    BY <2>1, <2>2, ResultNumbers
  <2>4. data_receive'[a.to].n \in Nat
    BY <2>1, <2>2
  <2>5. UsedAreOlder'
    <3> SUFFICES ASSUME NEW id \in ExceptHk
                 PROVE  /\ \A k \in Obtained(id) :
                             results[id][k].got.n <= data_receive'[id].n
                        /\ data_receivedf'[id] = 1 =>
                             \A k \in Obtained(id) :
                               results[id][k].got.n < data_receive'[id].n
      BY <1>1 DEF UsedAreOlder, Obtained, Fresh
    <3>1. id \in Senders
      BY DEF ExceptHk
    <3>2. \A k \in Obtained(id) : results[id][k].got.n \in Nat
      BY <3>1, ResultNumbers DEF Obtained
    <3>3. CASE id # a.to
      BY <2>1, <3>1, <3>3 DEF UseInv, UsedAreOlder, Fresh
    <3>4. CASE id = a.to
      <4>1. \A k \in Obtained(id) : results[id][k].got.n <= data_receive[id].n
        BY DEF UseInv, UsedAreOlder
      <4>2. data_receive[id].n < data_receive'[id].n /\ data_receive[id].n \in Nat
            /\ data_receive'[id].n \in Nat
        BY <2>1, <2>2, <3>1, <3>4, ResultNumbers
      <4> QED BY <3>2, <4>1, <4>2
    <3> QED BY <3>3, <3>4
  <2>6. GotIsFresh'
    <3> SUFFICES ASSUME pc = "clear", call.sender # Hk
                 PROVE  /\ Fresh(call.sender, call.got.n)
                        /\ call.got.n <= data_receive'[call.sender].n
      BY <1>1 DEF GotIsFresh, Returning, Fresh, Obtained
    <3>1. call.sender \in Senders /\ call.got.n \in Nat
      BY CallerInside, ResultNumbers
    <3>2. /\ Fresh(call.sender, call.got.n)
          /\ call.got.n <= data_receive[call.sender].n
      BY DEF UseInv, GotIsFresh, Returning
    <3>3. data_receive'[call.sender].n \in Nat /\ data_receive[call.sender].n \in Nat
      BY <2>1, <2>4, <3>1, ResultNumbers
    <3> QED BY <2>3, <3>1, <3>2, <3>3
  <2> QED BY <1>2, <2>5, <2>6 DEF UseInv
<1> QED BY <1>3, <1>4

(* A call that returns a value uses an answer newer than those before, and    *)
(* clears the flag: the register is not used again.                           *)
LEMMA UseByEnd ==
  ASSUME TypeOK, UseInv, pc # "idle",
         NEW o \in {"lost", "late", "mismatch", "value"}, Ending(o)
  PROVE  UseInv'
<1> DEFINE s == call.sender
           r == [outcome |-> o, sensor |-> call.sensor, got |-> call.got]
<1>1. /\ Return(o) /\ pc' = "idle" /\ data_receive' = data_receive
      /\ s \in Senders
  BY CallerInside DEF Ending, Return
<1>2. \A id \in Senders : \A k \in DOMAIN results'[id] :
        \/ k \in DOMAIN results[id] /\ results'[id][k] = results[id][k]
        \/ id = s /\ k = CallNumber(s) /\ results'[id][k] = r
  BY <1>1, ResultsGrow
<1>3. r.outcome = o /\ r.got = call.got
  OBVIOUS
<1> HIDE DEF r
<1>4. \A id \in Senders : \A k \in Obtained(id)' :
        \/ k \in Obtained(id) /\ results'[id][k] = results[id][k]
        \/ /\ id = s /\ k = CallNumber(s) /\ results'[id][k].got = call.got
           /\ o = "value"
  BY <1>2, <1>3 DEF Obtained
<1>5. o = "value" /\ s # Hk => Returning
  BY DEF Ending, Returning
<1>6. \A id \in Senders : data_receivedf'[id] = 1 =>
        data_receivedf[id] = 1 /\ (o = "value" /\ s # Hk => id # s)
  <2>1. data_receivedf \in [Senders -> 0 .. 1]
    BY DEF TypeOK
  <2>2. data_receivedf' = data_receivedf => o # "value" \/ ClearFlag
    BY DEF Ending
  <2>3. o = "value" => ClearFlag
    BY DEF Ending
  <2>4. s # Hk => ValueRegister(s) = s
    BY DEF ValueRegister
  <2> QED BY <1>1, <2>1, <2>3, <2>4 DEF Ending, ClearFlag
<1>7. UsedAreOlder'
  <2> SUFFICES ASSUME NEW id \in ExceptHk, NEW k \in Obtained(id)'
               PROVE  /\ results'[id][k].got.n <= data_receive[id].n
                      /\ data_receivedf'[id] = 1 =>
                           results'[id][k].got.n < data_receive[id].n
    BY <1>1 DEF UsedAreOlder, Fresh
  <2>1. id \in Senders /\ id # Hk
    BY DEF ExceptHk
  <2>2. CASE k \in Obtained(id) /\ results'[id][k] = results[id][k]
    BY <1>6, <2>1, <2>2 DEF UseInv, UsedAreOlder, Fresh
  <2>3. CASE /\ id = s /\ results'[id][k].got = call.got /\ o = "value"
    BY <1>5, <1>6, <2>1, <2>3 DEF UseInv, GotIsFresh
  <2> QED BY <1>4, <2>1, <2>2, <2>3
<1>8. UsedOnceInOrder'
  <2> SUFFICES ASSUME NEW id \in ExceptHk, NEW j \in Obtained(id)', NEW k \in Obtained(id)',
                      j < k
               PROVE  results'[id][j].got.n < results'[id][k].got.n
    BY DEF UsedOnceInOrder
  <2>1. id \in Senders /\ id # Hk
    BY DEF ExceptHk
  <2>2. /\ Len(results[s]) \in Nat /\ CallNumber(s) = Len(results[s]) + 1
        /\ DOMAIN results[s] = 1 .. Len(results[s])
    BY <1>1 DEF TypeOK, CallNumber
  <2>3. CASE k \in Obtained(id) /\ results'[id][k] = results[id][k]
    <3>1. id = s => k <= Len(results[s]) /\ k \in Int
      BY <2>2, <2>3 DEF Obtained
    <3>2. ~(id = s /\ j = CallNumber(s))
      BY <2>2, <3>1
    <3>3. j \in Obtained(id) /\ results'[id][j] = results[id][j]
      BY <1>4, <2>1, <3>2
    <3> QED BY <2>3, <3>3 DEF UseInv, UsedOnceInOrder
  <2>4. CASE /\ id = s /\ k = CallNumber(s) /\ results'[id][k].got = call.got
             /\ o = "value"
    <3>1. j # CallNumber(s)
      BY <2>2, <2>4
    <3>2. j \in Obtained(id) /\ results'[id][j] = results[id][j]
      BY <1>4, <2>1, <3>1
    <3> QED BY <1>5, <2>1, <2>4, <3>2 DEF UseInv, GotIsFresh, Fresh
  <2> QED BY <1>4, <2>1, <2>3, <2>4
<1> QED BY <1>1, <1>7, <1>8 DEF UseInv, GotIsFresh, Returning

(* The steps of a call use what is newest at most once.                       *)
LEMMA UseByCaller ==
  ASSUME TypeOK, OrderInv, UseInv, CallerStep
  PROVE  UseInv'
<1>1. CASE RequestSensorData \/ SetVariable
  <2>1. pc' # "clear" /\ UNCHANGED <<data_receivedf, data_receive, results>>
    BY <1>1, Begun
  <2> QED BY <2>1 DEF UseInv, UsedAreOlder, GotIsFresh, Returning, Fresh, UsedOnceInOrder,
                      Obtained
<1>2. CASE (Timeout \/ CheckName \/ ReturnValue) /\ pc' # "value"
  BY <1>2, Ends, UseByEnd
<1>3. CASE (Timeout \/ ReturnValue) /\ pc' = "value"
  BY <1>3 DEF Timeout, ReturnValue, Return
<1>4. CASE SeeFlag \/ (CheckName /\ pc' = "value") \/ UNCHANGED vars
  <2>1. /\ UNCHANGED <<call, data_receivedf, data_receive, results>>
        /\ pc' = "clear" => pc = "clear"
    BY <1>4 DEF SeeFlag, CheckName, Return, vars, registers
  <2> QED BY <2>1 DEF UseInv, UsedAreOlder, GotIsFresh, Returning, Fresh, UsedOnceInOrder,
                      Obtained
<1>5. CASE TakeValue
  <2>1. /\ pc = "value" /\ pc' = "clear" /\ call'.sender = call.sender
        /\ call'.got = data_receive[ValueRegister(call.sender)]
        /\ UNCHANGED <<data_receivedf, data_receive, results>>
    BY <1>5 DEF TakeValue, registers, TypeOK, Calls
  <2>2. UsedAreOlder' /\ UsedOnceInOrder'
    BY <2>1 DEF UseInv, UsedAreOlder, UsedOnceInOrder, Fresh, Obtained
  <2>3. GotIsFresh'
    <3> SUFFICES ASSUME call.sender # Hk
                 PROVE  /\ Fresh(call.sender, data_receive[call.sender].n)
                        /\ data_receive[call.sender].n <= data_receive[call.sender].n
      BY <2>1 DEF GotIsFresh, Returning, Fresh, Obtained, ValueRegister
    <3>1. data_receivedf[call.sender] = 1 /\ call.sender \in ExceptHk
      BY <2>1, CallerInside DEF OrderInv, FlagSeen, ExceptHk
    <3>2. data_receive[call.sender].n \in Nat
      BY <2>1, CallerInside, ResultNumbers
    <3> QED BY <3>1, <3>2 DEF UseInv, UsedAreOlder
  <2> QED BY <2>2, <2>3 DEF UseInv
<1> QED BY <1>1, <1>2, <1>3, <1>4, <1>5 DEF CallerStep

(* Every step keeps what is known of the answers used.                        *)
LEMMA UseNext ==
  ASSUME TypeOK, OrderInv, UseInv, [Next]_vars
  PROVE  UseInv'
BY UseByBus, UseByCaller DEF Next, Caller, Bus, CallerStep

-----------------------------------------------------------------------------
(* Housekeeping reads the register of scheduling.                            *)

(* Housekeeping has obtained nothing at the start.                            *)
LEMMA HkInit == Init => HkInv
BY ConstantsOK DEF Init, HkInv, HkKept, HkReadsSched, Obtained

(* The interrupt only brings newer answers into the register.                 *)
LEMMA HkByBus ==
  ASSUME TypeOK, OrderInv, HkInv,
         SendSetVar \/ SendReqData \/ SsmTakes \/ AlertCanData \/ AnswerLost
  PROVE  HkInv'
<1>1. UNCHANGED <<call, results>> /\ (pc' = "clear" => pc = "clear")
  BY DEF SendSetVar, SendReqData, SsmTakes, AlertCanData, AnswerLost
<1>2. data_receive[Sched].n <= data_receive'[Sched].n /\ data_receive'[Sched].n \in Nat
  <2>1. CASE ~AlertCanData
    <3>1. UNCHANGED data_receive
      BY <2>1 DEF SendSetVar, SendReqData, SsmTakes, AnswerLost, registers
    <3> QED BY <3>1, ResultNumbers, ConstantsOK
  <2>2. CASE AlertCanData
    <3> DEFINE a == Head(toObc)
    <3>1. /\ a.to \in Senders /\ data_receive'[a.to] = a /\ data_receive[a.to].n < a.n
          /\ \A id \in Senders : id # a.to => data_receive'[id] = data_receive[id]
          /\ a.n \in Nat
      BY <2>2, AlertStep DEF AnswersTo
    <3> HIDE DEF a
    <3> QED BY <3>1, ResultNumbers, ConstantsOK
  <2> QED BY <2>1, <2>2
<1>3. /\ data_receive[Sched].n \in Nat /\ call.got.n \in Nat
      /\ \A k \in Obtained(Hk) : results[Hk][k].got.n \in Nat
  BY ResultNumbers, ConstantsOK DEF Obtained
<1>4. HkKept'
  <2> SUFFICES /\ \A k \in Obtained(Hk) : results[Hk][k].got.n <= data_receive'[Sched].n
               /\ pc = "clear" /\ call.sender = Hk =>
                    /\ call.got.to = Sched /\ call.got.n <= data_receive'[Sched].n
                    /\ \A k \in Obtained(Hk) : results[Hk][k].got.n <= call.got.n
    BY <1>1 DEF HkKept, Obtained
  <2> QED BY <1>2, <1>3 DEF HkInv, HkKept
<1>5. HkReadsSched'
  BY <1>1 DEF HkInv, HkReadsSched, Obtained
<1> QED BY <1>4, <1>5 DEF HkInv

(* A call of housekeeping that returns a value adds one that is not older.     *)
LEMMA HkByEnd ==
  ASSUME TypeOK, HkInv, pc # "idle",
         NEW o \in {"lost", "late", "mismatch", "value"}, Ending(o)
  PROVE  HkInv'
<1> DEFINE s == call.sender
           r == [outcome |-> o, sensor |-> call.sensor, got |-> call.got]
<1>1. /\ Return(o) /\ pc' = "idle" /\ data_receive' = data_receive /\ Hk \in Senders
      /\ s \in Senders /\ (o = "value" => pc = "clear")
  BY CallerInside, ConstantsOK DEF Ending, Return
<1>2. \A k \in DOMAIN results'[Hk] :
        \/ k \in DOMAIN results[Hk] /\ results'[Hk][k] = results[Hk][k]
        \/ Hk = s /\ k = CallNumber(s) /\ results'[Hk][k] = r
  BY <1>1, ResultsGrow
<1>3. r.outcome = o /\ r.got = call.got
  OBVIOUS
<1> HIDE DEF r
<1>4. \A k \in Obtained(Hk)' :
        \/ k \in Obtained(Hk) /\ results'[Hk][k] = results[Hk][k]
        \/ /\ Hk = s /\ k = CallNumber(s) /\ results'[Hk][k].got = call.got
           /\ pc = "clear"
  BY <1>1, <1>2, <1>3 DEF Obtained
<1>5. HkKept'
  BY <1>1, <1>4 DEF HkInv, HkKept
<1>6. HkReadsSched'
  <2> SUFFICES ASSUME NEW k \in Obtained(Hk)'
               PROVE  /\ results'[Hk][k].got.to = Sched
                      /\ \A j \in Obtained(Hk)' :
                           j < k => results'[Hk][j].got.n <= results'[Hk][k].got.n
    BY DEF HkReadsSched
  <2>1. /\ Len(results[Hk]) \in Nat /\ CallNumber(Hk) = Len(results[Hk]) + 1
        /\ DOMAIN results[Hk] = 1 .. Len(results[Hk])
    BY <1>1 DEF TypeOK, CallNumber
  <2>2. CASE k \in Obtained(Hk) /\ results'[Hk][k] = results[Hk][k]
    <3>1. k <= Len(results[Hk]) /\ k \in Int
      BY <2>1, <2>2 DEF Obtained
    <3>2. ASSUME NEW j \in Obtained(Hk)', j < k
          PROVE  j \in Obtained(Hk) /\ results'[Hk][j] = results[Hk][j]
      BY <1>4, <2>1, <3>1, <3>2
    <3> QED BY <2>2, <3>2 DEF HkInv, HkReadsSched
  <2>3. CASE /\ Hk = s /\ k = CallNumber(s) /\ results'[Hk][k].got = call.got
             /\ pc = "clear"
    <3>1. ASSUME NEW j \in Obtained(Hk)', j < k
          PROVE  j \in Obtained(Hk) /\ results'[Hk][j] = results[Hk][j]
      <4>1. j # CallNumber(s)
        BY <2>1, <2>3, <3>1
      <4> QED BY <1>4, <4>1
    <3> QED BY <2>3, <3>1 DEF HkInv, HkKept
  <2> QED BY <1>4, <2>2, <2>3
<1> QED BY <1>5, <1>6 DEF HkInv

(* The steps of a call keep what housekeeping obtained in order.               *)
LEMMA HkByCaller ==
  ASSUME TypeOK, OrderInv, HkInv, CallerStep
  PROVE  HkInv'
<1>1. CASE RequestSensorData \/ SetVariable
  <2>1. pc' # "clear" /\ UNCHANGED <<data_receive, results>>
    BY <1>1, Begun
  <2> QED BY <2>1 DEF HkInv, HkKept, HkReadsSched, Obtained
<1>2. CASE (Timeout \/ CheckName \/ ReturnValue) /\ pc' # "value"
  BY <1>2, Ends, HkByEnd
<1>3. CASE (Timeout \/ ReturnValue) /\ pc' = "value"
  BY <1>3 DEF Timeout, ReturnValue, Return
<1>4. CASE SeeFlag \/ (CheckName /\ pc' = "value") \/ UNCHANGED vars
  <2>1. /\ UNCHANGED <<call, data_receive, results>>
        /\ pc' = "clear" => pc = "clear"
    BY <1>4 DEF SeeFlag, CheckName, Return, vars, registers
  <2> QED BY <2>1 DEF HkInv, HkKept, HkReadsSched, Obtained
<1>5. CASE TakeValue
  <2>1. /\ call'.sender = call.sender
        /\ call'.got = data_receive[ValueRegister(call.sender)]
        /\ UNCHANGED <<data_receive, results>>
    BY <1>5 DEF TakeValue, registers, TypeOK, Calls
  <2>2. HkReadsSched'
    BY <2>1 DEF HkInv, HkReadsSched, Obtained
  <2>3. HkKept'
    <3>1. data_receive[Sched].to = Sched /\ data_receive[Sched].n \in Nat
      BY ResultNumbers, ConstantsOK DEF TypeOK
    <3>2. call'.sender = Hk => call'.got = data_receive[Sched]
      BY <2>1 DEF ValueRegister
    <3> QED BY <2>1, <3>1, <3>2 DEF HkInv, HkKept, Obtained
  <2> QED BY <2>2, <2>3 DEF HkInv
<1> QED BY <1>1, <1>2, <1>3, <1>4, <1>5 DEF CallerStep

(* Every step keeps what is known of the values of housekeeping.               *)
LEMMA HkNext ==
  ASSUME TypeOK, OrderInv, HkInv, [Next]_vars
  PROVE  HkInv'
BY HkByBus, HkByCaller DEF Next, Caller, Bus, CallerStep

-----------------------------------------------------------------------------
(* How far a value lags behind.                                              *)

(* A result adds one to the late ones when it is late.                        *)
LEMMA LateCounted ==
  ASSUME NEW rs \in Seq(Results)
  PROVE  /\ LateCount(rs) \in Nat
         /\ \A r \in Results : LateCount(Append(rs, r))
              = IF r.outcome = "late" THEN LateCount(rs) + 1 ELSE LateCount(rs)
<1> DEFINE Late(s) == {k \in DOMAIN s : s[k].outcome = "late"}
<1>1. Len(rs) \in Nat /\ DOMAIN rs = 1 .. Len(rs)
  OBVIOUS
<1>2. IsFiniteSet(1 .. Len(rs))
  BY <1>1, FS_Interval
<1>3. Late(rs) \in SUBSET (1 .. Len(rs))
  BY <1>1
<1>4. IsFiniteSet(Late(rs))
  BY <1>2, <1>3, FS_Subset
<1>5. LateCount(rs) = Cardinality(Late(rs)) /\ LateCount(rs) \in Nat
  BY <1>4, FS_CardinalityType DEF LateCount
<1>6. ASSUME NEW r \in Results
      PROVE  LateCount(Append(rs, r))
               = IF r.outcome = "late" THEN LateCount(rs) + 1 ELSE LateCount(rs)
  <2> DEFINE t == Append(rs, r)
             new == Len(rs) + 1
  <2>1. /\ DOMAIN t = 1 .. new /\ t[new] = r
        /\ \A k \in 1 .. Len(rs) : t[k] = rs[k]
    BY <1>1, AppendProperties
  <2>2. DOMAIN t = DOMAIN rs \cup {new} /\ new \notin DOMAIN rs
    BY <1>1, <2>1
  <2>3. LateCount(t) = Cardinality(Late(t))
    BY DEF LateCount
  <2> HIDE DEF t, new
  <2>4. CASE r.outcome = "late"
    <3>1. Late(t) = Late(rs) \cup {new} /\ new \notin Late(rs)
      BY <1>1, <2>1, <2>2, <2>4
    <3> QED BY <1>4, <1>5, <2>3, <2>4, <3>1, FS_AddElement DEF t
  <2>5. CASE r.outcome # "late"
    <3>1. Late(t) = Late(rs)
      BY <1>1, <2>1, <2>2, <2>5
    <3> QED BY <1>5, <2>3, <2>5, <3>1 DEF t
  <2> QED BY <2>4, <2>5
<1> QED BY <1>5, <1>6

(* What was there before a result is there after it.                          *)
LEMMA PrefixKept ==
  ASSUME NEW S, NEW rs \in Seq(S), NEW r \in S, NEW k \in 1 .. Len(rs) + 1
  PROVE  /\ SubSeq(Append(rs, r), 1, k - 1) = SubSeq(rs, 1, k - 1)
         /\ SubSeq(rs, 1, Len(rs)) = rs
<1>1. Len(rs) \in Nat /\ <<r>> \in Seq(S) /\ Append(rs, r) = rs \o <<r>>
  BY AppendIsConcat
<1>2. SubSeq(rs, 1, Len(rs)) = rs
  BY SubSeqFull
<1>3. CASE k = 1
  <2>1. SubSeq(rs, 1, 0) = <<>> /\ SubSeq(Append(rs, r), 1, 0) = <<>>
    BY SubSeqEmpty
  <2> QED BY <1>2, <1>3, <2>1
<1>4. CASE k # 1
  <2>1. k - 1 \in 1 .. Len(rs) /\ 1 \in 1 .. Len(rs)
    BY <1>1, <1>4
  <2>2. SubSeq(rs \o <<r>>, 1, k - 1) = SubSeq(rs, 1, k - 1)
    BY <1>1, <2>1, SubSeqOfConcat1
  <2> QED BY <1>1, <1>2, <2>2
<1> QED BY <1>3, <1>4

(* No call is behind at the start.                                            *)
LEMMA LagInit == Init => LagInv
<1> SUFFICES ASSUME Init PROVE LagInv
  OBVIOUS
<1>1. \A id \in Senders : Coming(id) = {} /\ data_receivedf[id] = 0 /\ Obtained(id) = {}
  BY DEF Init, Coming, Obtained
<1> QED BY <1>1 DEF Init, LagInv, LagKept, LagBounded, Returning, ExceptHk

(* A new request lags behind nothing.                                         *)
LEMMA LagByBus ==
  ASSUME TypeOK, OrderInv, LagInv,
         SendSetVar \/ SendReqData \/ SsmTakes \/ AlertCanData \/ AnswerLost
  PROVE  LagInv'
<1>1. UNCHANGED <<call, results>> /\ (pc' = "clear" => pc = "clear")
  BY DEF SendSetVar, SendReqData, SsmTakes, AlertCanData, AnswerLost
<1>2. LagBounded' /\ (Returning' => InLag(call.sender, call.got.n)')
  BY <1>1 DEF LagInv, LagBounded, LagKept, Obtained, Returning, InLag, CallNumber
<1>3. ASSUME NEW id \in ExceptHk
      PROVE  /\ \A n \in Coming(id)' : InLag(id, n)
             /\ data_receivedf'[id] = 1 => InLag(id, data_receive'[id].n)
  <2>1. id \in Senders
    BY DEF ExceptHk
  <2>2. /\ \A n \in Coming(id) : InLag(id, n)
        /\ data_receivedf[id] = 1 => InLag(id, data_receive[id].n)
    BY DEF LagInv, LagKept
  <2>3. CASE SendSetVar \/ SendReqData
    <3>1. InLag(id, CallNumber(id))
      <4>1. results[id] \in Seq(Results) /\ CallNumber(id) \in Nat
        BY <2>1 DEF TypeOK, CallNumber
      <4> QED BY <4>1, LateCounted DEF InLag
    <3>2. UNCHANGED <<data_receivedf, data_receive>>
      BY <2>3, SendStep
    <3> QED BY <2>1, <2>2, <2>3, <3>1, <3>2, ComingBySending
  <2>4. CASE SsmTakes \/ AnswerLost
    <3>1. Coming(id)' \subseteq Coming(id)
      BY <2>1, <2>4, OrderBySsm, OrderByAnswer
    <3> QED BY <2>2, <2>4, <3>1 DEF SsmTakes, AnswerLost, registers
  <2>5. CASE AlertCanData
    <3>1. Coming(id)' \subseteq Coming(id)
      BY <2>1, <2>5, OrderByAnswer
    <3>2. \/ data_receive'[id].n \in Coming(id)
          \/ /\ data_receivedf'[id] = data_receivedf[id]
             /\ data_receive'[id] = data_receive[id]
      BY <2>1, <2>5, AlertStep
    <3> QED BY <2>2, <3>1, <3>2
  <2> QED BY <2>3, <2>4, <2>5
<1>4. LagKept'
  BY <1>1, <1>2, <1>3 DEF LagKept, InLag, CallNumber
<1> QED BY <1>2, <1>4 DEF LagInv

(* A call that gives up too early is one call more to lag behind; any other    *)
(* way to end leaves nothing to come but newer answers.                        *)
LEMMA LagByEnd ==
  ASSUME TypeOK, OrderInv, UseInv, LagInv, pc # "idle",
         NEW o \in {"lost", "late", "mismatch", "value"}, Ending(o)
  PROVE  LagInv'
<1> DEFINE s == call.sender
           r == [outcome |-> o, sensor |-> call.sensor, got |-> call.got]
           rs == results[s]
           late == LateCount(rs)
           c == CallNumber(s)
<1>1. /\ Return(o) /\ pc' = "idle" /\ UNCHANGED <<data_receive, toSsm, toObc>>
      /\ s \in Senders
  BY CallerInside DEF Ending, Return, bus
<1>2. /\ r \in Results /\ rs \in Seq(Results) /\ results'[s] = Append(rs, r)
      /\ Len(results'[s]) = Len(rs) + 1
      /\ \A id \in Senders : id # s => results'[id] = results[id]
  <2>1. rs \in Seq(Results)
    BY CallerInside
  <2> QED BY <1>1, <2>1, Returned
<1>3. /\ late \in Nat /\ c \in Nat /\ c = Len(rs) + 1 /\ Len(rs) \in Nat
      /\ LateCount(results'[s]) = IF o = "late" THEN late + 1 ELSE late
      /\ Len(results'[s]) + 1 = c + 1
  <2>1. r.outcome = o
    OBVIOUS
  <2> HIDE DEF r
  <2>2. late \in Nat /\ LateCount(Append(rs, r)) = IF o = "late" THEN late + 1 ELSE late
    BY <1>2, <2>1, LateCounted
  <2>3. Len(rs) \in Nat
    BY <1>2
  <2> QED BY <1>2, <2>2, <2>3 DEF CallNumber
<1>4. /\ \A n \in Coming(s) : n \in Nat /\ data_receive[s].n < n
      /\ data_receive[s].n \in Nat /\ call.got.n \in Nat
  BY <1>1, ComingNumbers, ResultNumbers DEF OrderInv, RegisterOldest
<1>5. ASSUME s # Hk
      PROVE  /\ data_receivedf'[s] # 1
             /\ \A n \in Coming(s) : c + 1 - n <= LateCount(results'[s])
  <2>1. /\ s \in ExceptHk
        /\ \A n \in Coming(s) : c - n <= late
        /\ data_receivedf[s] = 1 => c - data_receive[s].n <= late
        /\ pc = "clear" => c - call.got.n <= late /\ call.got.n <= data_receive[s].n
    BY <1>1, <1>5 DEF LagInv, LagKept, InLag, ExceptHk, Returning, UseInv, GotIsFresh
  <2>2. ValueRegister(s) = s /\ data_receivedf \in [Senders -> 0 .. 1]
    BY <1>5 DEF ValueRegister, TypeOK
  <2>3. CASE o = "lost"
    <3>1. Coming(s) = {}
      <4>1. ~AnswerUnderWay
        BY <2>3 DEF Ending
      <4> QED BY <4>1 DEF AnswerUnderWay, Coming, IsGet
    <3>2. data_receivedf[s] = 0
      BY <2>3 DEF Ending
    <3> QED BY <1>1, <2>2, <3>1, <3>2 DEF Ending
  <2>4. CASE o = "late"
    <3>1. data_receivedf[s] = 0
      BY <2>4 DEF Ending
    <3> QED BY <1>1, <1>3, <1>4, <2>1, <2>2, <2>4, <3>1 DEF Ending
  <2>5. CASE o \in {"mismatch", "value"}
    <3>1. data_receivedf'[s] = 0
      <4>1. ClearFlag
        BY <2>5 DEF Ending
      <4> QED BY <1>1, <2>2, <4>1 DEF ClearFlag
    <3>2. c - data_receive[s].n <= late
      <4>1. CASE o = "mismatch"
        <5>1. data_receivedf[s] = 1
          BY <1>5, <4>1 DEF Ending, OrderInv, FlagSeen
        <5> QED BY <2>1, <5>1
      <4>2. CASE o = "value"
        <5>1. pc = "clear"
          BY <4>2 DEF Ending
        <5> QED BY <1>3, <1>4, <2>1, <5>1
      <4> QED BY <2>5, <4>1, <4>2
    <3>3. LateCount(results'[s]) = late
      BY <1>3, <2>5
    <3>4. ASSUME NEW n \in Coming(s)
          PROVE  c + 1 - n <= late
      <4>1. n \in Nat /\ data_receive[s].n \in Nat /\ data_receive[s].n < n
        BY <1>4
      <4>2. \A x, y, z, w \in Nat : x - y <= w /\ y < z => x + 1 - z <= w
        OBVIOUS
      <4> QED BY <1>3, <3>2, <4>1, <4>2
    <3> QED BY <3>1, <3>3, <3>4
  <2> QED BY <2>3, <2>4, <2>5
<1>6. LagKept'
  <2> SUFFICES ASSUME NEW id \in ExceptHk
               PROVE  /\ \A n \in Coming(id) : InLag(id, n)'
                      /\ data_receivedf'[id] = 1 => InLag(id, data_receive[id].n)'
    BY <1>1 DEF LagKept, Returning, Coming
  <2>1. id \in Senders /\ id # Hk
    BY DEF ExceptHk
  <2>2. CASE id = s
    <3>1. /\ LateCount(results'[id]) \in Nat /\ Len(results'[id]) \in Nat
          /\ c \in Nat /\ Len(results'[id]) + 1 = c + 1
      BY <1>3, <2>2
    <3>2. \A n \in Coming(id) : n \in Nat /\ c + 1 - n <= LateCount(results'[id])
      BY <1>4, <1>5, <2>1, <2>2
    <3> HIDE DEF c
    <3>3. \A n \in Coming(id) : Len(results'[id]) + 1 - n <= LateCount(results'[id])
      BY <3>1, <3>2
    <3>4. ASSUME NEW n \in Coming(id)
          PROVE  InLag(id, n)'
      <4>1. Len(results'[id]) + 1 - n <= LateCount(results'[id])
        BY <3>3, <3>4
      <4>2. CallNumber(id)' = Len(results'[id]) + 1
        BY DEF CallNumber
      <4>3. CallNumber(id)' - n <= LateCount(results'[id])
        BY <3>1, <3>2, <4>1, <4>2
      <4>4. InLag(id, n)' <=> CallNumber(id)' - n <= LateCount(results'[id])
        BY DEF InLag
      <4> QED BY <4>3, <4>4
    <3> QED BY <1>5, <2>1, <2>2, <3>4
  <2>3. CASE id # s
    <3>1. results'[id] = results[id] /\ (data_receivedf'[id] = 1 => data_receivedf[id] = 1)
      BY <1>2, <2>1, <2>3 DEF Ending, TypeOK
    <3>2. /\ \A n \in Coming(id) : InLag(id, n)
          /\ data_receivedf[id] = 1 => InLag(id, data_receive[id].n)
      BY DEF LagInv, LagKept
    <3> QED BY <1>1, <3>1, <3>2 DEF InLag, CallNumber
  <2> QED BY <2>2, <2>3
<1>7. LagBounded'
  <2> SUFFICES ASSUME NEW id \in ExceptHk, NEW k \in Obtained(id)'
               PROVE  k - results'[id][k].got.n
                        <= LateCount(SubSeq(results'[id], 1, k - 1))
    BY DEF LagBounded
  <2>1. id \in Senders /\ id # Hk /\ k \in DOMAIN results'[id]
    BY DEF ExceptHk, Obtained
  <2>2. CASE id # s
    <3>1. results'[id] = results[id] /\ k \in Obtained(id)
      BY <1>2, <2>1, <2>2 DEF Obtained
    <3> QED BY <3>1 DEF LagInv, LagBounded
  <2>3. CASE id = s
    <3>1. k \in 1 .. Len(rs) + 1
      <4>1. results'[s] \in Seq(Results)
        BY <1>2, AppendProperties
      <4> QED BY <1>2, <2>1, <2>3, <4>1
    <3>2. /\ SubSeq(results'[id], 1, k - 1) = SubSeq(rs, 1, k - 1)
          /\ SubSeq(rs, 1, Len(rs)) = rs
      BY <1>2, <2>3, <3>1, PrefixKept
    <3>3. CASE k \in DOMAIN results[id] /\ results'[id][k] = results[id][k]
      <4>1. k \in Obtained(id)
        BY <3>3 DEF Obtained
      <4> QED BY <2>3, <3>2, <3>3, <4>1 DEF LagInv, LagBounded
    <3>4. CASE k = c /\ results'[id][k] = r
      <4>1. o = "value" /\ results'[id][k].got = call.got
        BY <3>4 DEF Obtained
      <4>2. Returning
        BY <2>1, <2>3, <4>1 DEF Ending, Returning
      <4>3. c - call.got.n <= late
        BY <4>2 DEF LagInv, LagKept, InLag
      <4>4. k - 1 = Len(rs)
        BY <1>3, <3>4
      <4> QED BY <3>2, <3>4, <4>1, <4>3, <4>4
    <3> QED BY <1>1, <2>1, <2>3, <3>3, <3>4, ResultsGrow
  <2> QED BY <2>2, <2>3
<1> QED BY <1>6, <1>7 DEF LagInv

(* The steps of a call keep the bound on how far it is behind.                *)
LEMMA LagByCaller ==
  ASSUME TypeOK, OrderInv, UseInv, LagInv, CallerStep
  PROVE  LagInv'
<1>1. /\ UNCHANGED <<toSsm, toObc, data_receive>>
      /\ \A id \in Senders : Coming(id)' = Coming(id)
  BY CallerQuiet
<1>2. CASE (Timeout \/ CheckName \/ ReturnValue) /\ pc' # "value"
  BY <1>2, Ends, LagByEnd
<1>3. CASE (Timeout \/ ReturnValue) /\ pc' = "value"
  BY <1>3 DEF Timeout, ReturnValue, Return
<1>4. ASSUME UNCHANGED <<data_receivedf, results>>
      PROVE  /\ LagBounded'
             /\ (Returning' => InLag(call.sender, call.got.n)') => LagKept'
  BY <1>1, <1>4
  DEF LagInv, LagKept, LagBounded, Obtained, InLag, CallNumber, Coming
<1>5. CASE RequestSensorData \/ SetVariable
  <2>1. pc' # "clear" /\ UNCHANGED <<data_receivedf, results>>
    BY <1>5, Begun
  <2> QED BY <1>4, <2>1 DEF LagInv, Returning
<1>6. CASE SeeFlag \/ (CheckName /\ pc' = "value") \/ UNCHANGED vars
  <2>1. /\ UNCHANGED <<call, data_receivedf, results>>
        /\ pc' = "clear" => pc = "clear"
    BY <1>6 DEF SeeFlag, CheckName, Return, vars, registers
  <2> QED BY <1>4, <2>1 DEF LagInv, LagKept, Returning, InLag, CallNumber
<1>7. CASE TakeValue
  <2>1. /\ pc = "value" /\ call'.sender = call.sender
        /\ call'.got = data_receive[ValueRegister(call.sender)]
        /\ UNCHANGED <<data_receivedf, results>>
    BY <1>7 DEF TakeValue, registers, TypeOK, Calls
  <2>2. Returning' => InLag(call.sender, call.got.n)'
    <3> SUFFICES ASSUME call.sender # Hk
                 PROVE  InLag(call.sender, data_receive[call.sender].n)
      BY <2>1 DEF Returning, InLag, CallNumber, ValueRegister
    <3>1. data_receivedf[call.sender] = 1 /\ call.sender \in ExceptHk
      BY <2>1, CallerInside DEF OrderInv, FlagSeen, ExceptHk
    <3> QED BY <3>1 DEF LagInv, LagKept
  <2> QED BY <1>4, <2>1, <2>2 DEF LagInv
<1> QED BY <1>2, <1>3, <1>5, <1>6, <1>7 DEF CallerStep

(* Every step keeps the bound on how far a call is behind.                    *)
LEMMA LagNext ==
  ASSUME TypeOK, OrderInv, UseInv, LagInv, [Next]_vars
  PROVE  LagInv'
BY LagByBus, LagByCaller DEF Next, Caller, Bus, CallerStep

-----------------------------------------------------------------------------
(* The answer to one's own request is true.                                  *)

(* No call has an answer at the start.                                        *)
LEMMA OwnInit == Init => OwnInv
<1> SUFFICES ASSUME Init PROVE OwnInv
  OBVIOUS
<1>1. pc = "idle" /\ \A id \in Senders : results[id] = <<>>
  BY DEF Init
<1>2. OwnResults
  BY <1>1 DEF OwnResults, ExceptHk
<1> QED BY <1>1, <1>2 DEF OwnInv, OwnRequest, OwnAnswerTrue

(* Before the request is sent there is no answer to it.                       *)
LEMMA NothingYet ==
  ASSUME TypeOK, OrderInv, NEW id \in Senders, ~Asked(id)
  PROVE  /\ \A n \in Coming(id) : n # CallNumber(id)
         /\ data_receive[id].n # CallNumber(id)
<1>1. /\ Len(results[id]) \in Nat /\ CallNumber(id) = Len(results[id]) + 1
      /\ data_receive[id].n \in Nat /\ \A n \in Coming(id) : n \in Nat
  BY ComingNumbers
<1>2. /\ \A n \in Coming(id) : n <= Len(results[id])
      /\ data_receive[id].n <= Len(results[id])
  BY DEF OrderInv, RegisterOldest, Newest
<1> HIDE DEF Coming
<1> QED BY <1>1, <1>2

(* A request sent is the request of its call.                                 *)
LEMMA OwnBySending ==
  ASSUME TypeOK, OrderInv, OwnInv, SendSetVar \/ SendReqData
  PROVE  OwnInv'
<1> DEFINE s == call.sender
           c == CallNumber(s)
<1>1. /\ pc \in {"set", "request"} /\ pc' \in {"request", "wait"} /\ s \in Senders
      /\ UNCHANGED <<call, data_receive, toObc, results>>
  BY SendStep
<1>2. /\ \A n \in Coming(s) : n # c
      /\ data_receive[s].n # c
  BY <1>1, NothingYet DEF Asked
<1>3. \A k \in DOMAIN toObc : toObc[k].to = s => toObc[k].n # c
  BY <1>1, <1>2, ComingNumbers
<1>4. OwnRequest'
  <2> SUFFICES ASSUME NEW k \in DOMAIN toSsm', IsGet(toSsm'[k]), toSsm'[k].sender = s,
                      toSsm'[k].n = c
               PROVE  k = Len(toSsm') /\ toSsm'[k].sensor = call.sensor
    BY <1>1 DEF OwnRequest, IsGet, CallNumber
  <2>1. PICK m \in Messages :
          /\ IsGet(m) => m.sensor = call.sensor
          /\ \/ k \in DOMAIN toSsm /\ toSsm'[k] = toSsm[k]
             \/ k = Len(toSsm) + 1 /\ Len(toSsm') = k /\ toSsm'[k] = m
    BY SendStep
  <2>2. CASE k \in DOMAIN toSsm /\ toSsm'[k] = toSsm[k]
    <3>1. toSsm[k].n \in Coming(s)
      BY <1>1, <2>2, ComingNumbers
    <3> QED BY <1>2, <2>2, <3>1
  <2> QED BY <2>1, <2>2
<1>5. OwnAnswerTrue'
  BY <1>1, <1>2, <1>3 DEF OwnAnswerTrue, TrueIfOwn, Returning, CallNumber
<1> QED BY <1>1, <1>4, <1>5 DEF OwnInv, OwnResults

(* An SSM keeps requests and answers with their calls.                        *)
LEMMA OwnBySsm ==
  ASSUME TypeOK, OwnInv, SsmTakes
  PROVE  OwnInv'
<1> DEFINE m == Head(toSsm)
           s == call.sender
<1>1. UNCHANGED <<pc, call, data_receive, results>>
  BY DEF SsmTakes, registers
<1>2. /\ m = toSsm[1] /\ 1 \in DOMAIN toSsm /\ toSsm # <<>>
      /\ \A k \in DOMAIN toSsm' : k + 1 \in DOMAIN toSsm /\ k \in Nat \ {0}
                                  /\ toSsm'[k] = toSsm[k + 1]
  BY SsmStep
<1>3. Len(toSsm) \in Nat /\ Len(toSsm') = Len(toSsm) - 1 /\ toSsm' \in Seq(Messages)
  BY DEF TypeOK, SsmTakes
<1>4. OwnRequest'
  <2> SUFFICES ASSUME NEW k \in DOMAIN toSsm', pc # "idle", IsGet(toSsm'[k]),
                      toSsm'[k].sender = s, toSsm'[k].n = CallNumber(s)
               PROVE  k = Len(toSsm') /\ toSsm'[k].sensor = call.sensor
    BY <1>1 DEF OwnRequest, IsGet, CallNumber
  <2>1. k + 1 = Len(toSsm) /\ toSsm'[k].sensor = call.sensor
    BY <1>2 DEF OwnInv, OwnRequest
  <2> QED BY <1>2, <1>3, <2>1
<1>5. OwnAnswerTrue'
  <2> DEFINE TrueAfter(a) ==
               a.n = CallNumber(s) =>
                 toSsm' = <<>> /\ a.sensor = call.sensor /\ ssm'[a.sensor] = a.value
  <2> SUFFICES ASSUME pc # "idle"
               PROVE  /\ \A k \in DOMAIN toObc' :
                           toObc'[k].to = s => TrueAfter(toObc'[k])
                      /\ TrueAfter(data_receive[s])
                      /\ Returning => TrueAfter(call.got)
    BY <1>1 DEF OwnAnswerTrue, Returning, TrueIfOwn, CallNumber
  <2>1. ASSUME NEW a, TrueIfOwn(a)
        PROVE  a.n # CallNumber(s)
    BY <1>2, <2>1 DEF TrueIfOwn
  <2>2. TrueAfter(data_receive[s]) /\ (Returning => TrueAfter(call.got))
    BY <2>1 DEF OwnInv, OwnAnswerTrue
  <2>3. ASSUME NEW k \in DOMAIN toObc', toObc'[k].to = s
        PROVE  TrueAfter(toObc'[k])
    <3>1. CASE k \in DOMAIN toObc /\ toObc'[k] = toObc[k]
      <4>1. toObc[k].n # CallNumber(s)
        BY <2>1, <2>3, <3>1 DEF OwnInv, OwnAnswerTrue
      <4> QED BY <3>1, <4>1
    <3>2. CASE /\ IsGet(m) /\ ssm' = ssm
               /\ toObc'[k] = Answer(m.sender, m.sensor, ssm[m.sensor], m.n)
      <4> DEFINE b == Answer(m.sender, m.sensor, ssm[m.sensor], m.n)
      <4>1. b.to = m.sender /\ b.sensor = m.sensor /\ b.value = ssm[m.sensor] /\ b.n = m.n
        BY DEF Answer
      <4> HIDE DEF b
      <4>2. toObc'[k] = b /\ m.sender = s
        BY <2>3, <3>2, <4>1 DEF b
      <4>3. ASSUME m.n = CallNumber(s)
            PROVE  toSsm' = <<>> /\ m.sensor = call.sensor
        <5>1. 1 = Len(toSsm) /\ m.sensor = call.sensor
          BY <1>2, <3>2, <4>2, <4>3 DEF OwnInv, OwnRequest
        <5>2. Len(toSsm) = 1 => toSsm' = <<>>
          <6>1. toSsm \in Seq(Messages) /\ toSsm # <<>> /\ toSsm' = Tail(toSsm)
            BY DEF TypeOK, SsmTakes
          <6>2. toSsm' \in Seq(Messages) /\ Len(toSsm') = Len(toSsm) - 1
            BY <6>1, HeadTailProperties
          <6>3. Len(toSsm') = 0 => toSsm' = <<>>
            BY <6>2, EmptySeq
          <6> QED BY <6>2, <6>3
        <5> QED BY <5>1, <5>2
      <4> QED BY <3>2, <4>1, <4>2, <4>3
    <3>3. \/ k \in DOMAIN toObc /\ toObc'[k] = toObc[k]
          \/ /\ IsGet(m) /\ ssm' = ssm
             /\ toObc'[k] = Answer(m.sender, m.sensor, ssm[m.sensor], m.n)
      BY SsmStep
    <3> QED BY <3>1, <3>2, <3>3
  <2> QED BY <2>2, <2>3
<1> QED BY <1>1, <1>4, <1>5 DEF OwnInv, OwnResults

(* So does the interrupt.                                                     *)
LEMMA OwnByAnswer ==
  ASSUME TypeOK, OrderInv, OwnInv, AlertCanData \/ AnswerLost
  PROVE  OwnInv'
<1> DEFINE a == Head(toObc)
           s == call.sender
<1>1. /\ UNCHANGED <<pc, call, toSsm, ssm, results>>
      /\ toObc # <<>> /\ toObc' = Tail(toObc)
  BY DEF AlertCanData, AnswerLost
<1>2. /\ a = toObc[1] /\ 1 \in DOMAIN toObc
      /\ \A k \in DOMAIN toObc' : k + 1 \in DOMAIN toObc /\ toObc'[k] = toObc[k + 1]
  BY <1>1, FirstAnswer
<1>3. ASSUME NEW b
      PROVE  TrueIfOwn(b)' <=> TrueIfOwn(b)
  BY <1>1 DEF TrueIfOwn, CallNumber
<1>4. pc # "idle" => data_receive'[s] = data_receive[s] \/ (data_receive'[s] = a /\ a.to = s)
  <2>1. CASE AlertCanData
    BY <2>1, AlertStep, CallerInside
  <2>2. CASE AnswerLost
    BY <2>2 DEF AnswerLost, registers
  <2> QED BY <2>1, <2>2
<1> HIDE DEF a
<1>5. OwnAnswerTrue'
  <2> SUFFICES ASSUME pc # "idle"
               PROVE  /\ \A k \in DOMAIN toObc' :
                           toObc'[k].to = s => TrueIfOwn(toObc'[k])
                      /\ TrueIfOwn(data_receive'[s])
                      /\ Returning => TrueIfOwn(call.got)
    BY <1>1 DEF OwnAnswerTrue, Returning, TrueIfOwn, CallNumber
  <2> QED BY <1>2, <1>4 DEF OwnInv, OwnAnswerTrue
<1>6. OwnRequest' /\ OwnResults'
  BY <1>1 DEF OwnInv, OwnRequest, OwnResults, CallNumber, IsGet
<1> QED BY <1>5, <1>6 DEF OwnInv

(* Without a late call, what the caller holds is the answer to its request.   *)
LEMMA AnswerIsOwn ==
  ASSUME TypeOK, OrderInv, UseInv, LagInv, OwnInv, pc # "idle",
         LateCount(results[call.sender]) = 0, call.sender # Hk
  PROVE  /\ data_receivedf[call.sender] = 1 /\ Asked(call.sender)
              => data_receive[call.sender].sensor = call.sensor
         /\ Returning => /\ call.got.n = CallNumber(call.sender)
                         /\ call.got.sensor = call.sensor
                         /\ ssm[call.sensor] = call.got.value
<1> DEFINE s == call.sender
           reg == data_receive[s]
<1>1. /\ s \in Senders /\ s \in ExceptHk /\ CallNumber(s) \in Nat
      /\ reg.n \in Nat /\ call.got.n \in Nat
  BY CallerInside, ResultNumbers DEF ExceptHk
<1>2. Asked(s) => reg.n <= CallNumber(s)
  BY <1>1 DEF OrderInv, RegisterOldest, Newest
<1>3. TrueIfOwn(reg) /\ (Returning => TrueIfOwn(call.got))
  BY DEF OwnInv, OwnAnswerTrue
<1>4. ASSUME data_receivedf[s] = 1, Asked(s)
      PROVE  reg.sensor = call.sensor
  <2>1. CallNumber(s) - reg.n <= 0
    BY <1>1, <1>4 DEF LagInv, LagKept, InLag
  <2>2. reg.n = CallNumber(s)
    BY <1>1, <1>2, <1>4, <2>1
  <2> QED BY <1>3, <2>2 DEF TrueIfOwn
<1>5. ASSUME Returning
      PROVE  /\ call.got.n = CallNumber(s) /\ call.got.sensor = call.sensor
             /\ ssm[call.sensor] = call.got.value
  <2>1. CallNumber(s) - call.got.n <= 0
    BY <1>1, <1>5 DEF LagInv, LagKept, InLag
  <2>2. call.got.n <= reg.n /\ reg.n <= CallNumber(s)
    BY <1>2, <1>5 DEF UseInv, GotIsFresh, Returning, Asked
  <2>3. call.got.n = CallNumber(s)
    BY <1>1, <2>1, <2>2
  <2> QED BY <1>3, <1>5, <2>3 DEF TrueIfOwn
<1> QED BY <1>4, <1>5

(* So does the end of a call.                                                 *)
LEMMA OwnByEnd ==
  ASSUME TypeOK, OrderInv, UseInv, LagInv, OwnInv, pc # "idle",
         NEW o \in {"lost", "late", "mismatch", "value"}, Ending(o)
  PROVE  OwnInv'
<1> DEFINE s == call.sender
           r == [outcome |-> o, sensor |-> call.sensor, got |-> call.got]
<1>1. Return(o) /\ pc' = "idle" /\ Asked(s) /\ s \in Senders
  BY CallerInside DEF Ending, Return
<1>2. OwnRequest' /\ OwnAnswerTrue'
  BY <1>1 DEF OwnRequest, OwnAnswerTrue
<1>3. OwnResults'
  <2> SUFFICES ASSUME NEW id \in ExceptHk, LateCount(results'[id]) = 0,
                      NEW k \in DOMAIN results'[id]
               PROVE  /\ results'[id][k].outcome # "mismatch"
                      /\ results'[id][k].outcome = "value" =>
                           /\ results'[id][k].got.n = k
                           /\ results'[id][k].got.sensor = results'[id][k].sensor
    BY DEF OwnResults, LateCount
  <2>1. id \in Senders /\ id # Hk
    BY DEF ExceptHk
  <2>2. CASE id # s
    <3>1. results'[id] = results[id]
      BY <1>1, <2>1, <2>2, Returned
    <3> QED BY <2>2, <3>1 DEF OwnInv, OwnResults
  <2>3. CASE id = s
    <3>1. LateCount(results[s]) = 0 /\ o # "late"
      <4>1. r \in Results /\ results[s] \in Seq(Results)
            /\ results'[s] = Append(results[s], r) /\ r.outcome = o
        BY <1>1, CallerInside, Returned
      <4> HIDE DEF r
      <4>2. /\ LateCount(results[s]) \in Nat
            /\ LateCount(Append(results[s], r))
                 = IF o = "late" THEN LateCount(results[s]) + 1 ELSE LateCount(results[s])
        BY <4>1, LateCounted
      <4> QED BY <2>3, <4>1, <4>2
    <3>2. CASE k \in DOMAIN results[id] /\ results'[id][k] = results[id][k]
      BY <2>3, <3>1, <3>2 DEF OwnInv, OwnResults
    <3>3. CASE k = CallNumber(id) /\ results'[id][k] = r
      <4>1. o # "mismatch"
        <5> SUFFICES ASSUME o = "mismatch" PROVE FALSE
          OBVIOUS
        <5>1. data_receivedf[s] = 1 /\ data_receive[s].sensor # call.sensor
          BY <2>1, <2>3 DEF Ending, OrderInv, FlagSeen
        <5> QED BY <1>1, <2>1, <2>3, <3>1, <5>1, AnswerIsOwn
      <4>2. o = "value" => Returning
        BY <2>1, <2>3 DEF Ending, Returning
      <4> QED BY <2>1, <2>3, <3>1, <3>3, <4>1, <4>2, AnswerIsOwn
    <3> QED BY <1>1, <2>1, <3>2, <3>3, ResultsGrow
  <2> QED BY <2>2, <2>3
<1> QED BY <1>2, <1>3 DEF OwnInv

(* So do all steps of a call.                                                 *)
LEMMA OwnByCaller ==
  ASSUME TypeOK, OrderInv, UseInv, LagInv, OwnInv, CallerStep
  PROVE  OwnInv'
<1>1. UNCHANGED <<toSsm, toObc, data_receive, ssm>>
  BY CallerQuiet
<1>2. CASE (Timeout \/ CheckName \/ ReturnValue) /\ pc' # "value"
  BY <1>2, Ends, OwnByEnd
<1>3. CASE (Timeout \/ ReturnValue) /\ pc' = "value"
  BY <1>3 DEF Timeout, ReturnValue, Return
<1>4. CASE RequestSensorData \/ SetVariable
  <2> DEFINE s == call'.sender
  <2>1. pc = "idle" /\ pc' \in {"request", "set"} /\ results' = results
    BY <1>4, Begun
  <2>2. s \in Senders
    <3>1. TypeOK'
      BY <1>4, MutexTaken
    <3> QED BY <2>1, <3>1, ConstantsOK DEF TypeOK, Calls
  <2> HIDE DEF s
  <2>3. /\ \A n \in Coming(s) : n # CallNumber(s)
        /\ data_receive[s].n # CallNumber(s)
    BY <2>1, <2>2, NothingYet DEF Asked
  <2>4. /\ \A k \in DOMAIN toSsm :
             IsGet(toSsm[k]) /\ toSsm[k].sender = s => toSsm[k].n # CallNumber(s)
        /\ \A k \in DOMAIN toObc : toObc[k].to = s => toObc[k].n # CallNumber(s)
    BY <2>2, <2>3, ComingNumbers
  <2>5. OwnRequest'
    BY <1>1, <2>1, <2>4 DEF OwnRequest, IsGet, CallNumber, s
  <2>6. OwnAnswerTrue'
    BY <1>1, <2>1, <2>3, <2>4 DEF OwnAnswerTrue, TrueIfOwn, Returning, CallNumber, s
  <2> QED BY <2>1, <2>5, <2>6 DEF OwnInv, OwnResults
<1>5. ASSUME pc # "idle", call'.sender = call.sender, call'.sensor = call.sensor,
             results' = results, Returning' => TrueIfOwn(call'.got)
      PROVE  OwnInv'
  BY <1>1, <1>5
  DEF OwnInv, OwnRequest, OwnAnswerTrue, TrueIfOwn, CallNumber, OwnResults, IsGet
<1>6. CASE SeeFlag \/ (CheckName /\ pc' = "value")
  BY <1>5, <1>6 DEF SeeFlag, CheckName, Return, Returning
<1>7. CASE TakeValue
  <2>1. /\ pc = "value" /\ results' = results
        /\ call'.sender = call.sender /\ call'.sensor = call.sensor
        /\ call'.got = data_receive[ValueRegister(call.sender)]
    BY <1>7 DEF TakeValue, TypeOK, Calls
  <2>2. Returning' => TrueIfOwn(call'.got)
    BY <2>1 DEF Returning, ValueRegister, OwnInv, OwnAnswerTrue
  <2> QED BY <1>5, <2>1, <2>2
<1>8. CASE UNCHANGED vars
  BY <1>8 DEF vars, registers, bus, OwnInv, OwnRequest, OwnAnswerTrue, TrueIfOwn,
             CallNumber, OwnResults, IsGet, Returning
<1> QED BY <1>2, <1>3, <1>4, <1>6, <1>7, <1>8 DEF CallerStep

-----------------------------------------------------------------------------
(* The invariant as a whole, and what follows from it.                       *)

(* The inductive invariant holds at the start.                                *)
LEMMA InvInit == Init => Inv
BY TypeInit, OrderInit, UseInit, HkInit, LagInit, OwnInit DEF Inv

(* Every step keeps the inductive invariant.                                  *)
LEMMA InvNext == Inv /\ [Next]_vars => Inv'
<1> SUFFICES ASSUME Inv, [Next]_vars PROVE Inv'
  OBVIOUS
<1>1. TypeOK /\ OrderInv /\ UseInv /\ HkInv /\ LagInv /\ OwnInv
  BY DEF Inv
<1>2. TypeOK' /\ OrderInv' /\ UseInv' /\ HkInv' /\ LagInv'
  BY <1>1, TypeNext, OrderNext, UseNext, HkNext, LagNext
<1>3. OwnInv'
  <2>1. CASE SendSetVar \/ SendReqData
    BY <1>1, <2>1, OwnBySending
  <2>2. CASE SsmTakes
    BY <1>1, <2>2, OwnBySsm
  <2>3. CASE AlertCanData \/ AnswerLost
    BY <1>1, <2>3, OwnByAnswer
  <2>4. CASE CallerStep
    BY <1>1, <2>4, OwnByCaller
  <2> QED BY <2>1, <2>2, <2>3, <2>4 DEF Next, Caller, Bus, CallerStep
<1> QED BY <1>2, <1>3 DEF Inv

(* The whole inductive invariant, for any constants.                          *)
THEOREM AlwaysInv == Spec => []Inv
BY InvInit, InvNext, PTL DEF Spec

(* The registers keep their ranges, Can0_Mutex is held exactly while a call    *)
(* is under way, an answer is used for one call at most, in the order the      *)
(* answers were asked for, by every sender but housekeeping, and housekeeping   *)
(* returns answers of scheduling that are never older than those before.       *)
THEOREM RequestInvariant == Spec => []RequestInv
<1>1. Inv => RequestInv
  BY DEF Inv, UseInv, HkInv, RequestInv
<1> QED BY <1>1, AlwaysInv, PTL

(* A value is as many calls old as calls gave up too early, at most, for every  *)
(* sender but housekeeping.                                                   *)
THEOREM LagIsBounded == Spec => []LagBounded
<1>1. Inv => LagBounded
  BY DEF Inv, LagInv
<1> QED BY <1>1, AlwaysInv, PTL

(* As long as no answer is late, whatever is lost and whatever housekeeping     *)
(* clears, a call of any other sender has the answer to its own request or      *)
(* none, and its set_variable reports success only when the variable holds the *)
(* value.                                                                     *)
THEOREM CallersInStep == Spec => []InStep
<1>1. ASSUME Inv
      PROVE  InStep
  <2> SUFFICES ASSUME \A id \in Senders : LateCount(results[id]) = 0
               PROVE  OwnAnswer /\ SetMeansSet
    BY DEF InStep
  <2>1. OwnAnswer
    BY <1>1 DEF Inv, OwnInv, OwnResults, OwnAnswer, ExceptHk
  <2>2. SetMeansSet
    <3> SUFFICES ASSUME pc = "clear", call.sender # Hk,
                        call.got.value = call.value
                 PROVE  ssm[call.sensor] = call.value
      BY DEF SetMeansSet
    <3>1. call.sender \in Senders
      BY <1>1, CallerInside DEF Inv
    <3> QED BY <1>1, <3>1, AnswerIsOwn DEF Inv, Returning
  <2> QED BY <2>1, <2>2
<1> QED BY <1>1, AlwaysInv, PTL
=============================================================================

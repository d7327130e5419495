------------------------- MODULE FaultRecoveryProofs -------------------------
(* Proofs about the error channel of FaultRecovery, for any tasks, reports   *)
(* and lengths of the queues: FDIR reads the low-severity queue once, and    *)
(* what it finds in the high-severity queue is what was reported, unless     *)
(* two tasks used the shared array at once.                                  *)
EXTENDS FaultRecovery, SequenceTheorems, TLAPS

(* The state the two properties are about. *)
reportState == <<high_error_array, rep, high_fifo, lowsev, lowSeen, mixed>>

Given == Asserts \cup SsmAsserts
Places == {"idle", "fill", "take", "send", "give", "signal", "poll"}
CallSet == [pc : Places, sev : {"high", "low"}, report : ReportSet \cup {NoReport},
            at : Int, polls : Int]

-----------------------------------------------------------------------------
(* The inductive invariant *)

RepOK == rep \in [Reporters -> CallSet]

(* Between taking the mutex of the low channel and giving it, a reporter      *)
(* holds it; so FDIR, once it has it, is never robbed of it.                 *)
LowHeld ==
  \A t \in Reporters :
    (rep[t].sev = "low" /\ rep[t].pc \in {"send", "give"}) => lowsev = t

LowRead ==
  \/ lowsev # "fdir" /\ lowSeen = 0
  \/ lowsev = "fdir" /\ lowSeen \in {0, 1}

(* t uses the array of the high channel. *)
UsesHigh(t) == rep[t].sev = "high" /\ rep[t].pc \in {"fill", "take", "send"}

UsedAlone ==
  mixed = 0 => \A t, u \in Reporters : UsesHigh(t) /\ UsesHigh(u) => t = u

(* The array of the high channel holds what its user passed, the error first. *)
ArrayFilled ==
  mixed = 0 =>
    \A t \in Reporters : UsesHigh(t) =>
      /\ rep[t].report \in Asserts
      /\ high_error_array.error = rep[t].report.error
      /\ rep[t].pc # "fill" => high_error_array = rep[t].report

ArrayOK == high_error_array = [task  |-> high_error_array.task,
                               code  |-> high_error_array.code,
                               error |-> high_error_array.error]

HighQueue == mixed = 0 => high_fifo \in Seq(Given)

Inv == RepOK /\ LowHeld /\ LowRead /\ UsedAlone /\ ArrayOK /\ ArrayFilled /\ HighQueue

-----------------------------------------------------------------------------
(* A fact about the constants: FDIR is none of the reporters, nor is "free".  *)
LEMMA OwnersDiffer == "fdir" \notin Reporters /\ "free" \notin Reporters
  <1>1. Tasks = {"hk", "time", "coms", "eps", "pay", "opr", "sched", "wdt", "mem"}
    BY DEF Tasks, TaskOrder
  <1> QED
    BY <1>1, ConstantsOK DEF ConstantsOK

(* A reporter that is idle is in none of the places the invariant is about. *)
LEMMA IdleCall == Idle \in CallSet /\ Idle.pc = "idle" /\ Idle.sev = "high"
  BY ConstantsOK DEF ConstantsOK, Idle, CallSet, Places, NoReport

(* The changes that are made to a call give a call.                          *)
Begun(c, sev, r) == [c EXCEPT !.pc = "fill", !.sev = sev, !.report = r]
Polled(c, polls) == [c EXCEPT !.polls = polls]
Signalling(c, polls, at) == [c EXCEPT !.pc = "signal", !.polls = polls, !.at = at]
Polling(c) == [c EXCEPT !.pc = "poll"]

(* A new call. *)
LEMMA BegunCall ==
  ASSUME NEW c \in CallSet, NEW sev \in {"high", "low"}, NEW r \in ReportSet
  PROVE  /\ Begun(c, sev, r) \in CallSet /\ Begun(c, sev, r).pc = "fill"
         /\ Begun(c, sev, r).sev = sev /\ Begun(c, sev, r).report = r
  BY DEF CallSet, Places, Begun

(* A poll that goes on. *)
LEMMA PolledCall ==
  ASSUME NEW c \in CallSet, NEW polls \in Int
  PROVE  Polled(c, polls) \in CallSet /\ Polled(c, polls).pc = c.pc
  BY DEF CallSet, Polled

(* The next case of the switch over the tasks. *)
LEMMA SignallingCall ==
  ASSUME NEW c \in CallSet, NEW polls \in Int, NEW at \in Int
  PROVE  Signalling(c, polls, at) \in CallSet /\ Signalling(c, polls, at).pc = "signal"
  BY DEF CallSet, Places, Signalling

(* The wait for a signal. *)
LEMMA PollingCall ==
  ASSUME NEW c \in CallSet
  PROVE  Polling(c) \in CallSet /\ Polling(c).pc = "poll"
  BY DEF CallSet, Places, Polling

(* Init satisfies the invariant. *)
LEMMA InitInv == Init => Inv
  BY OwnersDiffer, IdleCall
  DEF Init, Inv, RepOK, LowHeld, LowRead, UsesHigh, UsedAlone, ArrayFilled, ArrayOK,
      HighQueue, NoReport

(* A step that leaves the reports alone keeps the invariant. *)
LEMMA QuietInv ==
  ASSUME Inv, UNCHANGED reportState
  PROVE  Inv'
  BY DEF reportState, Inv, RepOK, LowHeld, LowRead, UsesHigh, UsedAlone, ArrayFilled,
         ArrayOK, HighQueue

-----------------------------------------------------------------------------
(* The reporters *)

(* A call begins: the error code is in the array, and it is alone there, or   *)
(* mixed is set.                                                             *)
LEMMA CallInv ==
  ASSUME Inv, NEW t \in Reporters, NEW sev \in {"high", "low"}, NEW r \in ReportSet,
         sev = "high" => r \in Asserts, Call(t, sev, r)
  PROVE  Inv'
  <1> DEFINE call == Begun(Idle, sev, r)
  <1>1. call \in CallSet /\ call.pc = "fill" /\ call.sev = sev /\ call.report = r
    BY IdleCall, BegunCall
  <1>2. rep' = [rep EXCEPT ![t] = call]
    BY DEF Call, Begun
  <1> HIDE DEF call
  <1>3. RepOK'
    BY <1>1, <1>2 DEF Inv, RepOK
  <1>4. LowHeld' /\ LowRead'
    BY <1>1, <1>2 DEF Call, Inv, RepOK, LowHeld, LowRead, fdir
  <1>5. mixed' = 0 => mixed = 0 /\ Sharing(sev) = {}
    BY DEF Call
  <1>6. UsedAlone'
    BY <1>1, <1>2, <1>5 DEF Inv, RepOK, UsedAlone, UsesHigh, Sharing
  <1>7. ArrayOK'
    BY DEF Call, Inv, ArrayOK
  <1>8. ArrayFilled'
    <2> SUFFICES ASSUME mixed' = 0, NEW u \in Reporters, UsesHigh(u)'
                 PROVE  /\ rep'[u].report \in Asserts
                        /\ high_error_array'.error = rep'[u].report.error
                        /\ rep'[u].pc # "fill" => high_error_array' = rep'[u].report
      BY DEF ArrayFilled
    <2>1. CASE u = t
      BY <2>1, <1>1, <1>2 DEF Call, Inv, RepOK, ArrayOK, UsesHigh
    <2>2. CASE u # t
      BY <2>2, <1>1, <1>2, <1>5
      DEF Call, Inv, RepOK, ArrayFilled, UsesHigh, Sharing
    <2> QED
      BY <2>1, <2>2
  <1>9. HighQueue'
    BY <1>5 DEF Call, Inv, HighQueue
  <1> QED
    BY <1>3, <1>4, <1>6, <1>7, <1>8, <1>9 DEF Inv

(* The rest of the report is written; the array is what was passed.           *)
LEMMA FillInv ==
  ASSUME Inv, NEW t \in Reporters, Fill(t)
  PROVE  Inv'
  <1>1. rep' = [rep EXCEPT ![t].pc = "take"] /\ rep[t].pc = "fill"
    BY DEF Fill, Goto, At
  <1>2. RepOK'
    BY <1>1 DEF Inv, RepOK, CallSet, Places
  <1>3. \A u \in Reporters : /\ rep'[u].sev = rep[u].sev /\ rep'[u].report = rep[u].report
                             /\ u # t => rep'[u].pc = rep[u].pc
    BY <1>1 DEF Inv, RepOK, CallSet
  <1>4. rep'[t].pc = "take"
    BY <1>1 DEF Inv, RepOK, CallSet
  <1>5. LowHeld' /\ LowRead'
    BY <1>3, <1>4 DEF Fill, Inv, LowHeld, LowRead, fdir
  <1>6. UsedAlone' /\ HighQueue'
    BY <1>1, <1>3, <1>4 DEF Fill, Inv, UsedAlone, UsesHigh, HighQueue
  <1>7. \A r \in ReportSet \cup {NoReport} :
          r = [task |-> r.task, code |-> r.code, error |-> r.error]
    BY ConstantsOK DEF ConstantsOK, NoReport
  <1>8. rep[t].report \in ReportSet \cup {NoReport}
    BY DEF Inv, RepOK, CallSet
  <1>9. ArrayOK'
    BY <1>7, <1>8 DEF Fill, Inv, ArrayOK
  <1>10. ArrayFilled'
    <2> SUFFICES ASSUME mixed' = 0, NEW u \in Reporters, UsesHigh(u)'
                 PROVE  /\ rep'[u].report \in Asserts
                        /\ high_error_array'.error = rep'[u].report.error
                        /\ rep'[u].pc # "fill" => high_error_array' = rep'[u].report
      BY DEF ArrayFilled
    <2>1. UsesHigh(u) /\ mixed = 0
      BY <1>1, <1>3, <1>4 DEF UsesHigh, Fill
    <2>2. /\ rep[u].report \in Asserts
          /\ high_error_array.error = rep[u].report.error
          /\ rep[u].pc # "fill" => high_error_array = rep[u].report
      BY <2>1 DEF Inv, ArrayFilled
    <2>3. CASE rep[t].sev = "high"
      <3>1. u = t
        BY <2>1, <2>3, <1>1 DEF Inv, UsedAlone, UsesHigh
      <3>2. high_error_array' = rep[t].report
        BY <2>2, <2>3, <3>1, <1>7, <1>8 DEF Fill
      <3> QED
        BY <2>2, <3>1, <3>2, <1>3
    <2>4. CASE rep[t].sev # "high"
      BY <2>1, <2>2, <2>4, <1>3 DEF Fill, UsesHigh
    <2> QED
      BY <2>3, <2>4
  <1> QED
    BY <1>2, <1>5, <1>6, <1>9, <1>10 DEF Inv

(* The mutex of the high channel is taken, or not: the array stays as it is.  *)
LEMMA AssertTakeInv ==
  ASSUME Inv, NEW t \in Reporters, AssertTake(t)
  PROVE  Inv'
  <1>1. PICK pc \in {"send", "give"} : rep' = [rep EXCEPT ![t].pc = pc]
    BY DEF AssertTake, Goto
  <1>2. /\ UNCHANGED <<high_error_array, high_fifo, lowsev, lowSeen, mixed>>
        /\ rep[t].sev = "high" /\ rep[t].pc = "take"
    BY DEF AssertTake, At, fdir
  <1>3. RepOK' /\ ArrayOK' /\ HighQueue'
    BY <1>1, <1>2 DEF Inv, RepOK, CallSet, Places, ArrayOK, HighQueue
  <1>4. /\ \A u \in Reporters : rep'[u].sev = rep[u].sev /\ rep'[u].report = rep[u].report
        /\ \A u \in Reporters : u # t => rep'[u].pc = rep[u].pc
        /\ rep'[t].pc = pc
    BY <1>1 DEF Inv, RepOK, CallSet
  <1>5. LowHeld' /\ LowRead' /\ UsedAlone' /\ ArrayFilled'
    BY <1>1, <1>2, <1>4 DEF Inv, LowHeld, LowRead, UsesHigh, UsedAlone, ArrayFilled
  <1> QED
    BY <1>3, <1>5 DEF Inv

(* What is queued is the report of the caller, if it had the array alone.     *)
LEMMA AssertSendInv ==
  ASSUME Inv, NEW t \in Reporters, AssertSend(t)
  PROVE  Inv'
  <1>1. rep' = [rep EXCEPT ![t].pc = "give"]
    BY DEF AssertSend, Goto
  <1>2. HighQueue'
    <2> SUFFICES ASSUME mixed = 0
                 PROVE  high_fifo' \in Seq(Given)
      BY DEF HighQueue, AssertSend
    <2>1. high_error_array \in Given
      BY DEF AssertSend, At, Inv, ArrayFilled, UsesHigh, Given
    <2>2. high_fifo \in Seq(Given)
      BY DEF Inv, HighQueue
    <2> QED
      BY <2>1, <2>2 DEF AssertSend, Push
  <1> QED
    BY <1>1, <1>2
    DEF AssertSend, At, fdir, Inv, RepOK, CallSet, Places, LowHeld, LowRead, UsesHigh,
        UsedAlone, ArrayOK, ArrayFilled

(* The end of errorASSERT changes nothing the invariant is about but the place *)
(* of the caller, which has left the array.                                  *)
LEMMA AfterSendInv ==
  ASSUME Inv, NEW t \in Reporters, AssertGive(t) \/ SetSignal(t) \/ Poll(t)
  PROVE  Inv'
  <1>1. PICK c \in CallSet : /\ rep' = [rep EXCEPT ![t] = c]
                             /\ c.pc \in {"idle", "signal", "poll"}
    <2>1. CASE AssertGive(t)
      <3>1. CASE rep[t].report.task \in Tasks
        <4>1. PICK i \in DOMAIN TaskOrder : TaskOrder[i] = rep[t].report.task
          BY <3>1 DEF Tasks
        <4> DEFINE place == CHOOSE j \in DOMAIN TaskOrder : TaskOrder[j] = rep[t].report.task
        <4>2. place \in DOMAIN TaskOrder
          BY <4>1
        <4>3. place \in Int
          BY <4>2 DEF TaskOrder
        <4> HIDE DEF place
        <4>4. rep' = [rep EXCEPT ![t] = Signalling(rep[t], AssertPolls, place)]
          BY <2>1, <3>1 DEF AssertGive, place, Signalling
        <4>5. rep[t] \in CallSet /\ AssertPolls \in Int
          BY ConstantsOK DEF ConstantsOK, Inv, RepOK
        <4>6. /\ Signalling(rep[t], AssertPolls, place) \in CallSet
              /\ Signalling(rep[t], AssertPolls, place).pc = "signal"
          BY <4>3, <4>5, SignallingCall
        <4> QED
          BY <4>4, <4>6
      <3>2. CASE rep[t].report.task \notin Tasks
        BY <2>1, <3>2, IdleCall DEF AssertGive
      <3> QED
        BY <3>1, <3>2
    <2>2. CASE SetSignal(t)
      <3>1. rep' = [rep EXCEPT ![t] = Polling(rep[t])]
        BY <2>2 DEF SetSignal, Goto, Polling
      <3>2. Polling(rep[t]) \in CallSet /\ Polling(rep[t]).pc = "poll"
        BY PollingCall DEF Inv, RepOK
      <3> QED
        BY <3>1, <3>2
    <2>3. CASE Poll(t)
      <3>1. /\ rep[t] \in CallSet /\ rep[t].pc = "poll"
            /\ rep[t].at + 1 \in Int /\ rep[t].polls - 1 \in Int
        BY <2>3 DEF Poll, At, Inv, RepOK, CallSet
      <3>2. \E c \in {Idle, Polled(rep[t], rep[t].polls - 1),
                      Signalling(rep[t], rep[t].polls - 1, rep[t].at + 1)} :
              rep' = [rep EXCEPT ![t] = c]
        BY <2>3 DEF Poll, Polled, Signalling
      <3>3. /\ Polled(rep[t], rep[t].polls - 1) \in CallSet
            /\ Polled(rep[t], rep[t].polls - 1).pc = "poll"
        BY <3>1, PolledCall
      <3>4. /\ Signalling(rep[t], rep[t].polls - 1, rep[t].at + 1) \in CallSet
            /\ Signalling(rep[t], rep[t].polls - 1, rep[t].at + 1).pc = "signal"
        BY <3>1, SignallingCall
      <3> QED
        BY <3>2, <3>3, <3>4, IdleCall
    <2> QED
      BY <2>1, <2>2, <2>3
  <1>2. /\ UNCHANGED <<high_error_array, high_fifo, lowsev, lowSeen, mixed>>
        /\ rep[t].pc \in {"give", "signal", "poll"}
    BY DEF AssertGive, SetSignal, Poll, At, fdir, channel
  <1> QED
    BY <1>1, <1>2
    DEF Inv, RepOK, LowHeld, LowRead, UsesHigh, UsedAlone, ArrayOK, ArrayFilled, HighQueue

(* errorREPORT: only the holder of the mutex gives it.                        *)
LEMMA ReportInv ==
  ASSUME Inv, NEW t \in Reporters, ReportTake(t) \/ ReportSend(t) \/ ReportGive(t)
  PROVE  Inv'
  <1>1. PICK c \in CallSet :
          /\ rep' = [rep EXCEPT ![t] = c]
          /\ c.pc = "idle" \/ c.sev = "low"
          /\ c.sev = "low" /\ c.pc \in {"send", "give"} => lowsev' = t
    BY IdleCall
    DEF ReportTake, ReportSend, ReportGive, Goto, At, Inv, RepOK, CallSet, Places, LowHeld
  <1>2. /\ UNCHANGED <<high_error_array, high_fifo, lowSeen, mixed>>
        /\ rep[t].sev = "low"
    BY DEF ReportTake, ReportSend, ReportGive, At, fdir
  <1>3. \/ lowsev' = lowsev
        \/ lowsev = "free" /\ lowsev' = t
        \/ lowsev = t /\ lowsev' = "free"
    BY DEF ReportTake, ReportSend, ReportGive, At, Inv, LowHeld
  <1>4. RepOK' /\ ArrayOK' /\ HighQueue'
    BY <1>1, <1>2 DEF Inv, RepOK, ArrayOK, HighQueue
  <1>5. LowHeld' /\ LowRead'
    BY <1>1, <1>2, <1>3, OwnersDiffer DEF Inv, RepOK, LowHeld, LowRead
  <1>6. UsedAlone' /\ ArrayFilled'
    BY <1>1, <1>2 DEF Inv, RepOK, UsesHigh, UsedAlone, ArrayFilled
  <1> QED
    BY <1>4, <1>5, <1>6 DEF Inv

-----------------------------------------------------------------------------
(* The other actors *)

(* An SSM queues a report of its own. *)
LEMMA SsmInv ==
  ASSUME Inv, SsmErrorAssert
  PROVE  Inv'
  <1>1. UNCHANGED <<high_error_array, rep, lowsev, lowSeen, mixed>>
    BY DEF SsmErrorAssert, fdir
  <1>2. HighQueue'
    <2>1. PICK r \in SsmAsserts : high_fifo' = Push(high_fifo, r)
      BY DEF SsmErrorAssert
    <2>2. r \in Given
      BY DEF Given
    <2> QED
      BY <1>1, <2>1, <2>2 DEF Inv, HighQueue, Push
  <1> QED
    BY <1>1, <1>2
    DEF Inv, RepOK, LowHeld, LowRead, UsesHigh, UsedAlone, ArrayOK, ArrayFilled

(* FDIR takes a report from the high-severity queue. *)
LEMMA CheckHighInv ==
  ASSUME Inv, CheckHigh
  PROVE  Inv'
  <1>1. UNCHANGED <<high_error_array, rep, lowsev, lowSeen, mixed>>
    BY DEF CheckHigh, senders
  <1>2. HighQueue'
    <2>1. high_fifo' = high_fifo \/ (high_fifo # <<>> /\ high_fifo' = Tail(high_fifo))
      BY DEF CheckHigh
    <2> QED
      BY <1>1, <2>1 DEF Inv, HighQueue
  <1> QED
    BY <1>1, <1>2
    DEF Inv, RepOK, LowHeld, LowRead, UsesHigh, UsedAlone, ArrayOK, ArrayFilled

(* FDIR takes the mutex of the low-severity queue, and with it what is there:  *)
(* nobody else holds the mutex, and FDIR never gives it.                     *)
LEMMA CheckLowInv ==
  ASSUME Inv, CheckLow
  PROVE  Inv'
  <1>1. UNCHANGED <<high_error_array, rep, high_fifo, mixed>>
    BY DEF CheckLow, senders
  <1>2. \/ lowsev = "free" /\ lowsev' = "fdir" /\ lowSeen' \in {lowSeen, lowSeen + 1}
        \/ UNCHANGED <<lowsev, lowSeen>>
    BY DEF CheckLow
  <1>3. LowHeld' /\ LowRead'
    BY <1>1, <1>2, OwnersDiffer DEF Inv, LowHeld, LowRead
  <1> QED
    BY <1>1, <1>3
    DEF Inv, RepOK, UsesHigh, UsedAlone, ArrayOK, ArrayFilled, HighQueue

(* A restarted task is in no call any more. *)
LEMMA RestartInv ==
  ASSUME Inv, RestartTask
  PROVE  Inv'
  <1>1. /\ rep' \in [Reporters -> CallSet]
        /\ \A t \in Reporters : rep'[t] \in {Idle, rep[t]}
    BY IdleCall DEF RestartTask, Inv, RepOK
  <1>2. UNCHANGED <<high_error_array, high_fifo, lowsev, lowSeen, mixed>>
    BY DEF RestartTask, queues
  <1> QED
    BY <1>1, <1>2, IdleCall
    DEF Inv, RepOK, LowHeld, LowRead, UsesHigh, UsedAlone, ArrayOK, ArrayFilled, HighQueue

(* The resolution sequences do not touch the channel. *)
LEMMA ResolveQuiet ==
  ASSUME Resolve
  PROVE  UNCHANGED reportState
  <1>1. CASE ResolutionSequence1
    BY <1>1 DEF ResolutionSequence1, unresolved, senders, queues, reportState
  <1>2. CASE ResolutionSequence1_1
    BY <1>2 DEF ResolutionSequence1_1, unresolved, senders, queues, reportState
  <1>3. CASE ResolutionSequence1_2
    BY <1>3 DEF ResolutionSequence1_2, unresolved, senders, queues, reportState
  <1>4. CASE ResolutionSequence1_3
    BY <1>4 DEF ResolutionSequence1_3, unresolved, senders, queues, reportState
  <1>5. CASE ResolutionSequence1_4
    BY <1>5 DEF ResolutionSequence1_4, unresolved, senders, queues, reportState
  <1>6. CASE TestChip
    BY <1>6 DEF TestChip, unresolved, senders, queues, reportState
  <1>7. CASE CompareChip
    BY <1>7 DEF CompareChip, unresolved, senders, queues, reportState
  <1>8. CASE SpimemErrorDuringInit
    BY <1>8 DEF SpimemErrorDuringInit, unresolved, senders, queues, reportState
  <1>9. CASE ResolutionSequence4
    BY <1>9 DEF ResolutionSequence4, unresolved, senders, queues, reportState
  <1>10. CASE ResolutionSequence5
    BY <1>10 DEF ResolutionSequence5, unresolved, senders, queues, reportState
  <1>11. CASE ResolutionSequence7
    BY <1>11 DEF ResolutionSequence7, unresolved, senders, queues, reportState
  <1>12. CASE ResolutionSequence11
    BY <1>12 DEF ResolutionSequence11, unresolved, senders, queues, reportState
  <1>13. CASE ResolutionSequence14
    BY <1>13 DEF ResolutionSequence14, unresolved, senders, queues, reportState
  <1>14. CASE ResolutionSequence18
    BY <1>14 DEF ResolutionSequence18, unresolved, senders, queues, reportState
  <1>15. CASE ResolutionSequence29
    BY <1>15 DEF ResolutionSequence29, unresolved, senders, queues, reportState
  <1>16. CASE ResolutionSequence31
    BY <1>16 DEF ResolutionSequence31, unresolved, senders, queues, reportState
  <1> QED
    BY <1>1, <1>2, <1>3, <1>4, <1>5, <1>6, <1>7, <1>8,
       <1>9, <1>10, <1>11, <1>12, <1>13, <1>14, <1>15, <1>16
    DEF Resolve

(* Nor do the commands. *)
LEMMA CommandQuiet ==
  ASSUME Command
  PROVE  UNCHANGED reportState
  <1>1. CASE Request
    BY <1>1 DEF Request, uncommanded, senders, queues, reportState
  <1>2. CASE EnterCommand
    BY <1>2 DEF EnterCommand, uncommanded, senders, queues, reportState
  <1>3. CASE ExitCommand
    BY <1>3 DEF ExitCommand, uncommanded, senders, queues, reportState
  <1>4. CASE TaskCommand
    BY <1>4 DEF TaskCommand, uncommanded, senders, queues, reportState
  <1>5. CASE SetVariable
    BY <1>5 DEF SetVariable, uncommanded, senders, queues, reportState
  <1>6. CASE GetVariable
    BY <1>6 DEF GetVariable, uncommanded, senders, queues, reportState
  <1> QED
    BY <1>1, <1>2, <1>3, <1>4, <1>5, <1>6 DEF Command

(* Nor does the rest of FDIR, but for the looks into the queues and restarts. *)
LEMMA FdirQuiet ==
  ASSUME \/ MainLoop \/ GiveHigh \/ DecodeError \/ ClearOne \/ RecreateFifo \/ GetSignal
         \/ ClearFdirSignal \/ EnterSafeMode \/ StayInSafeMode \/ LeaveSafeMode
         \/ ExecCommands
  PROVE  UNCHANGED reportState
  <1>1. CASE MainLoop
    BY <1>1 DEF MainLoop, senders, queues, reportState
  <1>2. CASE GiveHigh
    BY <1>2 DEF GiveHigh, senders, reportState
  <1>3. CASE DecodeError
    BY <1>3 DEF DecodeError, senders, queues, reportState
  <1>4. CASE ClearOne
    BY <1>4 DEF ClearOne, senders, queues, reportState
  <1>5. CASE RecreateFifo
    BY <1>5 DEF RecreateFifo, senders, queues, reportState
  <1>6. CASE GetSignal
    BY <1>6 DEF GetSignal, unresolved, senders, queues, reportState
  <1>7. CASE ClearFdirSignal
    BY <1>7 DEF ClearFdirSignal, senders, queues, reportState
  <1>8. CASE EnterSafeMode
    BY <1>8 DEF EnterSafeMode, unmoded, senders, queues, reportState
  <1>9. CASE StayInSafeMode
    BY <1>9 DEF StayInSafeMode, unmoded, senders, queues, reportState
  <1>10. CASE LeaveSafeMode
    BY <1>10 DEF LeaveSafeMode, unmoded, senders, queues, reportState
  <1>11. CASE ExecCommands
    BY <1>11 DEF ExecCommands, senders, queues, reportState
  <1> QED
    BY <1>1, <1>2, <1>3, <1>4, <1>5, <1>6, <1>7, <1>8, <1>9, <1>10, <1>11

-----------------------------------------------------------------------------
(* Every step keeps the invariant. *)
LEMMA StepInv == Inv /\ [Next]_vars => Inv'
  <1> SUFFICES ASSUME Inv, [Next]_vars
               PROVE  Inv'
    OBVIOUS
  <1>1. CASE \E t \in Reporters : Report(t) \/ InCall(t)
    <2>1. PICK t \in Reporters : Report(t) \/ InCall(t)
      BY <1>1
    <2>2. ASSUME NEW r \in Asserts, Call(t, "high", r)
          PROVE  Inv'
      BY <2>2, CallInv DEF ReportSet
    <2>3. ASSUME NEW r \in Reports, Call(t, "low", r)
          PROVE  Inv'
      BY <2>3, CallInv DEF ReportSet
    <2>4. CASE InCall(t)
      BY <2>4, FillInv, AssertTakeInv, AssertSendInv, AfterSendInv, ReportInv DEF InCall
    <2> QED
      BY <2>1, <2>2, <2>3, <2>4 DEF Report
  <1>2. CASE (\E t \in starting : StartTask(t)) \/ ExitMessage \/ UNCHANGED vars
    <2>1. UNCHANGED reportState
      BY <1>2 DEF StartTask, ExitMessage, vars, reportState, channel, observers
    <2> QED
      BY <2>1, QuietInv
  <1>3. CASE SsmErrorAssert
    BY <1>3, SsmInv
  <1>4. CASE Fdir
    <2>1. CASE CheckHigh \/ CheckLow \/ RestartTask
      BY <2>1, CheckHighInv, CheckLowInv, RestartInv
    <2>2. CASE Resolve \/ Command
      BY <2>2, ResolveQuiet, CommandQuiet, QuietInv
    <2> QED
      BY <1>4, <2>1, <2>2, FdirQuiet, QuietInv DEF Fdir
  <1> QED
    BY <1>1, <1>2, <1>3, <1>4 DEF Next, Running

(* The invariant holds in every reachable state. *)
LEMMA AlwaysInv == Spec => []Inv
  BY InitInv, StepInv, PTL DEF Spec

(* FDIR decodes at most one low-severity error in all its life: the mutex of   *)
(* that queue, which check_error takes and does not give, is given by no      *)
(* reporter either, as one gives it only while it has it.                    *)
THEOREM LowIsReadOnce == Spec => []LowReadOnce
  <1>1. Inv => LowReadOnce
    BY DEF Inv, LowRead, LowReadOnce
  <1> QED
    BY <1>1, AlwaysInv, PTL

(* What is in the high-severity queue is a report of one call, as long as no   *)
(* two tasks were between the first write to the shared array and its copy    *)
(* to the queue.  Who holds the mutex plays no part: it is taken after the     *)
(* writes, and given by those who could not take it, too.                    *)
THEOREM ReportsQueuedAsGiven == Spec => []QueuedAsGiven
  <1>1. Inv => QueuedAsGiven
    <2> SUFFICES ASSUME Inv, mixed = 0, NEW i \in DOMAIN high_fifo
                 PROVE  high_fifo[i] \in Given
      BY DEF QueuedAsGiven, Given
    <2>1. high_fifo \in Seq(Given)
      BY DEF Inv, HighQueue
    <2> QED
      BY <2>1
  <1> QED
    BY <1>1, AlwaysInv, PTL

-----------------------------------------------------------------------------
(* FDIR's stack.  An action replaces the call on top by those it makes: what  *)
(* was below it is still there, and what it makes is there.                   *)

(* The tasks of the switches, and who a report or a command may name.         *)
LEMMA Names ==
  /\ "sched" \in Tasks /\ "opr" \in Tasks /\ "hk" \in Tasks
  /\ Tasks \subseteq Subjects /\ NoTask \in Subjects
  /\ \A r \in ReportSet : r.task \in Subjects
  /\ \A c \in Commands : c.arg \in Subjects
<1>1. Tasks = {"hk", "time", "coms", "eps", "pay", "opr", "sched", "wdt", "mem"}
  BY DEF Tasks, TaskOrder
<1> QED BY <1>1 DEF Subjects

(* What Op makes is a call, and one with another case or error is too.        *)
LEMMA CallTypes ==
  ASSUME NEW name \in CallNames, NEW t \in Subjects, NEW c \in Int
  PROVE  /\ Op(name, t, c) \in Calls /\ Op(name, t, c).op = name
         /\ \A i \in Int : /\ [Op(name, t, c) EXCEPT !.at = i] \in Calls
                           /\ [Op(name, t, c) EXCEPT !.at = i].op = name
                           /\ [Op(name, t, c) EXCEPT !.at = i].at = i
BY DEF Op, Calls

(* A call without an argument is a call.                                      *)
LEMMA JustTypes ==
  ASSUME NEW name \in CallNames
  PROVE  Just(name) \in Calls /\ Just(name).op = name
BY Names, CallTypes DEF Just

(* Lists of one or two calls, and lists put together.                         *)
LEMMA ListTypes ==
  /\ <<>> \in Seq(Calls)
  /\ \A a \in Calls : <<a>> \in Seq(Calls) /\ DOMAIN <<a>> = {1} /\ <<a>>[1] = a /\ <<a>> # <<>>
  /\ \A a, b \in Calls : <<a, b>> \in Seq(Calls)
  /\ \A q, r \in Seq(Calls) : q \o r \in Seq(Calls)
<1>1. \A a \in Calls : <<a>> \in Seq(Calls) /\ DOMAIN <<a>> = {1} /\ <<a>>[1] = a /\ <<a>> # <<>>
  OBVIOUS
<1>2. \A q, r \in Seq(Calls) : q \o r \in Seq(Calls)
  BY ConcatProperties
<1> QED BY <1>1, <1>2, EmptySeq

(* The list that enters SAFE_MODE begins with that call.                      *)
LEMMA EnterTypes ==
  /\ EnterSafe \in Seq(Calls) /\ EnterSafe # <<>> /\ 1 \in DOMAIN EnterSafe
  /\ EnterSafe[1].op = "enter_SAFE_MODE"
<1>1. Just("enter_SAFE_MODE") \in Calls /\ Just("enter_SAFE_MODE").op = "enter_SAFE_MODE"
  BY JustTypes DEF CallNames
<1> HIDE DEF Just
<1> QED BY <1>1, ListTypes DEF EnterSafe

(* The lists that clear a signal and restart a task.                          *)
LEMMA ClearTypes ==
  ASSUME NEW t \in Subjects
  PROVE  Clear(t) \in Seq(Calls) /\ Restart(t) \in Seq(Calls)
<1>1. {"clear_fdir_signal", "restart_task"} \subseteq CallNames /\ 0 \in Int
  BY DEF CallNames
<1>2. Op("clear_fdir_signal", t, 0) \in Calls /\ Op("restart_task", t, 0) \in Calls
  BY <1>1, CallTypes
<1> HIDE DEF Op
<1> QED BY <1>2, ListTypes DEF Clear, Restart

Pending == {todo[i] : i \in DOMAIN todo}

(* Only exec_commands makes cases of its switch: no table lists them.         *)
LEMMA CommandIsNone == "command" \notin CallNames
<1>1. DOMAIN Cases = 1 .. 30
  BY DEF Cases
<1>2. ASSUME NEW i \in 1 .. 30
      PROVE  Cases[i][3] # "command"
  BY SMT DEF Cases
<1>3. \A i \in DOMAIN Cases : Cases[i][3] # "command"
  BY <1>1, <1>2
<1> QED BY <1>3 DEF CallNames

(* The call on top of the stack.                                              *)
LEMMA TopTypes ==
  ASSUME todo \in Seq(Calls), todo # <<>>
  PROVE  /\ Head(todo) \in Calls /\ Head(todo) \in Pending
         /\ Head(todo).task \in Subjects /\ Head(todo).code \in Int /\ Head(todo).at \in Int
         /\ Head(todo).op = "command" => Head(todo).at \in 1 .. 14
<1>1. 1 \in DOMAIN todo /\ Head(todo) = todo[1]
  BY EmptySeq
<1>2. Head(todo) \in Calls
  BY HeadTailProperties
<1>3. DOMAIN CommandOrder = 1 .. 14
  BY DEF CommandOrder
<1>4. "command" \notin CallNames
  BY CommandIsNone
<1>5. \A c \in Calls : c.task \in Subjects /\ c.code \in Int /\ c.at \in Int
  <2>1. \A i \in DOMAIN CommandOrder : i \in Int
    BY <1>3
  <2> QED BY <2>1 DEF Calls
<1>6. \A c \in Calls : c.op = "command" => c.at \in DOMAIN CommandOrder
  BY <1>4 DEF Calls
<1>7. Head(todo).task \in Subjects /\ Head(todo).code \in Int /\ Head(todo).at \in Int
  BY <1>2, <1>5
<1>8. Head(todo).op = "command" => Head(todo).at \in DOMAIN CommandOrder
  BY <1>2, <1>6
<1>9. Head(todo) \in Pending
  BY <1>1 DEF Pending
<1> QED BY <1>2, <1>3, <1>7, <1>8, <1>9

(* The call on top gives way to those it makes; the others stay.              *)
LEMMA Replaced ==
  ASSUME todo \in Seq(Calls), todo # <<>>, NEW ops \in Seq(Calls), Becomes(ops)
  PROVE  /\ todo' \in Seq(Calls)
         /\ \A o \in Pending : o = Head(todo) \/ o \in Pending'
         /\ \A i \in DOMAIN ops : ops[i] \in Pending'
         /\ ops # <<>> => todo' # <<>> /\ Head(todo') = ops[1]
<1> DEFINE rest == Tail(todo)
<1>1. /\ rest \in Seq(Calls) /\ Len(todo) \in Nat /\ Len(todo) >= 1
      /\ Len(rest) = Len(todo) - 1 /\ Head(todo) = todo[1]
      /\ \A i \in 1 .. Len(todo) - 1 : rest[i] = todo[i + 1]
  BY EmptySeq, HeadTailProperties
<1> HIDE DEF rest
<1>2. /\ todo' \in Seq(Calls) /\ Len(todo') = Len(ops) + Len(rest)
      /\ \A i \in 1 .. Len(ops) + Len(rest) :
           todo'[i] = IF i <= Len(ops) THEN ops[i] ELSE rest[i - Len(ops)]
      /\ Len(ops) \in Nat /\ Len(rest) \in Nat
      /\ DOMAIN ops = 1 .. Len(ops) /\ DOMAIN todo = 1 .. Len(todo)
      /\ DOMAIN todo' = 1 .. Len(ops) + Len(rest)
  <2>1. todo' = ops \o rest
    BY DEF Becomes, rest
  <2>2. /\ ops \o rest \in Seq(Calls) /\ Len(ops \o rest) = Len(ops) + Len(rest)
        /\ \A i \in 1 .. Len(ops) + Len(rest) :
             (ops \o rest)[i] = IF i <= Len(ops) THEN ops[i] ELSE rest[i - Len(ops)]
    BY <1>1, ConcatProperties
  <2>3. \A q \in Seq(Calls) : Len(q) \in Nat /\ DOMAIN q = 1 .. Len(q)
    BY LenProperties
  <2>4. DOMAIN (ops \o rest) = 1 .. Len(ops) + Len(rest)
    BY <2>2, <2>3
  <2> QED BY <1>1, <2>1, <2>2, <2>3, <2>4
<1>3. ASSUME NEW i \in 1 .. Len(ops)
      PROVE  i \in DOMAIN todo' /\ todo'[i] = ops[i]
  <2>1. i \in 1 .. Len(ops) + Len(rest) /\ i <= Len(ops)
    BY <1>2
  <2> QED BY <1>2, <2>1
<1>4. ASSUME NEW i \in 1 .. Len(rest)
      PROVE  Len(ops) + i \in DOMAIN todo' /\ todo'[Len(ops) + i] = rest[i]
  <2>1. /\ Len(ops) + i \in 1 .. Len(ops) + Len(rest) /\ ~(Len(ops) + i <= Len(ops))
        /\ (Len(ops) + i) - Len(ops) = i
    BY <1>2
  <2> QED BY <1>2, <2>1
<1>5. ASSUME NEW o \in Pending, o # Head(todo)
      PROVE  o \in Pending'
  <2>1. PICK i \in 1 .. Len(todo) : o = todo[i]
    BY <1>2 DEF Pending
  <2>2. i # 1
    BY <1>1, <1>5, <2>1
  <2>3. i - 1 \in 1 .. Len(todo) - 1 /\ (i - 1) + 1 = i
    BY <1>1, <2>2
  <2>4. rest[i - 1] = o /\ i - 1 \in 1 .. Len(rest)
    BY <1>1, <2>1, <2>3
  <2>5. \E j \in DOMAIN todo' : o = todo'[j]
    BY <1>4, <2>4
  <2> QED BY <2>5 DEF Pending
<1>6. \A i \in DOMAIN ops : ops[i] \in Pending'
  <2>1. \A i \in DOMAIN ops : \E j \in DOMAIN todo' : ops[i] = todo'[j]
    BY <1>2, <1>3
  <2> QED BY <2>1 DEF Pending
<1>7. ASSUME ops # <<>>
      PROVE  todo' # <<>> /\ Head(todo') = ops[1]
  <2>1. 1 \in 1 .. Len(ops)
    BY <1>2, <1>7, EmptySeq
  <2>2. 1 \in DOMAIN todo' /\ todo'[1] = ops[1]
    BY <1>3, <2>1
  <2>3. todo' # <<>>
    BY <1>2, <2>2, EmptySeq
  <2> QED BY <1>2, <2>2, <2>3
<1> QED BY <1>2, <1>5, <1>6, <1>7

(* The three things that lead FDIR out of SAFE_MODE in the right order: while  *)
(* the mode is on, the tasks are held or about to be; whatever is held has its *)
(* SAFE_MODE, or a call to enter it, on the stack; after EXIT_SAFE_MODE the    *)
(* mode is on again or the cases up to RESET_SSM are still to come.           *)
HeldOrEntering == SAFE_MODE = 1 => suspended = Held \/ Calling("enter_SAFE_MODE")

Unwinding ==
  SAFE_MODE = 1 \/ suspended # {} =>
    \E o \in Pending : o.op \in {"SAFE_MODE", "enter_SAFE_MODE"}

Reentering(o) == o.op = "enter_SAFE_MODE" \/ (o.op = "command" /\ o.at \in 5 .. 10)
Leaving == lastExit = "command" => SAFE_MODE = 1 \/ \E o \in Pending : Reentering(o)

ModeInv == HeldOrEntering /\ Unwinding /\ Leaving

(* A call that leaves the modes alone and makes calls keeps the order.        *)
LEMMA QuietCall ==
  ASSUME TypeOK, ModeInv, todo # <<>>,
         Head(todo).op \notin {"enter_SAFE_MODE", "SAFE_MODE", "command"},
         NEW ops \in Seq(Calls), Becomes(ops), UNCHANGED <<SAFE_MODE, suspended, lastExit>>
  PROVE  ModeInv'
<1>1. \A o \in Pending : o = Head(todo) \/ o \in Pending'
  BY Replaced DEF TypeOK
<1>2. ~Calling("enter_SAFE_MODE")
  BY DEF Calling
<1>3. HeldOrEntering' /\ Unwinding'
  BY <1>1, <1>2 DEF ModeInv, HeldOrEntering, Unwinding
<1>4. Leaving'
  BY <1>1 DEF ModeInv, Leaving, Reentering
<1> QED BY <1>3, <1>4 DEF ModeInv

(* There is a first healthy chip, unless all were given up.                   *)
LEMMA HealthyChip ==
  ASSUME health \in [1 .. 3 -> {0, 1}], ~NoneHealthy
  PROVE  FirstHealthy \in 1 .. 3 /\ FirstHealthy \in Int
<1>1. \E c \in 1 .. 3 : health[c] = 1 /\ \A b \in 1 .. c - 1 : health[b] = 0
  <2>1. /\ 1 \in 1 .. 3 /\ 2 \in 1 .. 3 /\ 3 \in 1 .. 3 /\ \A c \in 1 .. 3 : c \in {1, 2, 3}
        /\ 1 .. 1 - 1 = {} /\ 1 .. 2 - 1 = {1} /\ 1 .. 3 - 1 = {1, 2}
    OBVIOUS
  <2>2. CASE health[1] = 1
    BY <2>1, <2>2
  <2>3. CASE health[1] = 0 /\ health[2] = 1
    BY <2>1, <2>3
  <2>4. CASE health[1] = 0 /\ health[2] = 0 /\ health[3] = 1
    BY <2>1, <2>4
  <2>5. \A c \in 1 .. 3 : health[c] \in {0, 1}
    OBVIOUS
  <2> QED BY <2>1, <2>2, <2>3, <2>4, <2>5 DEF NoneHealthy
<1>2. FirstHealthy \in 1 .. 3
  BY <1>1 DEF FirstHealthy
<1> QED BY <1>2

(* The resolution sequences and what they call: each makes a list of calls.   *)
Makes == \E ops \in Seq(Calls) : Becomes(ops)

(* The resolution sequences leave the modes alone and make calls.             *)
LEMMA ResolveCalls ==
  ASSUME TypeOK, Resolve
  PROVE  /\ todo # <<>> /\ Makes
         /\ Head(todo).op \notin {"enter_SAFE_MODE", "SAFE_MODE", "command"}
         /\ UNCHANGED <<SAFE_MODE, suspended, lastExit>>
<1> DEFINE d == Head(todo)
           Other(o) == o \notin {"enter_SAFE_MODE", "SAFE_MODE", "command"}
<1> USE DEF Makes
<1>1. todo # <<>>
  BY DEF Resolve, ResolutionSequence1, ResolutionSequence1_1, ResolutionSequence1_2,
         ResolutionSequence1_3, ResolutionSequence1_4, TestChip, CompareChip,
         SpimemErrorDuringInit, ResolutionSequence4, ResolutionSequence5,
         ResolutionSequence7, ResolutionSequence11, ResolutionSequence14,
         ResolutionSequence18, ResolutionSequence29, ResolutionSequence31, Calling
<1>2. Other(d.op)
  BY DEF Resolve, ResolutionSequence1, ResolutionSequence1_1, ResolutionSequence1_2,
         ResolutionSequence1_3, ResolutionSequence1_4, TestChip, CompareChip,
         SpimemErrorDuringInit, ResolutionSequence4, ResolutionSequence5,
         ResolutionSequence7, ResolutionSequence11, ResolutionSequence14,
         ResolutionSequence18, ResolutionSequence29, ResolutionSequence31, Calling
<1>3. UNCHANGED <<SAFE_MODE, suspended, lastExit>>
  BY DEF Resolve, ResolutionSequence1, ResolutionSequence1_1, ResolutionSequence1_2,
         ResolutionSequence1_3, ResolutionSequence1_4, TestChip, CompareChip,
         SpimemErrorDuringInit, ResolutionSequence4, ResolutionSequence5,
         ResolutionSequence7, ResolutionSequence11, ResolutionSequence14,
         ResolutionSequence18, ResolutionSequence29, ResolutionSequence31, unresolved
<1>4. d \in Calls /\ d.task \in Subjects /\ d.code \in Int /\ d.at \in Int /\ 0 \in Int
  BY <1>1, TopTypes DEF TypeOK
<1> HIDE DEF d
<1>5. /\ \A t \in Subjects : Clear(t) \in Seq(Calls) /\ Restart(t) \in Seq(Calls)
      /\ EnterSafe \in Seq(Calls) /\ <<>> \in Seq(Calls)
      /\ \A q, r \in Seq(Calls) : q \o r \in Seq(Calls)
      /\ Clear(d.task) \in Seq(Calls)
  BY <1>4, ClearTypes, EnterTypes, ListTypes
<1>6. \A n \in CallNames, t \in Subjects, c \in Int : <<Op(n, t, c)>> \in Seq(Calls)
  BY CallTypes, ListTypes
<1> HIDE DEF EnterSafe, Op, Just, Clear, Restart
<1>7. CASE ResolutionSequence1
  <2> DEFINE parts == [c \in {255, 254, 253, 252} |->
                         CASE c = 255 -> "1_1" [] c = 254 -> "1_2"
                           [] c = 253 -> "1_3" [] c = 252 -> "1_4"]
             ops == IF d.code \in DOMAIN parts THEN <<Op(parts[d.code], d.task, 0)>> ELSE <<>>
  <2>1. Becomes(ops)
    BY <1>7 DEF ResolutionSequence1, d
  <2>2. "1_1" \in CallNames /\ "1_4" \in CallNames
    <3>1. Cases[18][3] = "1_1" /\ Cases[13][3] = "1_4" /\ {13, 18} \subseteq DOMAIN Cases
      BY DEF Cases
    <3> QED BY <3>1 DEF CallNames
  <2>3. \A c \in DOMAIN parts : parts[c] \in CallNames
    BY <2>2 DEF CallNames
  <2> HIDE DEF parts
  <2>4. ops \in Seq(Calls)
    BY <1>4, <1>5, <1>6, <2>3
  <2> HIDE DEF ops
  <2> QED BY <1>1, <1>2, <1>3, <2>1, <2>4 DEF d
<1>8. CASE ResolutionSequence1_1
  BY <1>1, <1>2, <1>3, <1>5, <1>8 DEF ResolutionSequence1_1, d
<1>9. CASE ResolutionSequence1_2
  <2> DEFINE n == fumbles[<<"schedUsage", 0>>] + 1
             first == IF n = FumbleLimit THEN Restart("sched")
                      ELSE IF n > FumbleLimit THEN EnterSafe ELSE <<>>
  <2>1. Becomes(first \o Clear(d.task))
    BY <1>9 DEF ResolutionSequence1_2, d
  <2>2. first \in Seq(Calls)
    BY <1>5, Names
  <2> HIDE DEF first
  <2> QED BY <1>1, <1>2, <1>3, <1>5, <2>1, <2>2 DEF d
<1>10. CASE ResolutionSequence1_3
  <2>1. <<Just("halted")>> \in Seq(Calls)
    BY <1>4, <1>6, Names DEF Just, CallNames
  <2> QED BY <1>1, <1>2, <1>3, <1>5, <1>10, <2>1 DEF ResolutionSequence1_3, d
<1>11. CASE ResolutionSequence1_4
  <2>1. <<Op("testChip", d.task, 0)>> \in Seq(Calls)
    BY <1>4, <1>6 DEF CallNames
  <2>2. Becomes(Clear(d.task)) \/ Becomes(<<Op("testChip", d.task, 0)>>)
    BY <1>11 DEF ResolutionSequence1_4, d
  <2> QED BY <1>1, <1>2, <1>3, <1>5, <2>1, <2>2 DEF d
<1>12. CASE TestChip
  <2>1. CASE Becomes(Clear(d.task))
    BY <1>1, <1>2, <1>3, <1>5, <2>1 DEF d
  <2>2. ASSUME ~NoneHealthy
        PROVE  Makes
    <3>1. PICK written, read \in BOOLEAN :
            Becomes(((IF written THEN <<>> ELSE EnterSafe)
                       \o (IF FirstHealthy = 1 /\ read THEN <<>> ELSE EnterSafe))
                      \o <<Op("compare", d.task, FirstHealthy)>>)
      BY <1>12, <2>2 DEF TestChip, d
    <3> DEFINE a == IF written THEN <<>> ELSE EnterSafe
               b == IF FirstHealthy = 1 /\ read THEN <<>> ELSE EnterSafe
               c == <<Op("compare", d.task, FirstHealthy)>>
    <3>2. a \in Seq(Calls) /\ b \in Seq(Calls)
      BY <1>5
    <3>3. c \in Seq(Calls)
      <4>1. "compare" \in CallNames /\ FirstHealthy \in Int
        BY <2>2, HealthyChip DEF CallNames, TypeOK
      <4> QED BY <1>4, <1>6, <4>1
    <3> HIDE DEF a, b, c
    <3>4. (a \o b) \o c \in Seq(Calls)
      BY <1>5, <3>2, <3>3
    <3> QED BY <3>1, <3>4 DEF a, b, c
  <2> QED BY <1>1, <1>2, <1>3, <1>12, <2>1, <2>2 DEF TestChip, d
<1>13. CASE CompareChip
  BY <1>1, <1>2, <1>3, <1>5, <1>13 DEF CompareChip, d
<1>14. CASE SpimemErrorDuringInit
  BY <1>1, <1>2, <1>3, <1>5, <1>14 DEF SpimemErrorDuringInit, d
<1>15. CASE ResolutionSequence4
  <2>1. Restart(d.task) \o <<Just("pauseScheduling")>> \in Seq(Calls)
    <3>1. <<Just("pauseScheduling")>> \in Seq(Calls)
      BY <1>4, <1>6, Names DEF Just, CallNames
    <3> QED BY <1>4, <1>5, <3>1
  <2> QED BY <1>1, <1>2, <1>3, <1>5, <1>15, <2>1 DEF ResolutionSequence4, d
<1>16. CASE ResolutionSequence5
  <2> DEFINE c == IF d.code = 0 THEN 0 ELSE 1
             limit == Tolerated(d.task)
             now == [fumbles EXCEPT ![Fumbler(d.task, c)] = @ + 1]
             worst == {now[Fumbler(d.task, 0)], now[Fumbler(d.task, 1)]}
             target == IF d.task = "mem" THEN "hk" ELSE d.task
             done == <<Op("clearOne", d.task, 0)>>
             first == IF limit \in worst THEN Restart(target)
                      ELSE IF \E n \in worst : n > limit THEN EnterSafe
                      ELSE <<Op("recreate_fifo", target, c)>>
  <2>1. Becomes(first \o done) \/ Becomes(EnterSafe)
    BY <1>16 DEF ResolutionSequence5, d
  <2>2. target \in Subjects /\ c \in Int
    BY <1>4, Names
  <2>3. {"recreate_fifo", "clearOne"} \subseteq CallNames
    BY DEF CallNames
  <2>4. done \in Seq(Calls) /\ <<Op("recreate_fifo", target, c)>> \in Seq(Calls)
    <3> HIDE DEF target, c
    <3> QED BY <1>4, <1>6, <2>2, <2>3
  <2> HIDE DEF target, c, limit, worst, done
  <2>5. first \in Seq(Calls)
    BY <1>5, <2>2, <2>4
  <2> HIDE DEF first
  <2>6. first \o done \in Seq(Calls)
    BY <1>5, <2>4, <2>5
  <2> QED BY <1>1, <1>2, <1>3, <1>5, <2>1, <2>6 DEF d
<1>17. CASE ResolutionSequence7
  <2> DEFINE wait == IF TooLong("req_data") THEN EnterSafe ELSE <<>>
             lists == {Clear(d.task), EnterSafe \o Clear(d.task),
                       EnterSafe \o EnterSafe \o Clear(d.task)}
  <2>1. Becomes(EnterSafe) \/ \E ops \in lists : Becomes(wait \o ops)
    BY <1>17 DEF ResolutionSequence7, d
  <2>2. wait \in Seq(Calls)
    BY <1>5
  <2>3. EnterSafe \o EnterSafe \in Seq(Calls)
    BY <1>5
  <2>4. \A ops \in lists : ops \in Seq(Calls)
    BY <1>5, <2>3
  <2> HIDE DEF wait, lists
  <2>5. \A ops \in lists : wait \o ops \in Seq(Calls)
    BY <1>5, <2>2, <2>4
  <2> QED BY <1>1, <1>2, <1>3, <1>5, <2>1, <2>5 DEF d
<1>18. CASE ResolutionSequence11
  <2>1. \/ Becomes(EnterSafe \o Clear(d.task)) \/ Becomes(Clear(d.task))
        \/ Becomes(EnterSafe)
    BY <1>18 DEF ResolutionSequence11, d
  <2> QED BY <1>1, <1>2, <1>3, <1>5, <2>1 DEF d
<1>19. CASE ResolutionSequence14
  <2>1. "1_4" \in CallNames
    <3>1. Cases[13][3] = "1_4" /\ 13 \in DOMAIN Cases
      BY DEF Cases
    <3> QED BY <3>1 DEF CallNames
  <2>2. \/ Becomes(EnterSafe \o Clear(d.task)) \/ Becomes(Clear(d.task))
        \/ Becomes(<<Op("1_4", d.task, 0)>>)
    BY <1>19 DEF ResolutionSequence14, d
  <2> QED BY <1>1, <1>2, <1>3, <1>4, <1>5, <1>6, <2>1, <2>2 DEF d
<1>20. CASE ResolutionSequence18
  <2>1. "1_4" \in CallNames /\ "get_fdir_signal" \in CallNames
    <3>1. Cases[13][3] = "1_4" /\ 13 \in DOMAIN Cases
      BY DEF Cases
    <3> QED BY <3>1 DEF CallNames
  <2>2. Op("1_4", d.task, 0) \in Calls /\ Op("get_fdir_signal", d.task, 0) \in Calls
    BY <1>4, <2>1, CallTypes
  <2>3. <<Op("1_4", d.task, 0), Op("get_fdir_signal", d.task, 0)>> \in Seq(Calls)
    BY <2>2, ListTypes
  <2> QED BY <1>1, <1>2, <1>3, <1>20, <2>3 DEF ResolutionSequence18, d
<1>21. CASE ResolutionSequence29
  BY <1>1, <1>2, <1>3, <1>5, <1>21 DEF ResolutionSequence29, d
<1>22. CASE ResolutionSequence31
  <2>1. "clearOne" \in CallNames /\ "opr" \in Subjects
    BY Names DEF CallNames
  <2>2. Becomes(EnterSafe) \/ Becomes(<<Op("clearOne", "opr", 0)>>)
    BY <1>22 DEF ResolutionSequence31
  <2> QED BY <1>1, <1>2, <1>3, <1>4, <1>5, <1>6, <2>1, <2>2 DEF d
<1> QED
  BY <1>7, <1>8, <1>9, <1>10, <1>11, <1>12, <1>13, <1>14, <1>15, <1>16, <1>17, <1>18,
     <1>19, <1>20, <1>21, <1>22
  DEF Resolve

(* The table of the errors: what a case calls is a call.                      *)
LEMMA CaseTable ==
  /\ Len(Cases) = 30 /\ DOMAIN Cases = 1 .. 30
  /\ \A i \in 1 .. 30 : Cases[i][1] \in Int /\ Cases[i][3] \in CallNames
  /\ \A n \in Int : CaseOf(n) \in 1 .. 31
<1>1. Len(Cases) = 30 /\ DOMAIN Cases = 1 .. 30
  BY DEF Cases
<1>2. \A i \in 1 .. 30 : Cases[i][1] \in Int
  BY DEF Cases
<1>3. \A i \in 1 .. 30 : Cases[i][3] \in CallNames
  BY <1>1 DEF CallNames
<1>4. ASSUME NEW n \in Int
      PROVE  CaseOf(n) \in 1 .. 31
  <2>1. CASE \E i \in 1 .. 30 : Cases[i][1] = n
    <3>1. (CHOOSE i \in DOMAIN Cases : Cases[i][1] = n) \in 1 .. 30
      BY <1>1, <2>1
    <3>2. \E i \in DOMAIN Cases : Cases[i][1] = n
      BY <1>1, <2>1
    <3>3. CaseOf(n) = CHOOSE i \in DOMAIN Cases : Cases[i][1] = n
      BY <3>2, Zenon DEF CaseOf
    <3>4. CaseOf(n) \in 1 .. 30
      BY <3>1, <3>3
    <3> QED BY <3>4
  <2>2. CASE ~\E i \in 1 .. 30 : Cases[i][1] = n
    BY <1>1, <2>2 DEF CaseOf
  <2> QED BY <2>1, <2>2
<1> QED BY <1>1, <1>2, <1>3, <1>4

(* The table of the commands has an entry for each.                           *)
LEMMA CommandTable ==
  /\ Len(CommandOrder) = 14 /\ DOMAIN CommandOrder = 1 .. 14
  /\ \A c \in Commands :
       (CHOOSE i \in DOMAIN CommandOrder : CommandOrder[i] = c.name) \in 1 .. 14
<1>1. Len(CommandOrder) = 14 /\ DOMAIN CommandOrder = 1 .. 14
  BY DEF CommandOrder
<1>2. ASSUME NEW c \in Commands
      PROVE  (CHOOSE i \in DOMAIN CommandOrder : CommandOrder[i] = c.name) \in 1 .. 14
  <2>1. \E i \in 1 .. 14 : CommandOrder[i] = c.name
    BY <1>1, ConstantsOK DEF ConstantsOK
  <2> QED BY <1>1, <2>1
<1> QED BY <1>1, <1>2

(* The next case of exec_commands, or its end.                                *)
LEMMA CaseTypes ==
  ASSUME NEW i \in Nat \ {0}, NEW arg \in Subjects
  PROVE  /\ Case(i, arg) \in Seq(Calls)
         /\ i <= 14 => /\ Case(i, arg) # <<>> /\ 1 \in DOMAIN Case(i, arg)
                       /\ Case(i, arg)[1].op = "command" /\ Case(i, arg)[1].at = i
<1> DEFINE call == [Op("command", arg, 0) EXCEPT !.at = i]
<1>1. Case(i, arg) = IF i > 14 THEN <<>> ELSE <<call>>
  BY CommandTable DEF Case
<1>2. CASE i <= 14
  <2>1. call \in Calls /\ call.op = "command" /\ call.at = i
    <3>1. i \in DOMAIN CommandOrder
      BY <1>2, CommandTable
    <3> QED BY <3>1 DEF Op, Calls
  <2> HIDE DEF call
  <2>2. <<call>> \in Seq(Calls) /\ DOMAIN <<call>> = {1} /\ <<call>>[1] = call /\ <<call>> # <<>>
    BY <2>1, ListTypes
  <2>3. Case(i, arg) = <<call>>
    BY <1>1, <1>2
  <2> QED BY <2>1, <2>2, <2>3
<1>3. CASE ~(i <= 14)
  BY <1>1, <1>3, ListTypes
<1> QED BY <1>2, <1>3

(* decode_error makes the calls of its case and goes on to the next.          *)
LEMMA DecodeCalls ==
  ASSUME TypeOK, DecodeError
  PROVE  todo # <<>> /\ Makes
<1> DEFINE d == Head(todo)
           i == CaseOf(d.at)
<1>1. todo # <<>>
  BY DEF DecodeError, Calling
<1>2. d \in Calls /\ d.task \in Subjects /\ d.code \in Int /\ d.at \in Int
  BY <1>1, TopTypes DEF TypeOK
<1>3. i \in 1 .. 31 /\ (~(i > 30) => i \in 1 .. 30)
  BY <1>2, CaseTable
<1>4. CASE i > 30
  BY <1>1, <1>4, CaseTable, EnterTypes DEF DecodeError, Makes
<1>5. CASE ~(i > 30)
  <2> DEFINE first == IF Cases[i][2] \in {Any, d.task} THEN <<>> ELSE EnterSafe
             call == Op(Cases[i][3], d.task, d.code)
             next == IF i = 30 THEN 0 ELSE Cases[i + 1][1]
             again == [d EXCEPT !.at = next]
  <2>1. Becomes(first \o <<call, again>>)
    BY <1>5, CaseTable DEF DecodeError
  <2>2. Cases[i][3] \in CallNames
    BY <1>3, <1>5, CaseTable
  <2>3. next \in Int
    <3>1. CASE i # 30
      <4>1. i + 1 \in 1 .. 30
        BY <1>3, <1>5, <3>1
      <4> QED BY <3>1, <4>1, CaseTable
    <3> QED BY <3>1
  <2> HIDE DEF i, next
  <2>4. call \in Calls
    BY <1>2, <2>2, CallTypes
  <2>5. again \in Calls
    <3>1. d \in [op : CallNames, task : Subjects, code : Int, at : Int]
      BY <1>2 DEF DecodeError, Calling, Calls
    <3> QED BY <2>3, <3>1 DEF Calls
  <2>6. first \in Seq(Calls)
    BY EnterTypes, ListTypes
  <2> HIDE DEF d, first, call, again
  <2>7. first \o <<call, again>> \in Seq(Calls)
    BY <2>4, <2>5, <2>6, ListTypes
  <2> QED BY <1>1, <2>1, <2>7 DEF Makes
<1> QED BY <1>4, <1>5

(* What check_error finds is decoded, with the mutex to be given after it.    *)
LEMMA FoundCalls ==
  ASSUME NEW t \in Subjects, NEW c \in Int, NEW e \in Int
  PROVE  <<[Op("decode_error", t, c) EXCEPT !.at = e], Just("give_high")>> \in Seq(Calls)
<1>1. {"decode_error", "give_high"} \subseteq CallNames
  BY DEF CallNames
<1>2. [Op("decode_error", t, c) EXCEPT !.at = e] \in Calls
  BY <1>1, CallTypes
<1>3. Just("give_high") \in Calls
  BY <1>1, JustTypes
<1> QED BY <1>2, <1>3, ListTypes

(* check_error makes calls.                                                   *)
LEMMA CheckCalls ==
  ASSUME TypeOK, CheckHigh \/ CheckLow
  PROVE  todo # <<>> /\ Makes
<1>1. todo # <<>>
  BY DEF CheckHigh, CheckLow, Calling
<1>2. \A e \in Errors : e.task \in Subjects /\ e.code \in Int /\ e.error \in Int
  BY DEF Errors
<1>3. CASE CheckHigh
  <2>1. CASE highsev = "free" /\ high_fifo # <<>>
    <3> DEFINE e == Head(high_fifo)
    <3>1. e \in Errors
      BY <2>1, HeadTailProperties DEF TypeOK
    <3>2. <<[Op("decode_error", e.task, e.code) EXCEPT !.at = e.error],
            Just("give_high")>> \in Seq(Calls)
      BY <1>2, <3>1, FoundCalls
    <3>3. Becomes(<<[Op("decode_error", e.task, e.code) EXCEPT !.at = e.error],
                    Just("give_high")>>)
      BY <1>3, <2>1 DEF CheckHigh
    <3> QED BY <1>1, <3>2, <3>3 DEF Makes
  <2>2. CASE ~(highsev = "free" /\ high_fifo # <<>>)
    BY <1>1, <1>3, <2>2, ListTypes DEF CheckHigh, Makes
  <2> QED BY <2>1, <2>2
<1>4. CASE CheckLow
  <2>1. CASE lowsev = "free" /\ low_fifo # <<>>
    <3> DEFINE e == Head(low_fifo)
               found == <<[Op("decode_error", glob.task, glob.code) EXCEPT !.at = e.error],
                          Just("give_high")>>
    <3>1. e \in Errors
      BY <2>1, HeadTailProperties DEF TypeOK
    <3>2. glob.task \in Subjects /\ glob.code \in Int
      BY DEF TypeOK
    <3>3. found \in Seq(Calls)
      BY <1>2, <3>1, <3>2, FoundCalls
    <3>4. Becomes(found)
      BY <1>4, <2>1 DEF CheckLow
    <3> QED BY <1>1, <3>3, <3>4 DEF Makes
  <2>2. CASE ~(lowsev = "free" /\ low_fifo # <<>>)
    <3>1. <<Just("give_high")>> \in Seq(Calls)
      <4>1. "give_high" \in CallNames
        BY DEF CallNames
      <4> QED BY <4>1, JustTypes, ListTypes
    <3>2. Becomes(<<>>) \/ Becomes(<<Just("give_high")>>)
      BY <1>4, <2>2 DEF CheckLow
    <3> QED BY <1>1, <3>1, <3>2, ListTypes DEF Makes
  <2> QED BY <2>1, <2>2
<1> QED BY <1>3, <1>4

Small == GiveHigh \/ ClearOne \/ RecreateFifo \/ GetSignal \/ ClearFdirSignal \/ ExecCommands

(* The helpers make calls.                                                    *)
LEMMA SmallCalls ==
  ASSUME TypeOK, Small
  PROVE  todo # <<>> /\ Makes
<1> DEFINE d == Head(todo)
<1>1. todo # <<>>
  BY DEF Small, GiveHigh, ClearOne, RecreateFifo, GetSignal, ClearFdirSignal, ExecCommands,
         Calling
<1>2. d.task \in Subjects
  BY <1>1, TopTypes DEF TypeOK
<1>3. /\ EnterSafe \in Seq(Calls) /\ <<>> \in Seq(Calls) /\ Clear(d.task) \in Seq(Calls)
      /\ \A q, r \in Seq(Calls) : q \o r \in Seq(Calls)
  BY <1>2, EnterTypes, ListTypes, ClearTypes
<1> HIDE DEF EnterSafe, Clear
<1>4. CASE GiveHigh \/ ClearOne \/ ClearFdirSignal
  BY <1>1, <1>3, <1>4 DEF GiveHigh, ClearOne, ClearFdirSignal, Makes
<1>5. CASE RecreateFifo
  <2>1. <<Just("recreate_fifo")>> \in Seq(Calls)
    <3>1. "recreate_fifo" \in CallNames
      BY DEF CallNames
    <3> QED BY <3>1, JustTypes, ListTypes
  <2>2. PICK again \in {<<>>, <<Just("recreate_fifo")>>} : Becomes(EnterSafe \o again)
    BY <1>5 DEF RecreateFifo
  <2>3. EnterSafe \o again \in Seq(Calls)
    BY <1>3, <2>1
  <2> QED BY <1>1, <2>2, <2>3 DEF Makes
<1>6. CASE GetSignal
  <2> DEFINE first == IF d.task \notin Tasks THEN EnterSafe \o EnterSafe
                      ELSE IF signal[d.task] = 1 THEN EnterSafe ELSE <<>>
  <2>1. Becomes(first \o Clear(d.task))
    BY <1>6 DEF GetSignal
  <2>2. first \in Seq(Calls)
    BY <1>3
  <2> HIDE DEF first
  <2>3. first \o Clear(d.task) \in Seq(Calls)
    BY <1>3, <2>2
  <2> QED BY <1>1, <2>1, <2>3 DEF Makes
<1>7. CASE ExecCommands
  <2>1. CASE Becomes(<<>>)
    BY <1>1, <1>3, <2>1 DEF Makes
  <2>2. CASE ~Becomes(<<>>)
    <3>1. PICK c \in Commands :
            Becomes(Case(CHOOSE i \in DOMAIN CommandOrder : CommandOrder[i] = c.name, c.arg))
      BY <1>7, <2>2 DEF ExecCommands
    <3> DEFINE i == CHOOSE j \in DOMAIN CommandOrder : CommandOrder[j] = c.name
    <3>2. i \in Nat \ {0} /\ c.arg \in Subjects
      <4>1. i \in 1 .. 14
        BY CommandTable
      <4> HIDE DEF i
      <4> QED BY <4>1, Names
    <3>3. Becomes(Case(i, c.arg))
      BY <3>1
    <3> HIDE DEF i
    <3>4. Case(i, c.arg) \in Seq(Calls)
      BY <3>2, CaseTypes
    <3> QED BY <1>1, <3>3, <3>4 DEF Makes
  <2> QED BY <2>1, <2>2
<1> QED BY <1>4, <1>5, <1>6, <1>7 DEF Small

-----------------------------------------------------------------------------
(* The steps that change the mode, and the commands                          *)

(* What the first part of a list holds, the whole list holds, and the second. *)
LEMMA Joined ==
  ASSUME NEW q \in Seq(Calls), NEW r \in Seq(Calls)
  PROVE  /\ q \o r \in Seq(Calls)
         /\ \A i \in DOMAIN q : \E j \in DOMAIN (q \o r) : (q \o r)[j] = q[i]
         /\ \A i \in DOMAIN r : \E j \in DOMAIN (q \o r) : (q \o r)[j] = r[i]
<1>1. /\ q \o r \in Seq(Calls) /\ Len(q \o r) = Len(q) + Len(r)
      /\ \A i \in 1 .. Len(q) + Len(r) :
           (q \o r)[i] = IF i <= Len(q) THEN q[i] ELSE r[i - Len(q)]
  BY ConcatProperties
<1>2. \A p \in Seq(Calls) : Len(p) \in Nat /\ DOMAIN p = 1 .. Len(p)
  BY LenProperties
<1>3. DOMAIN (q \o r) = 1 .. Len(q) + Len(r)
  BY <1>1, <1>2
<1> DEFINE s == q \o r
<1> HIDE DEF s
<1>4. ASSUME NEW i \in DOMAIN q
      PROVE  i \in DOMAIN s /\ s[i] = q[i]
  BY <1>1, <1>2, <1>3 DEF s
<1>5. ASSUME NEW i \in DOMAIN r
      PROVE  Len(q) + i \in DOMAIN s /\ s[Len(q) + i] = r[i]
  <2>1. /\ Len(q) + i \in 1 .. Len(q) + Len(r) /\ ~(Len(q) + i <= Len(q))
        /\ (Len(q) + i) - Len(q) = i
    BY <1>2
  <2> QED BY <1>1, <1>3, <2>1 DEF s
<1> QED BY <1>1, <1>4, <1>5 DEF s

(* Steps of others. *)
LEMMA QuietModes ==
  ASSUME ModeInv, UNCHANGED <<todo, SAFE_MODE, suspended, lastExit>>
  PROVE  ModeInv'
<1>1. UNCHANGED Pending
  BY DEF Pending
<1> QED
  BY <1>1 DEF ModeInv, HeldOrEntering, Unwinding, Leaving, Calling, Reentering

(* The loop begins outside of SAFE_MODE.                                      *)
LEMMA MainLoopModes ==
  ASSUME ModeInv, MainLoop
  PROVE  ModeInv'
<1>1. Pending = {}
  BY EmptySeq DEF MainLoop, Pending
<1>2. ~(SAFE_MODE = 1) /\ suspended = {} /\ lastExit # "command"
  BY <1>1 DEF ModeInv, Unwinding, Leaving
<1>3. UNCHANGED <<SAFE_MODE, suspended, lastExit>>
  BY DEF MainLoop, modes
<1> QED
  BY <1>2, <1>3 DEF ModeInv, HeldOrEntering, Unwinding, Leaving

(* A restart sets held tasks going, and enters SAFE_MODE again at once.       *)
LEMMA RestartModes ==
  ASSUME TypeOK, ModeInv, RestartTask
  PROVE  ModeInv'
<1>1. todo # <<>> /\ Head(todo).op = "restart_task" /\ Becomes(EnterSafe)
  BY DEF RestartTask, Calling
<1>2. UNCHANGED <<SAFE_MODE, lastExit>>
  BY DEF RestartTask
<1>3. /\ \A o \in Pending : o = Head(todo) \/ o \in Pending'
      /\ EnterSafe[1] \in Pending' /\ todo' # <<>> /\ Head(todo') = EnterSafe[1]
  BY <1>1, EnterTypes, Replaced DEF TypeOK
<1>4. HeldOrEntering'
  BY <1>3, EnterTypes DEF HeldOrEntering, Calling
<1>5. Unwinding'
  BY <1>3, EnterTypes DEF Unwinding
<1>6. Leaving'
  BY <1>1, <1>2, <1>3 DEF ModeInv, Leaving, Reentering
<1> QED BY <1>4, <1>5, <1>6 DEF ModeInv

(* enter_SAFE_MODE holds the tasks and stays until the mode is left.          *)
LEMMA EnterModes ==
  ASSUME TypeOK, ModeInv, EnterSafeMode
  PROVE  ModeInv'
<1>1. todo # <<>> /\ Becomes(<<Just("SAFE_MODE")>>) /\ SAFE_MODE' = 1 /\ suspended' = Held
  BY DEF EnterSafeMode, Calling
<1>2. "SAFE_MODE" \in CallNames
  BY DEF CallNames
<1>3. Just("SAFE_MODE") \in Calls /\ Just("SAFE_MODE").op = "SAFE_MODE"
  BY <1>2, JustTypes
<1> DEFINE call == Just("SAFE_MODE")
<1> HIDE DEF call
<1>4. call \in Pending'
  <2>1. <<call>> \in Seq(Calls) /\ DOMAIN <<call>> = {1} /\ <<call>>[1] = call
    BY <1>3, ListTypes DEF call
  <2>2. Becomes(<<call>>)
    BY <1>1 DEF call
  <2>3. <<call>>[1] \in Pending'
    BY <1>1, <2>1, <2>2, Replaced DEF TypeOK
  <2> QED BY <2>1, <2>3
<1>5. call.op = "SAFE_MODE"
  BY <1>3 DEF call
<1> QED
  BY <1>1, <1>4, <1>5 DEF ModeInv, HeldOrEntering, Unwinding, Leaving

(* What FDIR does in SAFE_MODE ends with another look at the mode.            *)
LEMMA StayTypes ==
  LET ops == <<Just("exec_commands"), Just("check_high"), Just("check_low"),
               Just("SAFE_MODE")>>
  IN  ops \in Seq(Calls) /\ 4 \in DOMAIN ops /\ ops[4].op = "SAFE_MODE" /\ ops # <<>>
<1>1. {"exec_commands", "check_high", "check_low", "SAFE_MODE"} \subseteq CallNames
  BY DEF CallNames
<1>2. /\ Just("exec_commands") \in Calls /\ Just("check_high") \in Calls
      /\ Just("check_low") \in Calls /\ Just("SAFE_MODE") \in Calls
      /\ Just("SAFE_MODE").op = "SAFE_MODE"
  BY <1>1, JustTypes
<1>3. \A a, b, c, d \in Calls :
        /\ <<a, b, c, d>> \in Seq(Calls) /\ 4 \in DOMAIN <<a, b, c, d>>
        /\ <<a, b, c, d>>[4] = d /\ <<a, b, c, d>> # <<>>
  OBVIOUS
<1> HIDE DEF Just
<1> QED BY <1>2, <1>3

(* As long as the mode is on FDIR comes back to it.                           *)
LEMMA StayModes ==
  ASSUME TypeOK, ModeInv, StayInSafeMode
  PROVE  ModeInv'
<1> DEFINE ops == <<Just("exec_commands"), Just("check_high"), Just("check_low"),
                    Just("SAFE_MODE")>>
<1>1. /\ todo # <<>> /\ Head(todo).op = "SAFE_MODE" /\ Becomes(ops) /\ SAFE_MODE = 1
      /\ UNCHANGED <<SAFE_MODE, suspended, lastExit>>
  BY DEF StayInSafeMode, Calling
<1>2. ops \in Seq(Calls) /\ 4 \in DOMAIN ops /\ ops[4].op = "SAFE_MODE"
  BY StayTypes
<1> HIDE DEF ops
<1>3. ops[4] \in Pending'
  BY <1>1, <1>2, Replaced DEF TypeOK
<1>4. suspended = Held
  BY <1>1 DEF ModeInv, HeldOrEntering, Calling
<1> QED
  BY <1>1, <1>2, <1>3, <1>4 DEF ModeInv, HeldOrEntering, Unwinding, Leaving

(* The tasks are resumed when the mode is off.                                *)
LEMMA LeaveModes ==
  ASSUME TypeOK, ModeInv, LeaveSafeMode
  PROVE  ModeInv'
<1>1. /\ todo # <<>> /\ Head(todo).op = "SAFE_MODE" /\ Becomes(<<>>) /\ SAFE_MODE = 0
      /\ suspended' = {} /\ UNCHANGED <<SAFE_MODE, lastExit>>
  BY DEF LeaveSafeMode, Calling
<1>2. \A o \in Pending : o = Head(todo) \/ o \in Pending'
  BY <1>1, ListTypes, Replaced DEF TypeOK
<1> QED
  BY <1>1, <1>2 DEF ModeInv, HeldOrEntering, Unwinding, Leaving, Reentering

(* The message of an SSM clears the mode under FDIR's feet.                   *)
LEMMA ExitModes ==
  ASSUME ModeInv, ExitMessage
  PROVE  ModeInv'
<1>1. UNCHANGED <<todo, suspended>> /\ SAFE_MODE' = 0 /\ lastExit' = "CAN" /\ SAFE_MODE = 1
  BY DEF ExitMessage
<1>2. UNCHANGED Pending
  BY <1>1 DEF Pending
<1> QED
  BY <1>1, <1>2 DEF ModeInv, HeldOrEntering, Unwinding, Leaving

(* What a case of exec_commands leaves on the stack: up to RESET_SSM there is   *)
(* always the next case, or an entry into SAFE_MODE.                          *)
Comes(ops) == \E i \in DOMAIN ops : Reentering(ops[i])
Carries(ops) ==
  \/ UNCHANGED <<SAFE_MODE, lastExit>> /\ (Head(todo).at \in 5 .. 10 => Comes(ops))
  \/ SAFE_MODE' = 0 /\ Comes(ops)

(* A command that carries on keeps the order.                                 *)
LEMMA CommandModes ==
  ASSUME TypeOK, ModeInv, todo # <<>>, Head(todo).op = "command", UNCHANGED suspended,
         NEW ops \in Seq(Calls), Becomes(ops), Carries(ops)
  PROVE  ModeInv'
<1>1. /\ \A o \in Pending : o = Head(todo) \/ o \in Pending'
      /\ \A i \in DOMAIN ops : ops[i] \in Pending'
  BY Replaced DEF TypeOK
<1>2. ~Calling("enter_SAFE_MODE")
  BY DEF Calling
<1>3. SAFE_MODE' = 1 => SAFE_MODE = 1
  BY DEF Carries
<1>4. HeldOrEntering' /\ Unwinding'
  BY <1>1, <1>2, <1>3 DEF ModeInv, HeldOrEntering, Unwinding
<1>5. Leaving'
  <2>1. CASE Comes(ops)
    BY <1>1, <2>1 DEF Comes, Leaving
  <2>2. CASE ~Comes(ops)
    <3>1. UNCHANGED <<SAFE_MODE, lastExit>> /\ Head(todo).at \notin 5 .. 10
      BY <2>2 DEF Carries
    <3>2. ~Reentering(Head(todo))
      BY <3>1 DEF Reentering
    <3> QED BY <1>1, <3>1, <3>2 DEF ModeInv, Leaving
  <2> QED BY <2>1, <2>2
<1> QED BY <1>4, <1>5 DEF ModeInv

(* A list that ends with the next case, or begins with an entry, carries on.   *)
LEMMA NextCaseComes ==
  ASSUME TypeOK, todo # <<>>, Head(todo).op = "command", NEW arg \in Subjects,
         NEW first \in Seq(Calls)
  PROVE  /\ first \o NextCase(arg) \in Seq(Calls) /\ NextCase(arg) \in Seq(Calls)
         /\ Head(todo).at \in 4 .. 9 => Comes(NextCase(arg)) /\ Comes(first \o NextCase(arg))
<1> DEFINE at == Head(todo).at
           next == NextCase(arg)
<1>1. at \in 1 .. 14 /\ at + 1 \in Nat \ {0}
  <2>1. at \in 1 .. 14
    BY TopTypes DEF TypeOK
  <2> HIDE DEF at
  <2> QED BY <2>1
<1>2. next = Case(at + 1, arg)
  BY DEF NextCase
<1> HIDE DEF at
<1>3. /\ next \in Seq(Calls)
      /\ at + 1 <= 14 => /\ 1 \in DOMAIN next
                         /\ next[1].op = "command" /\ next[1].at = at + 1
  <2> DEFINE i == at + 1
  <2>1. i \in Nat \ {0} /\ next = Case(i, arg)
    BY <1>1, <1>2
  <2> HIDE DEF i, next
  <2>2. /\ Case(i, arg) \in Seq(Calls)
        /\ i <= 14 => /\ 1 \in DOMAIN Case(i, arg)
                      /\ Case(i, arg)[1].op = "command" /\ Case(i, arg)[1].at = i
    BY <2>1, CaseTypes
  <2> QED BY <2>1, <2>2 DEF i
<1> HIDE DEF next
<1>4. first \o next \in Seq(Calls)
  BY <1>3, Joined
<1>5. ASSUME at \in 4 .. 9
      PROVE  Comes(next) /\ Comes(first \o next)
  <2>1. at + 1 <= 14 /\ at + 1 \in 5 .. 10
    BY <1>5
  <2>2. 1 \in DOMAIN next /\ Reentering(next[1])
    BY <1>3, <2>1 DEF Reentering
  <2>3. Comes(next)
    BY <2>2 DEF Comes
  <2>4. PICK j \in DOMAIN (first \o next) : (first \o next)[j] = next[1]
    BY <1>3, <2>2, Joined
  <2>5. Reentering((first \o next)[j])
    BY <2>2, <2>4
  <2> QED BY <2>3, <2>5 DEF Comes
<1> QED BY <1>3, <1>4, <1>5 DEF at, next

(* The numbers of the cases. *)
LEMMA CaseNumbers ==
  ASSUME NEW i \in 1 .. 14
  PROVE  /\ CommandOrder[i] \in Requests => i \notin {3, 4, 9, 10, 11, 12, 13, 14}
         /\ CommandOrder[i] \in {"ENTER_SAFE_MODE", "RESET_SSM"} => i \in {3, 10}
         /\ CommandOrder[i] \in {"EXIT_SAFE_MODE"} => i = 4
         /\ CommandOrder[i] \in {"REPROGRAM_SSM"} => i = 9
         /\ CommandOrder[i] \in {"RESET_TASK", "DELETE_TASK"} => i \in {11, 12}
         /\ CommandOrder[i] \in {"setVariable", "getVariable"} => i \in {13, 14}
<1>1. \/ i \in {1, 2, 3, 4, 5} \/ i \in {6, 7, 8, 9, 10} \/ i \in {11, 12, 13, 14}
  OBVIOUS
<1>2. /\ CommandOrder[1] = "ENTER_LOW_POWER_MODE" /\ CommandOrder[2] = "EXIT_LOW_POWER_MODE"
      /\ CommandOrder[3] = "ENTER_SAFE_MODE" /\ CommandOrder[4] = "EXIT_SAFE_MODE"
      /\ CommandOrder[5] = "ENTER_COMS_TAKEOVER_MODE"
      /\ CommandOrder[6] = "EXIT_COMS_TAKEOVER_MODE"
      /\ CommandOrder[7] = "PAUSE_SSM_OPERATIONS" /\ CommandOrder[8] = "RESUME_SSM_OPERATIONS"
      /\ CommandOrder[9] = "REPROGRAM_SSM" /\ CommandOrder[10] = "RESET_SSM"
      /\ CommandOrder[11] = "RESET_TASK" /\ CommandOrder[12] = "DELETE_TASK"
      /\ CommandOrder[13] = "setVariable" /\ CommandOrder[14] = "getVariable"
  BY DEF CommandOrder
<1> QED BY <1>1, <1>2 DEF Requests

(* Every command carries on.                                                  *)
LEMMA CommandCarries ==
  ASSUME TypeOK, Command
  PROVE  /\ todo # <<>> /\ Head(todo).op = "command" /\ UNCHANGED suspended
         /\ \E ops \in Seq(Calls) : Becomes(ops) /\ Carries(ops)
<1> DEFINE at == Head(todo).at
           arg == Head(todo).task
<1>1. todo # <<>> /\ Head(todo).op = "command"
  BY DEF Command, Request, EnterCommand, ExitCommand, TaskCommand, SetVariable, GetVariable,
         Commanded, Calling
<1>2. UNCHANGED suspended
  BY DEF Command, Request, EnterCommand, ExitCommand, TaskCommand, SetVariable, GetVariable,
         uncommanded
<1>3. at \in 1 .. 14 /\ arg \in Subjects
  BY <1>1, TopTypes DEF TypeOK
<1>4. /\ EnterSafe \in Seq(Calls) /\ <<>> \in Seq(Calls)
      /\ 1 \in DOMAIN EnterSafe /\ Reentering(EnterSafe[1])
      /\ \A t \in Subjects : Restart(t) \in Seq(Calls)
      /\ arg \in Subjects /\ NoTask \in Subjects
  BY <1>3, EnterTypes, ListTypes, ClearTypes, Names DEF Reentering
<1>5. /\ \A first \in Seq(Calls), t \in Subjects :
           /\ first \o NextCase(t) \in Seq(Calls) /\ NextCase(t) \in Seq(Calls)
           /\ at \in 4 .. 9 => Comes(NextCase(t)) /\ Comes(first \o NextCase(t))
  BY <1>1, NextCaseComes
<1> HIDE DEF EnterSafe, Restart, NextCase, at, arg
<1>6. CASE Request
  <2>1. PICK failed \in {<<>>, EnterSafe} : Becomes(failed \o NextCase(NoTask))
    BY <1>6 DEF Request
  <2>2. failed \in Seq(Calls)
    BY <1>4
  <2>3. at \in 5 .. 10 => at \in 4 .. 9
    <3>1. CommandOrder[at] \in Requests
      BY <1>6 DEF Request, Commanded, at
    <3> QED BY <1>3, <3>1, CaseNumbers
  <2>4. Carries(failed \o NextCase(NoTask))
    BY <1>4, <1>5, <1>6, <2>2, <2>3 DEF Request, Carries, at
  <2> QED BY <1>1, <1>2, <1>4, <1>5, <2>1, <2>2, <2>4
<1>7. CASE EnterCommand
  <2> DEFINE ops == EnterSafe \o NextCase(NoTask)
  <2>1. Becomes(ops) /\ UNCHANGED <<SAFE_MODE, lastExit>>
    BY <1>7 DEF EnterCommand
  <2>2. NextCase(NoTask) \in Seq(Calls)
    BY <1>4, <1>5
  <2>3. ops \in Seq(Calls)
    BY <1>4, <1>5
  <2>4. PICK j \in DOMAIN ops : ops[j] = EnterSafe[1]
    BY <1>4, <2>2, Joined
  <2>5. Comes(ops)
    BY <1>4, <2>4 DEF Comes
  <2> HIDE DEF ops
  <2>6. Carries(ops)
    BY <2>1, <2>5 DEF Carries
  <2> QED BY <1>1, <1>2, <2>1, <2>3, <2>6
<1>8. CASE ExitCommand
  <2>1. Becomes(NextCase(NoTask)) /\ SAFE_MODE' = 0
    BY <1>8 DEF ExitCommand
  <2>2. at = 4
    <3>1. CommandOrder[at] \in {"EXIT_SAFE_MODE"}
      BY <1>8 DEF ExitCommand, Commanded, at
    <3> QED BY <1>3, <3>1, CaseNumbers
  <2>3. NextCase(NoTask) \in Seq(Calls) /\ Comes(NextCase(NoTask))
    BY <1>4, <1>5, <2>2
  <2> QED BY <1>1, <1>2, <2>1, <2>3 DEF Carries
<1>9. CASE TaskCommand
  <2>1. UNCHANGED <<SAFE_MODE, lastExit>>
    BY <1>9 DEF TaskCommand
  <2>2. CASE Commanded({"REPROGRAM_SSM"})
    <3>1. at = 9
      <4>1. CommandOrder[at] \in {"REPROGRAM_SSM"}
        BY <2>2 DEF Commanded, at
      <4> QED BY <1>3, <4>1, CaseNumbers
    <3>2. Becomes(NextCase(arg))
      BY <1>9, <2>2 DEF TaskCommand, arg
    <3>3. NextCase(arg) \in Seq(Calls) /\ Comes(NextCase(arg))
      BY <1>4, <1>5, <3>1
    <3> QED BY <1>1, <1>2, <2>1, <3>2, <3>3 DEF Carries
  <2>3. CASE ~Commanded({"REPROGRAM_SSM"})
    <3>1. at \notin 5 .. 10
      <4>1. CommandOrder[at] \in {"RESET_TASK", "DELETE_TASK"}
        BY <1>9, <2>3 DEF TaskCommand, Commanded, at
      <4> QED BY <1>3, <4>1, CaseNumbers
    <3>2. PICK t \in Subjects : Becomes(Restart(t) \o NextCase(NoTask))
      BY <1>4, <1>9, <2>3 DEF TaskCommand, arg
    <3>3. Restart(t) \o NextCase(NoTask) \in Seq(Calls)
      BY <1>4, <1>5
    <3>4. Carries(Restart(t) \o NextCase(NoTask))
      BY <2>1, <3>1 DEF Carries, at
    <3> QED BY <1>1, <1>2, <3>2, <3>3, <3>4
  <2> QED BY <2>2, <2>3
<1>10. CASE SetVariable \/ GetVariable
  <2>1. at \notin 5 .. 10
    <3>1. CommandOrder[at] \in {"setVariable", "getVariable"}
      BY <1>10 DEF SetVariable, GetVariable, Commanded, at
    <3> QED BY <1>3, <3>1, CaseNumbers
  <2>2. UNCHANGED <<SAFE_MODE, lastExit>>
    BY <1>10 DEF SetVariable, GetVariable
  <2>3. \A ops : Carries(ops)
    BY <2>1, <2>2 DEF Carries, at
  <2>4. \E ops \in Seq(Calls) : Becomes(ops)
    BY <1>4, <1>5, <1>10 DEF SetVariable, GetVariable
  <2> QED BY <1>1, <1>2, <2>3, <2>4
<1> QED BY <1>6, <1>7, <1>8, <1>9, <1>10 DEF Command

(* Every step keeps the order in which FDIR enters and leaves SAFE_MODE.       *)
LEMMA StepModes ==
  ASSUME TypeOK, ModeInv, [Next]_vars
  PROVE  ModeInv'
<1>1. CASE Fdir
  <2>1. CASE Resolve
    BY <2>1, ResolveCalls, QuietCall DEF Makes
  <2>2. CASE CheckHigh \/ CheckLow \/ DecodeError \/ Small
    <3>1. todo # <<>> /\ Makes
      BY <2>2, CheckCalls, DecodeCalls, SmallCalls
    <3>2. Head(todo).op \notin {"enter_SAFE_MODE", "SAFE_MODE", "command"}
      BY <2>2 DEF CheckHigh, CheckLow, DecodeError, Small, GiveHigh, ClearOne, RecreateFifo,
                  GetSignal, ClearFdirSignal, ExecCommands, Calling
    <3>3. UNCHANGED <<SAFE_MODE, suspended, lastExit>>
      BY <2>2 DEF CheckHigh, CheckLow, DecodeError, Small, GiveHigh, ClearOne, RecreateFifo,
                  GetSignal, ClearFdirSignal, ExecCommands, unresolved, modes
    <3> QED BY <3>1, <3>2, <3>3, QuietCall DEF Makes
  <2>3. CASE Command
    BY <2>3, CommandCarries, CommandModes
  <2>4. CASE \/ MainLoop \/ RestartTask \/ EnterSafeMode \/ StayInSafeMode \/ LeaveSafeMode
    BY <2>4, MainLoopModes, RestartModes, EnterModes, StayModes, LeaveModes
  <2> QED BY <1>1, <2>1, <2>2, <2>3, <2>4 DEF Fdir, Small
<1>2. CASE \/ \E t \in Reporters : Report(t) \/ InCall(t)
           \/ \E t \in starting : StartTask(t)
           \/ SsmErrorAssert \/ UNCHANGED vars
  <2>1. UNCHANGED <<todo, SAFE_MODE, suspended, lastExit>>
    BY <1>2 DEF Report, Call, InCall, Fill, AssertTake, AssertSend, AssertGive, SetSignal,
                Poll, ReportTake, ReportSend, ReportGive, StartTask, SsmErrorAssert, fdir,
                modes, observers, vars
  <2> QED BY <2>1, QuietModes
<1>3. CASE ExitMessage
  BY <1>3, ExitModes
<1> QED BY <1>1, <1>2, <1>3 DEF Next, Running

-----------------------------------------------------------------------------
(* The ranges of the variables                                               *)

(* A call of errorASSERT waits for one signal after the other.  It begins with *)
(* AssertPolls polls and uses at most two more with each task: while the       *)
(* signal stays set, the poll whose number is even is the last.               *)
Waits(c) == c.pc \in {"signal", "poll"} => c.polls >= AssertPolls - 2 * (c.at - 1)
Good(c) == c \in Doing /\ Waits(c)
RepTyped == rep \in [Reporters -> Doing] /\ \A t \in Reporters : Waits(rep[t])

Moved(c, pc) == [c EXCEPT !.pc = pc]

(* There are nine cases in a switch over the tasks.                           *)
LEMMA Places9 == DOMAIN TaskOrder = 1 .. 9 /\ Len(TaskOrder) = 9
BY DEF TaskOrder

(* A reporter that is idle has nothing to wait for.                           *)
LEMMA GoodIdle == Good(Idle)
<1>1. 0 \in 0 .. AssertPolls /\ 1 \in DOMAIN TaskOrder
  BY ConstantsOK, Places9 DEF ConstantsOK
<1> QED BY <1>1 DEF Good, Waits, Idle, Doing

(* A reporter that goes on within its call.                                   *)
LEMMA GoodMoved ==
  ASSUME NEW c, Good(c), NEW pc \in {"fill", "take", "send", "give", "poll"},
         pc = "poll" => c.pc = "signal"
  PROVE  Good(Moved(c, pc))
<1>1. c \in Doing
  BY DEF Good
<1>2. /\ Moved(c, pc) \in Doing /\ Moved(c, pc).pc = pc
      /\ Moved(c, pc).at = c.at /\ Moved(c, pc).polls = c.polls
  BY <1>1 DEF Moved, Doing
<1> QED BY <1>2 DEF Good, Waits

(* A reporter that begins a call.                                             *)
LEMMA GoodBegun ==
  ASSUME NEW sev \in {"high", "low"}, NEW r \in ReportSet
  PROVE  Good(Begun(Idle, sev, r))
<1>1. Idle \in Doing
  BY GoodIdle DEF Good
<1>2. Begun(Idle, sev, r) \in Doing /\ Begun(Idle, sev, r).pc = "fill"
  BY <1>1 DEF Begun, Doing
<1> QED BY <1>2 DEF Good, Waits

(* A reporter that comes to the next signal with polls enough.                *)
LEMMA GoodSignalling ==
  ASSUME NEW c \in Doing, NEW polls \in 0 .. AssertPolls, NEW at \in 1 .. 9,
         polls >= AssertPolls - 2 * (at - 1)
  PROVE  Good(Signalling(c, polls, at))
<1>1. at \in DOMAIN TaskOrder
  BY Places9
<1>2. /\ Signalling(c, polls, at) \in Doing /\ Signalling(c, polls, at).at = at
      /\ Signalling(c, polls, at).polls = polls
  BY <1>1 DEF Signalling, Doing
<1> QED BY <1>2 DEF Good, Waits

(* A reporter that goes on polling with polls enough.                         *)
LEMMA GoodPolled ==
  ASSUME NEW c \in Doing, NEW polls \in 0 .. AssertPolls,
         polls >= AssertPolls - 2 * (c.at - 1)
  PROVE  Good(Polled(c, polls))
<1>1. /\ Polled(c, polls) \in Doing /\ Polled(c, polls).at = c.at
      /\ Polled(c, polls).polls = polls
  BY DEF Polled, Doing
<1> QED BY <1>1 DEF Good, Waits

(* One poll less is enough for the rest.                                      *)
LEMMA OnePollLess ==
  ASSUME NEW polls \in 0 .. AssertPolls, NEW at \in 1 .. 9,
         polls >= AssertPolls - 2 * (at - 1)
  PROVE  /\ polls % 2 = 1 => /\ polls - 1 \in 0 .. AssertPolls
                             /\ polls - 1 >= AssertPolls - 2 * (at - 1)
         /\ at # 9 => /\ polls - 1 \in 0 .. AssertPolls /\ at + 1 \in 1 .. 9
                      /\ polls - 1 >= AssertPolls - 2 * ((at + 1) - 1)
<1>1. AssertPolls \in Nat /\ AssertPolls % 2 = 0 /\ AssertPolls >= 18
  BY ConstantsOK, Places9 DEF ConstantsOK
<1>2. polls % 2 = 1 => polls # AssertPolls - 2 * (at - 1)
  <2>1. PICK k \in Int : AssertPolls = 2 * k
    BY <1>1
  <2> QED BY <2>1
<1> QED BY <1>1, <1>2

(* One reporter changes, to what is good.                                     *)
LEMMA RepChanged ==
  ASSUME RepTyped, NEW t \in Reporters, NEW c, Good(c), rep' = [rep EXCEPT ![t] = c]
  PROVE  RepTyped'
<1>1. c \in Doing /\ Waits(c)
  BY DEF Good
<1>2. rep' \in [Reporters -> Doing]
  BY <1>1 DEF RepTyped
<1>3. \A u \in Reporters : rep'[u] = IF u = t THEN c ELSE rep[u]
  BY DEF RepTyped
<1>4. \A u \in Reporters : Waits(rep'[u])
  BY <1>1, <1>3 DEF RepTyped
<1> QED BY <1>2, <1>4 DEF RepTyped

(* The beginning of a call.                                                   *)
LEMMA StartCallRep ==
  ASSUME RepTyped, NEW t \in Reporters, NEW sev \in {"high", "low"}, NEW r \in ReportSet,
         Call(t, sev, r)
  PROVE  RepTyped'
<1>1. rep' = [rep EXCEPT ![t] = Begun(Idle, sev, r)]
  BY DEF Call, Begun
<1> QED BY <1>1, GoodBegun, RepChanged

(* A poll leads to another, to the next signal, or to the end.                *)
LEMMA PollRep ==
  ASSUME RepTyped, NEW t \in Reporters, Poll(t)
  PROVE  RepTyped'
<1> DEFINE r == rep[t]
<1>1. r \in Doing /\ r.pc = "poll" /\ Waits(r)
  BY DEF Poll, At, RepTyped
<1>2. /\ r.polls \in 0 .. AssertPolls /\ r.at \in 1 .. 9
      /\ r.polls >= AssertPolls - 2 * (r.at - 1)
  BY <1>1, Places9 DEF Doing, Waits
<1> DEFINE next == IF KeepsPolling(t) THEN Polled(r, r.polls - 1)
                   ELSE IF r.at = 9 THEN Idle
                   ELSE Signalling(r, r.polls - 1, r.at + 1)
<1>3. rep' = [rep EXCEPT ![t] = next]
  BY Places9 DEF Poll, Polled, Signalling
<1>4. KeepsPolling(t) => r.polls % 2 = 1
  BY DEF KeepsPolling
<1> HIDE DEF r
<1>5. Good(next)
  <2>1. CASE KeepsPolling(t)
    <3>1. r.polls - 1 \in 0 .. AssertPolls /\ r.polls - 1 >= AssertPolls - 2 * (r.at - 1)
      BY <1>2, <1>4, <2>1, OnePollLess
    <3> QED BY <1>1, <2>1, <3>1, GoodPolled
  <2>2. CASE ~KeepsPolling(t) /\ r.at = 9
    BY <2>2, GoodIdle
  <2>3. CASE ~KeepsPolling(t) /\ r.at # 9
    <3>1. /\ r.polls - 1 \in 0 .. AssertPolls /\ r.at + 1 \in 1 .. 9
          /\ r.polls - 1 >= AssertPolls - 2 * ((r.at + 1) - 1)
      BY <1>2, <2>3, OnePollLess
    <3> QED BY <1>1, <2>3, <3>1, GoodSignalling
  <2> QED BY <2>1, <2>2, <2>3
<1> HIDE DEF next
<1> QED BY <1>3, <1>5, RepChanged

(* After the mutex is given, the wait for the signals begins.                 *)
LEMMA GiveRep ==
  ASSUME RepTyped, NEW t \in Reporters, AssertGive(t)
  PROVE  RepTyped'
<1>1. rep[t] \in Doing
  BY DEF RepTyped
<1>2. CASE rep[t].report.task \in Tasks
  <2> DEFINE place == CHOOSE i \in DOMAIN TaskOrder : TaskOrder[i] = rep[t].report.task
  <2>1. \E i \in DOMAIN TaskOrder : TaskOrder[i] = rep[t].report.task
    BY <1>2 DEF Tasks
  <2>2. place \in 1 .. 9
    BY <2>1, Places9
  <2>3. rep' = [rep EXCEPT ![t] = Signalling(rep[t], AssertPolls, place)]
    BY <1>2 DEF AssertGive, Signalling
  <2> HIDE DEF place
  <2>4. AssertPolls \in 0 .. AssertPolls /\ AssertPolls >= AssertPolls - 2 * (place - 1)
    <3>1. AssertPolls \in Nat
      BY ConstantsOK DEF ConstantsOK
    <3> QED BY <2>2, <3>1
  <2>5. Good(Signalling(rep[t], AssertPolls, place))
    BY <1>1, <2>2, <2>4, GoodSignalling
  <2> QED BY <2>3, <2>5, RepChanged
<1>3. CASE rep[t].report.task \notin Tasks
  <2>1. rep' = [rep EXCEPT ![t] = Idle]
    BY <1>3 DEF AssertGive
  <2> QED BY <2>1, GoodIdle, RepChanged
<1> QED BY <1>2, <1>3

(* The other steps of a call.                                                 *)
LEMMA MoveRep ==
  ASSUME RepTyped, NEW t \in Reporters,
         \/ Fill(t) \/ AssertTake(t) \/ AssertSend(t) \/ SetSignal(t)
         \/ ReportTake(t) \/ ReportSend(t) \/ ReportGive(t)
  PROVE  RepTyped'
<1>1. Good(rep[t])
  BY DEF RepTyped, Good
<1>2. \/ rep' = [rep EXCEPT ![t] = Idle]
      \/ \E pc \in {"fill", "take", "send", "give", "poll"} :
           /\ rep' = [rep EXCEPT ![t] = Moved(rep[t], pc)]
           /\ pc = "poll" => rep[t].pc = "signal"
  BY DEF Fill, AssertTake, AssertSend, SetSignal, ReportTake, ReportSend, ReportGive, Goto,
         At, Moved
<1>3. CASE rep' = [rep EXCEPT ![t] = Idle]
  BY <1>3, GoodIdle, RepChanged
<1>4. CASE ~(rep' = [rep EXCEPT ![t] = Idle])
  <2>1. PICK pc \in {"fill", "take", "send", "give", "poll"} :
           /\ rep' = [rep EXCEPT ![t] = Moved(rep[t], pc)]
           /\ pc = "poll" => rep[t].pc = "signal"
    BY <1>2, <1>4
  <2>2. Good(Moved(rep[t], pc))
    BY <1>1, <2>1, GoodMoved
  <2> QED BY <2>1, <2>2, RepChanged
<1> QED BY <1>3, <1>4

(* Restarted tasks are in no call.                                            *)
LEMMA RestartRep ==
  ASSUME RepTyped, RestartTask
  PROVE  RepTyped'
<1>1. PICK restarted : rep' = [t \in Reporters |-> IF t \in restarted THEN Idle ELSE rep[t]]
  BY DEF RestartTask
<1>2. Idle \in Doing /\ Waits(Idle)
  BY GoodIdle DEF Good
<1> QED BY <1>1, <1>2 DEF RepTyped

(* Every step keeps the places and the polls of the reporters.                *)
LEMMA StepRep ==
  ASSUME RepTyped, [Next]_vars
  PROVE  RepTyped'
<1>1. ASSUME NEW t \in Reporters, Report(t) \/ InCall(t)
      PROVE  RepTyped'
  <2>1. CASE Report(t)
    BY <2>1, StartCallRep DEF Report, ReportSet
  <2>2. CASE InCall(t)
    BY <2>2, PollRep, GiveRep, MoveRep DEF InCall
  <2> QED BY <1>1, <2>1, <2>2
<1>2. CASE RestartTask
  BY <1>2, RestartRep
<1>3. CASE \/ \E t \in starting : StartTask(t)
           \/ SsmErrorAssert \/ ExitMessage \/ UNCHANGED vars
  BY <1>3 DEF StartTask, SsmErrorAssert, ExitMessage, vars, RepTyped
<1>4. CASE Fdir /\ ~RestartTask
  <2>1. UNCHANGED rep
    <3>1. CASE Resolve \/ Command
      BY <3>1, ResolveQuiet, CommandQuiet DEF reportState
    <3>2. CASE CheckHigh \/ CheckLow
      BY <3>2 DEF CheckHigh, CheckLow, senders
    <3>3. CASE ~(Resolve \/ Command \/ CheckHigh \/ CheckLow)
      BY <1>4, <3>3, FdirQuiet DEF Fdir, reportState
    <3> QED BY <3>1, <3>2, <3>3
  <2> QED BY <2>1 DEF RepTyped
<1> QED BY <1>1, <1>2, <1>3, <1>4 DEF Next, Running

(* The arrays, the queues and the mutexes.                                    *)
Fifo(f) == f \in Seq(Errors) /\ Len(f) <= FifoLength
Owners == Reporters \cup {"free", "fdir"}
ChannelTyped ==
  /\ high_error_array \in Errors /\ low_error_array \in Errors
  /\ Fifo(high_fifo) /\ Fifo(low_fifo)
  /\ highsev \in Owners /\ lowsev \in Owners
  /\ glob \in [task : Subjects, code : Int]

(* What is reported, and what the arrays are made of, are errors.             *)
LEMMA ReportTypes ==
  /\ \A r \in ReportSet \cup {NoReport} : r \in Errors
  /\ \A r \in ReportSet \cup {NoReport}, e \in Errors :
       [r EXCEPT !.error = e.error] \in Errors
  /\ \A r \in Errors, n \in Int : [r EXCEPT !.error = n] \in Errors
  /\ \A e \in Errors : e.error \in Int /\ [task |-> e.task, code |-> e.code]
                                             \in [task : Subjects, code : Int]
<1>1. ASSUME NEW r \in ReportSet
      PROVE  r \in Errors
  <2>1. r = [task |-> r.task, code |-> r.code, error |-> r.error]
        /\ r.code \in Int /\ r.error \in Int
    BY ConstantsOK DEF ConstantsOK
  <2>2. r.task \in Subjects
    BY Names
  <2> QED BY <2>1, <2>2 DEF Errors
<1>2. NoReport \in Errors
  BY Names DEF NoReport, Errors
<1>3. \A r \in ReportSet \cup {NoReport} : r \in Errors
  BY <1>1, <1>2
<1>4. \A r \in Errors, n \in Int : [r EXCEPT !.error = n] \in Errors
  BY DEF Errors
<1>5. \A e \in Errors : e.error \in Int /\ [task |-> e.task, code |-> e.code]
                                             \in [task : Subjects, code : Int]
  BY DEF Errors
<1> QED BY <1>3, <1>4, <1>5

(* A queue keeps its length when an item is added or taken.                   *)
LEMMA FifoTypes ==
  ASSUME NEW f, Fifo(f)
  PROVE  /\ \A e \in Errors : Fifo(Push(f, e))
         /\ f # <<>> => Fifo(Tail(f)) /\ Head(f) \in Errors
<1>1. FifoLength \in Nat
  BY ConstantsOK DEF ConstantsOK
<1>2. f \in Seq(Errors) /\ Len(f) \in Nat /\ Len(f) <= FifoLength
  BY LenProperties DEF Fifo
<1>3. ASSUME NEW e \in Errors
      PROVE  Fifo(Push(f, e))
  <2>1. CASE Len(f) < FifoLength
    <3>1. Append(f, e) \in Seq(Errors) /\ Len(Append(f, e)) = Len(f) + 1
      BY <1>2, AppendProperties
    <3>2. Push(f, e) = Append(f, e)
      BY <2>1 DEF Push
    <3> QED BY <1>1, <1>2, <2>1, <3>1, <3>2 DEF Fifo
  <2>2. CASE ~(Len(f) < FifoLength)
    BY <2>2 DEF Push, Fifo
  <2> QED BY <2>1, <2>2
<1>4. ASSUME f # <<>>
      PROVE  Fifo(Tail(f)) /\ Head(f) \in Errors
  <2>1. Tail(f) \in Seq(Errors) /\ Len(Tail(f)) = Len(f) - 1 /\ Head(f) \in Errors
    BY <1>2, <1>4, HeadTailProperties
  <2> QED BY <1>1, <1>2, <2>1 DEF Fifo
<1> QED BY <1>3, <1>4

(* The reporters keep the ranges of the channel.                              *)
LEMMA ReporterChannel ==
  ASSUME ChannelTyped, RepTyped, NEW t \in Reporters, Report(t) \/ InCall(t)
  PROVE  ChannelTyped'
<1>1. UNCHANGED glob
  BY DEF Report, Call, InCall, Fill, AssertTake, AssertSend, AssertGive, SetSignal,
         Poll, ReportTake, ReportSend, ReportGive, fdir
<1>2. high_error_array' \in Errors /\ low_error_array' \in Errors
  <2>1. CASE Report(t)
    <3>1. PICK sev \in {"high", "low"}, r \in ReportSet : Call(t, sev, r)
      BY <2>1 DEF Report, ReportSet
    <3>2. r.error \in Int
      BY ReportTypes
    <3> QED BY <3>1, <3>2, ReportTypes DEF Call, ChannelTyped
  <2>2. CASE Fill(t)
    <3>1. rep[t].report \in ReportSet \cup {NoReport}
      BY DEF RepTyped, Doing
    <3> QED BY <2>2, <3>1, ReportTypes DEF Fill, ChannelTyped
  <2>3. CASE InCall(t) /\ ~Fill(t)
    BY <2>3 DEF InCall, AssertTake, AssertSend, AssertGive, SetSignal, Poll, ReportTake,
                ReportSend, ReportGive, channel, ChannelTyped
  <2> QED BY <2>1, <2>2, <2>3
<1>3. Fifo(high_fifo)' /\ Fifo(low_fifo)'
  <2>1. high_fifo' \in {high_fifo, Push(high_fifo, high_error_array)}
    BY DEF Report, Call, InCall, Fill, AssertTake, AssertSend, AssertGive, SetSignal,
           Poll, ReportTake, ReportSend, ReportGive, channel
  <2>2. low_fifo' \in {low_fifo, Push(low_fifo, low_error_array)}
    BY DEF Report, Call, InCall, Fill, AssertTake, AssertSend, AssertGive, SetSignal,
           Poll, ReportTake, ReportSend, ReportGive, channel
  <2>3. Fifo(Push(high_fifo, high_error_array)) /\ Fifo(Push(low_fifo, low_error_array))
    BY FifoTypes DEF ChannelTyped
  <2> QED BY <2>1, <2>2, <2>3 DEF ChannelTyped, Fifo
<1>4. highsev' \in Owners /\ lowsev' \in Owners
  <2>1. highsev' \in {highsev, t, "free"} /\ lowsev' \in {lowsev, t, "free"}
    BY DEF Report, Call, InCall, Fill, AssertTake, AssertSend, AssertGive, SetSignal,
           Poll, ReportTake, ReportSend, ReportGive, channel
  <2> QED BY <2>1 DEF ChannelTyped, Owners
<1> QED BY <1>1, <1>2, <1>3, <1>4 DEF ChannelTyped

(* FDIR's looks into the queues keep them.                                    *)
LEMMA CheckChannel ==
  ASSUME ChannelTyped, CheckHigh \/ CheckLow \/ GiveHigh
  PROVE  ChannelTyped'
<1>1. UNCHANGED <<high_error_array, low_error_array>>
  BY DEF CheckHigh, CheckLow, GiveHigh, senders
<1>2. /\ high_fifo' = high_fifo \/ (high_fifo # <<>> /\ high_fifo' = Tail(high_fifo))
      /\ low_fifo' = low_fifo \/ (low_fifo # <<>> /\ low_fifo' = Tail(low_fifo))
  BY DEF CheckHigh, CheckLow, GiveHigh
<1>3. Fifo(high_fifo)' /\ Fifo(low_fifo)'
  BY <1>2, FifoTypes DEF ChannelTyped, Fifo
<1>4. highsev' \in {highsev, "fdir", "free"} /\ lowsev' \in {lowsev, "fdir"}
  BY DEF CheckHigh, CheckLow, GiveHigh
<1>5. glob' \in [task : Subjects, code : Int]
  <2>1. CASE CheckHigh /\ highsev = "free" /\ high_fifo # <<>>
    <3>1. Head(high_fifo) \in Errors
      BY <2>1, FifoTypes DEF ChannelTyped
    <3>2. glob' = [task |-> Head(high_fifo).task, code |-> Head(high_fifo).code]
      BY <2>1 DEF CheckHigh
    <3> QED BY <3>1, <3>2, ReportTypes
  <2>2. CASE CheckHigh /\ ~(highsev = "free" /\ high_fifo # <<>>)
    BY <2>2, Names DEF CheckHigh
  <2>3. CASE CheckLow \/ GiveHigh
    BY <2>3 DEF CheckLow, GiveHigh, ChannelTyped
  <2> QED BY <2>1, <2>2, <2>3
<1> QED BY <1>1, <1>3, <1>4, <1>5 DEF ChannelTyped, Owners

(* Steps of others keep them.                                                 *)
LEMMA QuietChannel ==
  ASSUME ChannelTyped, UNCHANGED <<channel, glob>>
  PROVE  ChannelTyped'
BY DEF ChannelTyped, channel, Fifo

(* FDIR does nothing else with the channel.                                   *)
LEMMA OtherFdirChannel ==
  ASSUME Fdir, ~(CheckHigh \/ CheckLow \/ GiveHigh)
  PROVE  UNCHANGED <<channel, glob>>
<1>1. CASE Resolve
  BY <1>1
  DEF Resolve, ResolutionSequence1, ResolutionSequence1_1, ResolutionSequence1_2,
      ResolutionSequence1_3, ResolutionSequence1_4, TestChip, CompareChip,
      SpimemErrorDuringInit, ResolutionSequence4, ResolutionSequence5,
      ResolutionSequence7, ResolutionSequence11, ResolutionSequence14,
      ResolutionSequence18, ResolutionSequence29, ResolutionSequence31,
      unresolved, senders, queues, channel
<1>2. CASE Command
  BY <1>2
  DEF Command, Request, EnterCommand, ExitCommand, TaskCommand, SetVariable, GetVariable,
      uncommanded, senders, queues, channel
<1>3. CASE \/ MainLoop \/ DecodeError \/ ClearOne \/ RecreateFifo \/ GetSignal
           \/ ClearFdirSignal \/ RestartTask \/ ExecCommands
  BY <1>3
  DEF MainLoop, DecodeError, ClearOne, RecreateFifo, GetSignal, ClearFdirSignal,
      RestartTask, ExecCommands, unresolved, senders, queues, channel
<1>4. CASE EnterSafeMode \/ StayInSafeMode \/ LeaveSafeMode
  BY <1>4
  DEF EnterSafeMode, StayInSafeMode, LeaveSafeMode, unmoded, senders, queues, channel
<1> QED BY <1>1, <1>2, <1>3, <1>4 DEF Fdir

(* The reports of SSMs keep the ranges of the channel.                        *)
LEMMA SsmChannel ==
  ASSUME ChannelTyped, SsmErrorAssert
  PROVE  ChannelTyped'
<1>1. PICK r \in SsmAsserts : high_fifo' = Push(high_fifo, r)
  BY DEF SsmErrorAssert
<1>2. r \in Errors
  BY ReportTypes DEF ReportSet
<1>3. Fifo(high_fifo)'
  BY <1>1, <1>2, FifoTypes DEF ChannelTyped, Fifo
<1>4. UNCHANGED <<high_error_array, low_error_array, low_fifo, highsev, lowsev, glob>>
  BY DEF SsmErrorAssert, fdir
<1> QED BY <1>3, <1>4 DEF ChannelTyped, Fifo

(* Every step keeps the ranges of the channel.                                *)
LEMMA StepChannel ==
  ASSUME ChannelTyped, RepTyped, [Next]_vars
  PROVE  ChannelTyped'
<1>1. CASE \E t \in Reporters : Report(t) \/ InCall(t)
  BY <1>1, ReporterChannel
<1>2. CASE (\E t \in starting : StartTask(t)) \/ ExitMessage \/ UNCHANGED vars
  <2>1. UNCHANGED <<channel, glob>>
    BY <1>2 DEF StartTask, ExitMessage, vars
  <2> QED BY <2>1, QuietChannel
<1>3. CASE SsmErrorAssert
  BY <1>3, SsmChannel
<1>4. CASE Fdir
  BY <1>4, CheckChannel, OtherFdirChannel, QuietChannel
<1> QED BY <1>1, <1>2, <1>3, <1>4 DEF Next, Running

(* The stack holds calls, whatever FDIR does.                                 *)
LEMMA StepStack ==
  ASSUME TypeOK, [Next]_vars
  PROVE  todo' \in Seq(Calls)
<1>1. ASSUME todo # <<>>, Makes
      PROVE  todo' \in Seq(Calls)
  BY <1>1, Replaced DEF Makes, TypeOK
<1>2. CASE Fdir
  <2>1. CASE Resolve \/ CheckHigh \/ CheckLow \/ DecodeError \/ Small
    BY <1>1, <2>1, ResolveCalls, CheckCalls, DecodeCalls, SmallCalls
  <2>2. CASE Command
    BY <1>1, <2>2, CommandCarries DEF Makes
  <2>3. CASE MainLoop
    <3>1. {"check_high", "check_low", "exec_commands"} \subseteq CallNames
      BY DEF CallNames
    <3>2. /\ Just("check_high") \in Calls /\ Just("check_low") \in Calls
          /\ Just("exec_commands") \in Calls
      BY <3>1, JustTypes
    <3>3. todo' = <<Just("check_high"), Just("check_low"), Just("exec_commands")>>
      BY <2>3 DEF MainLoop
    <3>4. \A a, b, c \in Calls : <<a, b, c>> \in Seq(Calls)
      OBVIOUS
    <3> HIDE DEF Just
    <3> QED BY <3>2, <3>3, <3>4
  <2>4. CASE RestartTask \/ LeaveSafeMode
    <3>1. todo # <<>> /\ (Becomes(EnterSafe) \/ Becomes(<<>>))
      BY <2>4 DEF RestartTask, LeaveSafeMode, Calling
    <3> QED BY <1>1, <3>1, EnterTypes, ListTypes DEF Makes
  <2>5. CASE EnterSafeMode
    <3>1. "SAFE_MODE" \in CallNames
      BY DEF CallNames
    <3>2. <<Just("SAFE_MODE")>> \in Seq(Calls)
      BY <3>1, JustTypes, ListTypes
    <3>3. todo # <<>> /\ Becomes(<<Just("SAFE_MODE")>>)
      BY <2>5 DEF EnterSafeMode, Calling
    <3> QED BY <1>1, <3>2, <3>3 DEF Makes
  <2>6. CASE StayInSafeMode
    <3> DEFINE ops == <<Just("exec_commands"), Just("check_high"), Just("check_low"),
                        Just("SAFE_MODE")>>
    <3>1. ops \in Seq(Calls)
      BY StayTypes
    <3>2. todo # <<>> /\ Becomes(ops)
      BY <2>6 DEF StayInSafeMode, Calling
    <3> HIDE DEF ops
    <3> QED BY <1>1, <3>1, <3>2 DEF Makes
  <2> QED BY <1>2, <2>1, <2>2, <2>3, <2>4, <2>5, <2>6 DEF Fdir, Small
<1>3. CASE \/ \E t \in Reporters : Report(t) \/ InCall(t)
           \/ \E t \in starting : StartTask(t)
           \/ SsmErrorAssert \/ ExitMessage \/ UNCHANGED vars
  <2>1. UNCHANGED todo
    BY <1>3 DEF Report, Call, InCall, Fill, AssertTake, AssertSend, AssertGive, SetSignal,
                Poll, ReportTake, ReportSend, ReportGive, StartTask, SsmErrorAssert,
                ExitMessage, fdir, vars
  <2> QED BY <2>1 DEF TypeOK
<1> QED BY <1>2, <1>3 DEF Next, Running

(* The modes, the signals and the health of the chips.                        *)
ModesTyped ==
  /\ signal \in [Tasks -> {0, 1}]
  /\ starting \subseteq {"sched", "mem"}
  /\ SAFE_MODE \in {0, 1} /\ suspended \subseteq Held /\ scheduling_on \in {0, 1}
  /\ INTERNAL_MEMORY_FALLBACK_MODE \in {0, 1}
  /\ health \in [1 .. 3 -> {0, 1}]

modesState == <<signal, starting, SAFE_MODE, suspended, scheduling_on,
                INTERNAL_MEMORY_FALLBACK_MODE, health>>

(* A step that leaves modes, signals and health alone.                        *)
LEMMA QuietModesTyped ==
  ASSUME ModesTyped, UNCHANGED modesState
  PROVE  ModesTyped'
BY DEF ModesTyped, modesState

(* The resolution sequences keep the ranges of the modes.                     *)
LEMMA ResolveModes ==
  ASSUME ModesTyped, Resolve
  PROVE  ModesTyped'
<1>1. UNCHANGED <<signal, starting, SAFE_MODE, suspended>>
  BY DEF Resolve, ResolutionSequence1, ResolutionSequence1_1, ResolutionSequence1_2,
         ResolutionSequence1_3, ResolutionSequence1_4, TestChip, CompareChip,
         SpimemErrorDuringInit, ResolutionSequence4, ResolutionSequence5,
         ResolutionSequence7, ResolutionSequence11, ResolutionSequence14,
         ResolutionSequence18, ResolutionSequence29, ResolutionSequence31,
         unresolved, senders
<1>2. scheduling_on' \in {0, scheduling_on}
  BY DEF Resolve, ResolutionSequence1, ResolutionSequence1_1, ResolutionSequence1_2,
         ResolutionSequence1_3, ResolutionSequence1_4, TestChip, CompareChip,
         SpimemErrorDuringInit, ResolutionSequence4, ResolutionSequence5,
         ResolutionSequence7, ResolutionSequence11, ResolutionSequence14,
         ResolutionSequence18, ResolutionSequence29, ResolutionSequence31
<1>3. INTERNAL_MEMORY_FALLBACK_MODE' \in {1, INTERNAL_MEMORY_FALLBACK_MODE}
  BY DEF Resolve, ResolutionSequence1, ResolutionSequence1_1, ResolutionSequence1_2,
         ResolutionSequence1_3, ResolutionSequence1_4, TestChip, CompareChip,
         SpimemErrorDuringInit, ResolutionSequence4, ResolutionSequence5,
         ResolutionSequence7, ResolutionSequence11, ResolutionSequence14,
         ResolutionSequence18, ResolutionSequence29, ResolutionSequence31
<1>4. \/ UNCHANGED health
      \/ \E c, v : v \in {0, 1} /\ health' = [health EXCEPT ![c] = v]
  <2>1. CASE ResolutionSequence1_4
    <3>1. CASE NoneHealthy
      BY <2>1, <3>1 DEF ResolutionSequence1_4
    <3>2. CASE ~NoneHealthy
      <4>1. PICK c, n : health' = [health EXCEPT ![c] = IF n >= FumbleLimit THEN 0 ELSE 1]
        BY <2>1, <3>2 DEF ResolutionSequence1_4
      <4>2. (IF n >= FumbleLimit THEN 0 ELSE 1) \in {0, 1}
        OBVIOUS
      <4> QED BY <4>1, <4>2
    <3> QED BY <3>1, <3>2
  <2>2. CASE CompareChip
    <3>1. UNCHANGED health \/ health' = [health EXCEPT ![Head(todo).code] = 0]
      BY <2>2 DEF CompareChip
    <3> QED BY <3>1
  <2>3. CASE Resolve /\ ~ResolutionSequence1_4 /\ ~CompareChip
    BY <2>3
    DEF Resolve, ResolutionSequence1, ResolutionSequence1_1, ResolutionSequence1_2,
        ResolutionSequence1_3, TestChip, SpimemErrorDuringInit, ResolutionSequence4,
        ResolutionSequence5, ResolutionSequence7, ResolutionSequence11,
        ResolutionSequence14, ResolutionSequence18, ResolutionSequence29,
        ResolutionSequence31, accounts
  <2> QED BY <2>1, <2>2, <2>3
<1>5. health' \in [1 .. 3 -> {0, 1}]
  BY <1>4 DEF ModesTyped
<1> QED BY <1>1, <1>2, <1>3, <1>5 DEF ModesTyped

(* The commands keep them.                                                    *)
LEMMA CommandModesTyped ==
  ASSUME ModesTyped, Command
  PROVE  ModesTyped'
<1>1. /\ UNCHANGED <<signal, starting, suspended, scheduling_on,
                     INTERNAL_MEMORY_FALLBACK_MODE>>
      /\ SAFE_MODE' \in {0, SAFE_MODE}
  BY DEF Command, Request, EnterCommand, ExitCommand, TaskCommand, SetVariable, GetVariable,
         uncommanded, senders
<1>2. health' \in [1 .. 3 -> {0, 1}]
  <2>1. CASE SetVariable
    <3>1. \/ UNCHANGED health
          \/ \E c \in 1 .. 3, v \in {0, 1} :
               health' = [b \in 1 .. 3 |-> IF b >= c THEN v ELSE health[b]]
      BY <2>1 DEF SetVariable
    <3> QED BY <3>1 DEF ModesTyped
  <2>2. CASE ~SetVariable
    BY <2>2 DEF Command, Request, EnterCommand, ExitCommand, TaskCommand, GetVariable,
                ModesTyped
  <2> QED BY <2>1, <2>2
<1> QED BY <1>1, <1>2 DEF ModesTyped

(* The rest of FDIR keeps them.                                               *)
LEMMA OtherModesTyped ==
  ASSUME ModesTyped, Fdir, ~Resolve, ~Command
  PROVE  ModesTyped'
<1>1. CASE MainLoop \/ CheckHigh \/ GiveHigh \/ CheckLow \/ DecodeError \/ RecreateFifo
           \/ GetSignal \/ ExecCommands
  <2>1. UNCHANGED modesState
    BY <1>1 DEF MainLoop, CheckHigh, GiveHigh, CheckLow, DecodeError, RecreateFifo,
                GetSignal, ExecCommands, unresolved, senders, modes, accounts, modesState
  <2> QED BY <2>1, QuietModesTyped
<1>2. CASE ClearOne
  BY <1>2 DEF ClearOne, senders, modes, accounts, ModesTyped
<1>3. CASE ClearFdirSignal
  <2>1. PICK cleared : signal' = [t \in Tasks |-> IF t \in cleared THEN 0 ELSE signal[t]]
    BY <1>3 DEF ClearFdirSignal
  <2>2. signal' \in [Tasks -> {0, 1}]
    BY <2>1 DEF ModesTyped
  <2> QED BY <1>3, <2>2 DEF ClearFdirSignal, senders, modes, accounts, ModesTyped
<1>4. CASE RestartTask
  <2>1. suspended' \subseteq suspended /\ starting' \subseteq starting \cup {"sched", "mem"}
    BY <1>4 DEF RestartTask
  <2> QED BY <1>4, <2>1 DEF RestartTask, accounts, ModesTyped
<1>5. CASE EnterSafeMode \/ StayInSafeMode \/ LeaveSafeMode
  BY <1>5 DEF EnterSafeMode, StayInSafeMode, LeaveSafeMode, unmoded, senders, accounts,
              ModesTyped
<1> QED BY <1>1, <1>2, <1>3, <1>4, <1>5 DEF Fdir

(* Every step keeps the ranges of modes, signals and health.                  *)
LEMMA StepModesTyped ==
  ASSUME ModesTyped, [Next]_vars
  PROVE  ModesTyped'
<1>1. CASE \E t \in Reporters : Report(t) \/ InCall(t)
  <2>1. PICK t \in Reporters : Report(t) \/ InCall(t)
    BY <1>1
  <2>2. CASE SetSignal(t)
    <3>1. signal' \in [Tasks -> {0, 1}]
      BY <2>2 DEF SetSignal, ModesTyped
    <3> QED BY <2>2, <3>1 DEF SetSignal, fdir, modes, accounts, ModesTyped
  <2>3. CASE ~SetSignal(t)
    <3>1. UNCHANGED modesState
      BY <2>1, <2>3
      DEF Report, Call, InCall, Fill, AssertTake, AssertSend, AssertGive, Poll, ReportTake,
          ReportSend, ReportGive, fdir, modes, accounts, modesState
    <3> QED BY <3>1, QuietModesTyped
  <2> QED BY <2>2, <2>3
<1>2. CASE \E t \in starting : StartTask(t)
  <2>1. PICK t \in starting : StartTask(t)
    BY <1>2
  <2>2. health' \in [1 .. 3 -> {0, 1}]
    BY <2>1 DEF StartTask, ModesTyped
  <2> QED BY <2>1, <2>2 DEF StartTask, ModesTyped
<1>3. CASE SsmErrorAssert \/ UNCHANGED vars
  <2>1. UNCHANGED modesState
    BY <1>3 DEF SsmErrorAssert, fdir, modes, accounts, vars, modesState
  <2> QED BY <2>1, QuietModesTyped
<1>4. CASE ExitMessage
  BY <1>4 DEF ExitMessage, accounts, ModesTyped
<1>5. CASE Fdir
  BY <1>5, ResolveModes, CommandModesTyped, OtherModesTyped
<1> QED BY <1>1, <1>2, <1>3, <1>4, <1>5 DEF Next, Running

-----------------------------------------------------------------------------
(* FDIR's invariant: the ranges and the way into SAFE_MODE and out of it.      *)
FdirInd == TypeOK /\ RepTyped /\ ModeInv

(* The type invariant is made of these parts.                                 *)
LEMMA TypeParts ==
  TypeOK <=> /\ ChannelTyped /\ ModesTyped /\ rep \in [Reporters -> Doing]
             /\ todo \in Seq(Calls)
BY DEF TypeOK, ChannelTyped, ModesTyped, Fifo, Owners

(* FDIR's invariant holds at the start.                                       *)
LEMMA InitFdir == Init => FdirInd
<1> SUFFICES ASSUME Init
             PROVE  FdirInd
  OBVIOUS
<1>1. RepTyped
  <2>1. Idle \in Doing /\ Waits(Idle)
    BY GoodIdle DEF Good
  <2> QED BY <2>1 DEF Init, RepTyped
<1>2. ChannelTyped
  <2>1. NoReport \in Errors
    BY ReportTypes
  <2>2. Fifo(<<>>)
    BY EmptySeq, ConstantsOK DEF ConstantsOK, Fifo
  <2>3. [task |-> NoTask, code |-> 0] \in [task : Subjects, code : Int]
    BY Names
  <2> QED BY <2>1, <2>2, <2>3 DEF Init, ChannelTyped, Owners
<1>3. ModesTyped
  BY DEF Init, ModesTyped
<1>4. todo \in Seq(Calls) /\ ModeInv
  BY EmptySeq DEF Init, ModeInv, HeldOrEntering, Unwinding, Leaving
<1> QED BY <1>1, <1>2, <1>3, <1>4, TypeParts DEF FdirInd, RepTyped

(* Every step keeps FDIR's invariant.                                         *)
LEMMA StepFdir == FdirInd /\ [Next]_vars => FdirInd'
<1> SUFFICES ASSUME FdirInd, [Next]_vars
             PROVE  FdirInd'
  OBVIOUS
<1>1. TypeOK /\ RepTyped /\ ModeInv /\ ChannelTyped /\ ModesTyped
  BY TypeParts DEF FdirInd
<1>2. RepTyped' /\ ChannelTyped' /\ ModesTyped' /\ todo' \in Seq(Calls) /\ ModeInv'
  BY <1>1, StepRep, StepChannel, StepModesTyped, StepStack, StepModes
<1>3. TypeOK'
  <2>1. rep' \in [Reporters -> Doing]
    BY <1>2 DEF RepTyped
  <2> QED BY <1>2, <2>1
     DEF TypeOK, ChannelTyped, ModesTyped, Fifo, Owners
<1> QED BY <1>2, <1>3 DEF FdirInd

(* FDIR's invariant holds in every reachable state.                           *)
LEMMA AlwaysFdir == Spec => []FdirInd
BY InitFdir, StepFdir, PTL DEF Spec

(* While FDIR serves SAFE_MODE every task but the router is suspended, however *)
(* deep the calls are nested: a task that a restart set going, or the end of   *)
(* an inner SAFE_MODE, is suspended again before FDIR serves anything, as      *)
(* restart_task ends in enter_SAFE_MODE, and an inner SAFE_MODE ends only when *)
(* the mode is off for the outer one too.                                    *)
THEOREM SafeModeHolds == Spec => []SafeModeHoldsTasks
<1>1. FdirInd => SafeModeHoldsTasks
  BY DEF FdirInd, ModeInv, HeldOrEntering, SafeModeHoldsTasks, Calling
<1> QED BY <1>1, AlwaysFdir, PTL

(* The ranges of all variables, and how FDIR comes back to its loop: outside of *)
(* SAFE_MODE, with no task left suspended, and never by the command            *)
(* EXIT_SAFE_MODE, whose missing break leads on to RESET_SSM.                  *)
THEOREM FdirInvariant == Spec => []FdirInv
<1>1. FdirInd => FdirInv
  <2> SUFFICES ASSUME FdirInd
               PROVE  FdirInv
    OBVIOUS
  <2>1. todo = <<>> => Pending = {}
    BY EmptySeq DEF Pending
  <2>2. TypeOK /\ SAFE_MODE \in {0, 1}
    BY DEF FdirInd, TypeOK
  <2>3. AllResumed
    BY <2>1, <2>2 DEF FdirInd, ModeInv, Unwinding, AllResumed
  <2>4. OnlyMessageLeaves
    BY <2>1, <2>3 DEF FdirInd, ModeInv, Leaving, AllResumed, OnlyMessageLeaves
  <2> QED BY <2>2, <2>3, <2>4 DEF FdirInv
<1> QED BY <1>1, AlwaysFdir, PTL
=============================================================================

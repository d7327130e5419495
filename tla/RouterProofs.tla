----------------------------- MODULE RouterProofs -----------------------------
(* Proofs about two of the router's duties.  AntennaDeploy, for every timeout *)
(* and every length of a turn: the burn that the router watches is bounded,  *)
(* it is not cut short, and a burn that nobody watches has one of two causes. *)
(* TcRouting, for every set of telecommands and every length of the FIFOs:   *)
(* the experiment is armed before it is started, and every command that       *)
(* housekeeping carries out is answered by one report.                       *)
EXTENDS TcRouting, AntennaDeploy, SequenceTheorems, FiniteSetTheorems, TLAPS

-----------------------------------------------------------------------------
(* The deployment of the antenna *)

(* The inductive invariant.  What the four properties leave out is what the   *)
(* router knows on its way from the test of the flag to its clearing.        *)

Watching == {"deploy", "read"} \cup Deciding

(* Only the router clears the flag, at the end of its way. *)
FlagStays == place \in Watching => antenna_deploy = 1

(* Between two tests the last request grows older with the turn: what was not *)
(* too late when the router compared is at most a turn late at the next test. *)
Deadline ==
  antenna_deploy = 1 =>
    since <= (IF place \in Watching THEN DEPLOY_TIMEOUT + MaxPass ELSE DEPLOY_TIMEOUT) + pass

(* With the tick count read, its age is part of the turn and, but for a new   *)
(* request, of the time since the request.                                   *)
TicksRead == place = "ticks" => held <= pass /\ (since >= held \/ raced = 1)

(* With the time read, the difference is the age of the request that was      *)
(* there, which is the last one but for a new request.                       *)
TimeRead ==
  place = "time" =>
    /\ since <= held /\ held <= DEPLOY_TIMEOUT + MaxPass + pass
    /\ since = held \/ raced = 1

DecidedLate == place \in {"off", "clear"} => since > DEPLOY_TIMEOUT \/ raced = 1

OffTried == place = "clear" => burn = 0 \/ offFailed = 1

BurnInv ==
  /\ AntennaTypeOK /\ FlagStays /\ Deadline /\ TicksRead /\ TimeRead /\ DecidedLate
  /\ OffTried /\ UnattendedBurn

-----------------------------------------------------------------------------
(* The initial state satisfies the invariant. *)
LEMMA AntennaInitInv == AntennaInit => BurnInv
  BY DeployAssumption
  DEF AntennaInit, BurnInv, AntennaTypeOK, FlagStays, Deadline, TicksRead, TimeRead, DecidedLate,
      OffTried,
      UnattendedBurn, Watching, Deciding, Subtracting, Enough

(* Time passes: within a turn the request grows no older than the turn. *)
LEMMA TickInv ==
  ASSUME BurnInv, Tick
  PROVE  BurnInv'
  <1>1. AntennaTypeOK'
    BY DeployAssumption DEF Tick, BurnInv, Subtracting, AntennaTypeOK, Enough, TimeRead, TicksRead
  <1>2. FlagStays' /\ OffTried' /\ UnattendedBurn'
    BY DEF Tick, BurnInv, FlagStays, OffTried, UnattendedBurn
  <1>3. Deadline'
    BY DeployAssumption DEF Tick, BurnInv, AntennaTypeOK, Deadline
  <1>4. TicksRead' /\ TimeRead'
    BY DeployAssumption DEF Tick, BurnInv, Deciding, AntennaTypeOK, Enough, TicksRead, TimeRead
  <1>5. DecidedLate'
    BY DeployAssumption DEF Tick, BurnInv, AntennaTypeOK, DecidedLate
  <1> QED
    BY <1>1, <1>2, <1>3, <1>4, <1>5 DEF BurnInv

(* A request starts the time anew; one that comes while the router decides is
   noted in raced. *)
LEMMA AlertInv ==
  ASSUME BurnInv, Alert
  PROVE  BurnInv'
  <1>1. AntennaTypeOK'
    BY DeployAssumption DEF Alert, BurnInv, AntennaTypeOK, Enough
  <1>2. FlagStays' /\ OffTried' /\ UnattendedBurn'
    BY DEF Alert, BurnInv, FlagStays, OffTried, UnattendedBurn
  <1>3. Deadline'
    BY DeployAssumption DEF Alert, BurnInv, AntennaTypeOK, Deadline
  <1>4. TicksRead' /\ TimeRead'
    BY DEF Alert, BurnInv, AntennaTypeOK, TicksRead, TimeRead
  <1>5. DecidedLate'
    BY DEF Alert, Deciding, DecidedLate
  <1> QED
    BY <1>1, <1>2, <1>3, <1>4, <1>5 DEF BurnInv

(* The test begins a turn, and what was in time at the end of the last one is
   at most a turn late. *)
LEMMA TestInv ==
  ASSUME BurnInv, TestFlag
  PROVE  BurnInv'
  <1>1. AntennaTypeOK'
    BY DeployAssumption DEF TestFlag, Goto, BurnInv, AntennaTypeOK
  <1>2. FlagStays' /\ OffTried' /\ UnattendedBurn'
    BY DEF TestFlag, Goto, BurnInv, Deciding, Subtracting, FlagStays, OffTried,
        UnattendedBurn, Watching
  <1>3. Deadline'
    BY DeployAssumption
    DEF TestFlag, Goto, BurnInv, Deciding, Subtracting, AntennaTypeOK, Deadline, Watching
  <1>4. TicksRead' /\ TimeRead'
    BY DEF TestFlag, Goto, TicksRead, TimeRead
  <1>5. DecidedLate'
    BY DEF TestFlag, Goto, DecidedLate
  <1> QED
    BY <1>1, <1>2, <1>3, <1>4, <1>5 DEF BurnInv

(* A burn is switched on only with the flag set. *)
LEMMA DeployInv ==
  ASSUME BurnInv, SendDeploy
  PROVE  BurnInv'
  <1>1. AntennaTypeOK'
    BY DEF SendDeploy, Goto, BurnInv, AntennaTypeOK
  <1>2. FlagStays' /\ OffTried' /\ UnattendedBurn'
    BY DEF SendDeploy, Goto, BurnInv, FlagStays, OffTried, UnattendedBurn, Watching
  <1>3. Deadline'
    BY DEF SendDeploy, Goto, BurnInv, Deadline, Watching
  <1>4. TicksRead' /\ TimeRead'
    BY DEF SendDeploy, Goto, TicksRead, TimeRead
  <1>5. DecidedLate'
    BY DEF SendDeploy, Goto, DecidedLate
  <1> QED
    BY <1>1, <1>2, <1>3, <1>4, <1>5 DEF BurnInv

(* Either of the two readings. *)
LEMMA ReadInv ==
  ASSUME BurnInv, ReadTicks \/ ReadTime
  PROVE  BurnInv'
  <1>1. AntennaTypeOK'
    BY DeployAssumption
    DEF ReadTicks, ReadTime, Goto, BurnInv, Deciding, Subtracting, AntennaTypeOK, Enough
  <1>2. FlagStays' /\ OffTried' /\ UnattendedBurn'
    BY DEF ReadTicks, ReadTime, Goto, BurnInv, FlagStays, OffTried, UnattendedBurn, Watching
  <1>3. Deadline'
    BY DEF ReadTicks, ReadTime, Goto, BurnInv, Deciding, Subtracting, Deadline, Watching
  <1>4. TicksRead' /\ TimeRead'
    BY DEF ReadTicks, ReadTime, Goto, BurnInv, AntennaTypeOK, Deadline, Watching, TicksRead,
        TimeRead, FlagStays
  <1>5. DecidedLate'
    BY DEF ReadTicks, ReadTime, Goto, DecidedLate
  <1> QED
    BY <1>1, <1>2, <1>3, <1>4, <1>5 DEF BurnInv

(* The comparison: the burn goes on only if it is not too late, and is ended
   only if it is or a request came in between. *)
LEMMA SubtractInv ==
  ASSUME BurnInv, SubtractTime \/ SubtractFromTicks
  PROVE  BurnInv'
  <1>1. AntennaTypeOK'
    BY DeployAssumption
    DEF SubtractTime, SubtractFromTicks, Goto, BurnInv, Deciding, AntennaTypeOK, Enough
  <1>2. FlagStays' /\ OffTried' /\ UnattendedBurn'
    BY DEF SubtractTime, SubtractFromTicks, Goto, BurnInv, Deciding, Subtracting, FlagStays,
        OffTried, UnattendedBurn, Watching
  <1>3. Deadline'
    BY DeployAssumption
    DEF SubtractTime, SubtractFromTicks, Passed, Goto, BurnInv, Deciding, AntennaTypeOK, Deadline,
        Watching, TicksRead, TimeRead
  <1>4. TicksRead' /\ TimeRead'
    BY DEF SubtractTime, SubtractFromTicks, Goto, TicksRead, TimeRead
  <1>5. DecidedLate'
    BY DeployAssumption
    DEF SubtractTime, SubtractFromTicks, Passed, Goto, BurnInv, AntennaTypeOK, DecidedLate,
        TicksRead, TimeRead
  <1> QED
    BY <1>1, <1>2, <1>3, <1>4, <1>5 DEF BurnInv

(* The end of a burn: a flag is cleared with the wire off or the command lost. *)
LEMMA OffInv ==
  ASSUME BurnInv, SendOff \/ ClearFlag
  PROVE  BurnInv'
  <1>1. AntennaTypeOK'
    BY DEF SendOff, ClearFlag, Goto, BurnInv, Deciding, AntennaTypeOK
  <1>2. FlagStays' /\ OffTried' /\ UnattendedBurn'
    BY DEF SendOff, ClearFlag, Goto, BurnInv, Deciding, Subtracting, FlagStays, OffTried,
        UnattendedBurn, Watching
  <1>3. Deadline'
    BY DEF SendOff, ClearFlag, Goto, BurnInv, Deciding, Deadline, Watching
  <1>4. TicksRead' /\ TimeRead'
    BY DEF SendOff, ClearFlag, Goto, TicksRead, TimeRead
  <1>5. DecidedLate'
    BY DEF SendOff, ClearFlag, Goto, BurnInv, DecidedLate
  <1> QED
    BY <1>1, <1>2, <1>3, <1>4, <1>5 DEF BurnInv

(* Ground restarts the time of a burn under way, or orders one of its own. *)
LEMMA ServeInv ==
  ASSUME BurnInv, GroundDeploy \/ NextTurn
  PROVE  BurnInv'
  <1>1. AntennaTypeOK'
    BY DeployAssumption DEF GroundDeploy, NextTurn, Goto, BurnInv, AntennaTypeOK, Enough
  <1>2. FlagStays' /\ OffTried' /\ UnattendedBurn'
    BY DEF GroundDeploy, NextTurn, Goto, BurnInv, Deciding, Subtracting, FlagStays,
        OffTried, UnattendedBurn, Watching
  <1>3. Deadline'
    BY DeployAssumption
    DEF GroundDeploy, NextTurn, Goto, BurnInv, Deciding, Subtracting, AntennaTypeOK, Deadline,
        Watching
  <1>4. TicksRead' /\ TimeRead'
    BY DEF GroundDeploy, NextTurn, Goto, TicksRead, TimeRead
  <1>5. DecidedLate'
    BY DEF GroundDeploy, NextTurn, Goto, DecidedLate
  <1> QED
    BY <1>1, <1>2, <1>3, <1>4, <1>5 DEF BurnInv

(* Every step keeps the invariant. *)
LEMMA AntennaStepInv == BurnInv /\ [AntennaNext]_antennaVars => BurnInv'
  <1> SUFFICES ASSUME BurnInv, [AntennaNext]_antennaVars
               PROVE  BurnInv'
    OBVIOUS
  <1>1. CASE Tick
    BY <1>1, TickInv
  <1>2. CASE Alert
    BY <1>2, AlertInv
  <1>3. CASE RouterTurn
    <2>1. CASE TestFlag
      BY <2>1, TestInv
    <2>2. CASE SendDeploy
      BY <2>2, DeployInv
    <2>3. CASE ReadTicks \/ ReadTime
      BY <2>3, ReadInv
    <2>4. CASE SubtractTime \/ SubtractFromTicks
      BY <2>4, SubtractInv
    <2>5. CASE SendOff \/ ClearFlag
      BY <2>5, OffInv
    <2>6. CASE NextTurn
      BY <2>6, ServeInv
    <2> QED
      BY <1>3, <2>1, <2>2, <2>3, <2>4, <2>5, <2>6 DEF RouterTurn
  <1>4. CASE GroundDeploy
    BY <1>4, ServeInv
  <1>5. CASE UNCHANGED antennaVars
    BY <1>5
    DEF antennaVars, BurnInv, AntennaTypeOK, FlagStays, Deadline, TicksRead, TimeRead,
        DecidedLate, OffTried, UnattendedBurn
  <1> QED
    BY <1>1, <1>2, <1>3, <1>4, <1>5 DEF AntennaNext

(* The invariant holds in every reachable state. *)
LEMMA AlwaysBurnInv == AntennaSpec => []BurnInv
  BY AntennaInitInv, AntennaStepInv, PTL DEF AntennaSpec

-----------------------------------------------------------------------------
(* The variables of the deployment keep their types: in particular a turn and *)
(* the difference of the times stay within their bounds.                     *)
THEOREM AntennaTypeCorrect == AntennaSpec => []AntennaTypeOK
  <1>1. BurnInv => AntennaTypeOK
    BY DEF BurnInv
  <1> QED
    BY <1>1, AlwaysBurnInv, PTL

(* A burn the router watches over lasts at most DEPLOY_TIMEOUT and two turns  *)
(* after the last request: whatever the timeout and however long a turn.     *)
THEOREM BurnIsBounded == AntennaSpec => []BurnBounded
  <1>1. BurnInv => BurnBounded
    <2> SUFFICES ASSUME BurnInv, antenna_deploy = 1
                 PROVE  since <= DEPLOY_TIMEOUT + 2 * MaxPass
      BY DEF BurnBounded
    <2>1. since <= DEPLOY_TIMEOUT + MaxPass + pass
      BY DeployAssumption DEF BurnInv, AntennaTypeOK, Deadline, Enough
    <2> QED
      BY <2>1, DeployAssumption DEF BurnInv, AntennaTypeOK, Enough
  <1> QED
    BY <1>1, AlwaysBurnInv, PTL

(* Both of these, as TLC checks them.                                        *)
THEOREM AntennaInvariant == AntennaSpec => []AntennaInv
  BY AntennaTypeCorrect, BurnIsBounded, PTL DEF AntennaInv

(* A burn that nobody watches follows a DEP_ANT_OFF that was not sent, or an  *)
(* order from ground.                                                        *)
THEOREM UnattendedBurnHasCause == AntennaSpec => []UnattendedBurn
  <1>1. BurnInv => UnattendedBurn
    BY DEF BurnInv
  <1> QED
    BY <1>1, AlwaysBurnInv, PTL

(* No burn is ended and no request forgotten before the timeout has passed,   *)
(* unless a request came in while the router was deciding.                   *)
THEOREM NeverCutShort == AntennaSpec => NotCutShort
  <1>1. BurnInv /\ [AntennaNext]_antennaVars
          => [(burn = 1 /\ burn' = 0) \/ (antenna_deploy = 1 /\ antenna_deploy' = 0)
               => since > DEPLOY_TIMEOUT \/ raced = 1]_antennaVars
    <2> SUFFICES ASSUME BurnInv, AntennaNext,
                        (burn = 1 /\ burn' = 0) \/ (antenna_deploy = 1 /\ antenna_deploy' = 0)
                 PROVE  since > DEPLOY_TIMEOUT \/ raced = 1
      OBVIOUS
    <2>1. CASE SendOff \/ ClearFlag
      BY <2>1 DEF BurnInv, DecidedLate, SendOff, ClearFlag, Goto
    <2>2. CASE Tick \/ Alert \/ GroundDeploy
      BY <2>2 DEF Tick, Alert, GroundDeploy
    <2>3. CASE TestFlag \/ SendDeploy \/ ReadTicks \/ ReadTime \/ NextTurn
      BY <2>3 DEF TestFlag, SendDeploy, ReadTicks, ReadTime, NextTurn
    <2>4. CASE SubtractTime \/ SubtractFromTicks
      BY <2>4 DEF SubtractTime, SubtractFromTicks
    <2> QED
      BY <2>1, <2>2, <2>3, <2>4 DEF AntennaNext, RouterTurn
  <1> QED
    BY <1>1, AlwaysBurnInv, PTL DEF AntennaSpec, NotCutShort

-----------------------------------------------------------------------------
(* Routing: counting the reports of a queue *)

(* What goes to ground, or waits for it in hk_to_obc_fifo.                    *)
Codes == 0 .. 5 \cup {"router", "hk", "default", "alternate"}
Verifications == {"accepted", "refused", "failed", "done"}
Kinds == Verifications \cup {"parameter", "verification", "definition", "housekeeping"}
Packets == [kind : Kinds, about : Nat, code : Codes]

(* The places of the reports in a queue, and a queue that has none.           *)
Reports(s) == {k \in DOMAIN s : s[k].kind = "definition"}
NoReport(s) == \A k \in DOMAIN s : s[k].kind # "definition"

(* The places are finitely many. *)
LEMMA ReportsFinite ==
  ASSUME NEW s \in Seq(Packets)
  PROVE  IsFiniteSet(Reports(s)) /\ Definitions(s) \in Nat
  <1>1. Reports(s) \in SUBSET (1 .. Len(s))
    BY DEF Reports
  <1>2. IsFiniteSet(1 .. Len(s))
    BY FS_Interval
  <1>3. IsFiniteSet(Reports(s))
    BY <1>1, <1>2, FS_Subset
  <1> QED
    BY <1>3, FS_CardinalityType DEF Definitions, Reports

(* Packets that are no reports add none. *)
LEMMA ConcatCount ==
  ASSUME NEW s \in Seq(Packets), NEW x \in Seq(Packets), NoReport(x)
  PROVE  s \o x \in Seq(Packets) /\ Definitions(s \o x) = Definitions(s)
  <1>1. /\ s \o x \in Seq(Packets) /\ Len(s \o x) = Len(s) + Len(x)
        /\ \A i \in 1 .. Len(s) + Len(x) :
             (s \o x)[i] = IF i <= Len(s) THEN s[i] ELSE x[i - Len(s)]
    BY ConcatProperties
  <1>2. ASSUME NEW i \in 1 .. Len(s) + Len(x), ~(i <= Len(s))
        PROVE  (s \o x)[i].kind # "definition"
    <2>1. i - Len(s) \in DOMAIN x
      BY <1>2
    <2> QED
      BY <1>1, <1>2, <2>1 DEF NoReport
  <1>3. Reports(s \o x) = Reports(s)
    BY <1>1, <1>2 DEF Reports
  <1> QED
    BY <1>1, <1>3 DEF Definitions, Reports

(* A packet at the end is one more if it is a report. *)
LEMMA AppendCount ==
  ASSUME NEW s \in Seq(Packets), NEW m \in Packets
  PROVE  /\ Append(s, m) \in Seq(Packets)
         /\ Definitions(Append(s, m)) =
              Definitions(s) + (IF m.kind = "definition" THEN 1 ELSE 0)
  <1>1. /\ Append(s, m) \in Seq(Packets) /\ Len(Append(s, m)) = Len(s) + 1
        /\ \A i \in 1 .. Len(s) : Append(s, m)[i] = s[i]
        /\ Append(s, m)[Len(s) + 1] = m
    BY AppendProperties
  <1>2. IsFiniteSet(Reports(s)) /\ Definitions(s) \in Nat
    BY ReportsFinite
  <1>3. CASE m.kind = "definition"
    <2>1. Reports(Append(s, m)) = Reports(s) \cup {Len(s) + 1}
      BY <1>1, <1>3 DEF Reports
    <2>2. Len(s) + 1 \notin Reports(s)
      BY DEF Reports
    <2>3. Cardinality(Reports(s) \cup {Len(s) + 1}) = Cardinality(Reports(s)) + 1
      BY <1>2, <2>2, FS_AddElement
    <2> QED
      BY <1>1, <1>3, <2>1, <2>3 DEF Definitions, Reports
  <1>4. CASE m.kind # "definition"
    <2>1. Reports(Append(s, m)) = Reports(s)
      BY <1>1, <1>4 DEF Reports
    <2>2. Definitions(Append(s, m)) = Definitions(s)
      BY <2>1 DEF Definitions, Reports
    <2> QED
      BY <1>1, <1>2, <1>4, <2>2
  <1> QED
    BY <1>3, <1>4

(* Taking the first packet of a queue takes one away if it is a report. *)
LEMMA TailCount ==
  ASSUME NEW s \in Seq(Packets), s # <<>>
  PROVE  /\ Head(s) \in Packets /\ Tail(s) \in Seq(Packets) /\ Len(Tail(s)) = Len(s) - 1
         /\ Definitions(s) =
              Definitions(Tail(s)) + (IF Head(s).kind = "definition" THEN 1 ELSE 0)
  <1>1. /\ Head(s) \in Packets /\ Tail(s) \in Seq(Packets) /\ Len(Tail(s)) = Len(s) - 1
        /\ \A i \in 1 .. Len(Tail(s)) : Tail(s)[i] = s[i + 1]
        /\ Head(s) = s[1] /\ Len(s) \in Nat \ {0}
    BY HeadTailProperties
  <1> DEFINE T == Reports(Tail(s))
             f == [k \in T |-> k + 1]
  <1>2. IsFiniteSet(T) /\ Definitions(Tail(s)) \in Nat /\ IsFiniteSet(Reports(s))
        /\ Definitions(s) \in Nat
    BY <1>1, ReportsFinite
  <1>3. ASSUME NEW k \in 1 .. Len(s) - 1
        PROVE  k + 1 \in Reports(s) <=> k \in T
    BY <1>1 DEF Reports
  <1>4. \A k \in T : k \in 1 .. Len(s) - 1
    BY <1>1 DEF Reports
  <1>5. \A k \in Reports(s) \ {1} : k - 1 \in 1 .. Len(s) - 1
    BY <1>1 DEF Reports
  <1> HIDE DEF T
  <1>11. \A k \in Reports(s) : k \in Int
    BY DEF Reports
  <1>6. f \in Bijection(T, Reports(s) \ {1})
    <2>1. \A k \in T : f[k] = k + 1 /\ f[k] \in Reports(s) \ {1}
      BY <1>3, <1>4
    <2>2. \A k \in Reports(s) \ {1} : k - 1 \in T /\ (k - 1) + 1 = k
      BY <1>3, <1>5, <1>11
    <2>3. f \in Injection(T, Reports(s) \ {1})
      BY <1>4, <2>1 DEF Injection, IsInjective
    <2>4. f \in Surjection(T, Reports(s) \ {1})
      BY <2>1, <2>2 DEF Surjection
    <2> QED
      BY <2>3, <2>4 DEF Bijection
  <1>7. Cardinality(Reports(s) \ {1}) = Cardinality(T)
    BY <1>2, <1>6, FS_Bijection DEF ExistsBijection
  <1>8. Cardinality(Reports(s) \ {1}) =
          IF 1 \in Reports(s) THEN Cardinality(Reports(s)) - 1 ELSE Cardinality(Reports(s))
    BY <1>2, FS_RemoveElement
  <1>9. 1 \in Reports(s) <=> Head(s).kind = "definition"
    BY <1>1 DEF Reports
  <1>10. Definitions(s) = Cardinality(Reports(s)) /\ Definitions(Tail(s)) = Cardinality(T)
    BY DEF Definitions, Reports, T
  <1> QED
    BY <1>1, <1>2, <1>7, <1>8, <1>9, <1>10

(* What r has beyond q is x, and nothing if k is 0.                           *)
KeepsAndAdds(q, x, k, r) ==
  \A i \in DOMAIN r : IF i <= Len(q) THEN r[i] = q[i] ELSE k > 0 /\ r[i] = x

(* Sending to a queue: what was there stays, copies follow as far as they fit. *)
LEMMA SendKeeps ==
  ASSUME NEW S, NEW q \in Seq(S), NEW x \in S, NEW k \in Nat, Len(q) <= FifoLength
  PROVE  /\ Send(q, x, k) \in Seq(S) /\ Len(Send(q, x, k)) <= FifoLength
         /\ KeepsAndAdds(q, x, k, Send(q, x, k))
  <1> DEFINE c == [j \in 1 .. k |-> x]
             n == IF Len(q) + k < FifoLength THEN Len(q) + k ELSE FifoLength
  <1>1. FifoLength \in Nat /\ Len(q) \in Nat
    BY ConstantsOK DEF ConstantsOK
  <1>2. c \in Seq(S) /\ Len(c) = k /\ \A j \in 1 .. k : c[j] = x
    OBVIOUS
  <1> HIDE DEF c
  <1> DEFINE w == q \o c
  <1>3. /\ w \in Seq(S) /\ Len(w) = Len(q) + k
        /\ \A i \in 1 .. Len(q) + k :
             w[i] = IF i <= Len(q) THEN q[i] ELSE c[i - Len(q)]
    BY <1>2, ConcatProperties
  <1>4. n \in Nat /\ n <= Len(q) + k /\ n <= FifoLength
    BY <1>1
  <1>5. Send(q, x, k) = SubSeq(w, 1, n)
    BY DEF Send, c, w
  <1> HIDE DEF n, w
  <1>6. \A i \in 1 .. n : w[i] \in S
    BY <1>3, <1>4
  <1>7. /\ SubSeq(w, 1, n) \in Seq(S) /\ Len(SubSeq(w, 1, n)) = n
        /\ \A i \in 1 .. n : SubSeq(w, 1, n)[i] = w[i]
    <2>1. SubSeq(w, 1, n) \in Seq(S)
      BY <1>4, <1>6, SubSeqProperties
    <2>2. /\ Len(SubSeq(w, 1, n)) = IF 1 <= n THEN n - 1 + 1 ELSE 0
          /\ \A i \in 1 .. n - 1 + 1 : SubSeq(w, 1, n)[i] = w[1 + i - 1]
      BY <1>4, <1>6, SubSeqProperties
    <2> QED
      BY <1>4, <2>1, <2>2
  <1>8. ASSUME NEW i \in 1 .. n, ~(i <= Len(q))
        PROVE  k > 0 /\ w[i] = x
    <2>1. i - Len(q) \in 1 .. k
      BY <1>1, <1>4, <1>8
    <2> QED
      BY <1>1, <1>2, <1>3, <1>4, <1>8, <2>1
  <1>9. ASSUME NEW i \in 1 .. n, i <= Len(q)
        PROVE  w[i] = q[i]
    BY <1>1, <1>3, <1>4, <1>9
  <1> QED
    BY <1>4, <1>5, <1>7, <1>8, <1>9 DEF KeepsAndAdds

(* Sending one packet: it is at the end, or there was no room. *)
LEMMA SendOne ==
  ASSUME NEW S, NEW q \in Seq(S), NEW x \in S, Len(q) <= FifoLength
  PROVE  Send(q, x, 1) = IF Len(q) = FifoLength THEN q ELSE Append(q, x)
  <1>1. FifoLength \in Nat /\ Len(q) \in Nat
    BY ConstantsOK DEF ConstantsOK
  <1>2. [j \in 1 .. 1 |-> x] = <<x>>
    OBVIOUS
  <1>3. q \o <<x>> = Append(q, x) /\ Append(q, x) \in Seq(S) /\ Len(Append(q, x)) = Len(q) + 1
    BY AppendIsConcat, AppendProperties
  <1>4. CASE Len(q) = FifoLength
    <2>1. Send(q, x, 1) = SubSeq(Append(q, x), 1, Len(q))
      BY <1>1, <1>2, <1>3, <1>4 DEF Send
    <2>2. \A i \in 1 .. Len(q) : Append(q, x)[i] = q[i] /\ Append(q, x)[i] \in S
      BY AppendProperties
    <2>3. /\ SubSeq(Append(q, x), 1, Len(q)) \in Seq(S)
          /\ Len(SubSeq(Append(q, x), 1, Len(q))) = IF 1 <= Len(q) THEN Len(q) - 1 + 1 ELSE 0
          /\ \A i \in 1 .. Len(q) - 1 + 1 :
               SubSeq(Append(q, x), 1, Len(q))[i] = Append(q, x)[1 + i - 1]
      BY <1>1, <2>2, SubSeqProperties
    <2> DEFINE r == SubSeq(Append(q, x), 1, Len(q))
    <2>4. r \in Seq(S) /\ Len(r) = Len(q) /\ \A i \in 1 .. Len(q) : r[i] = q[i]
      BY <1>1, <2>2, <2>3
    <2> HIDE DEF r
    <2>5. r = q
      BY <2>4
    <2> QED
      BY <1>4, <2>1, <2>5 DEF r
  <1>5. CASE Len(q) # FifoLength
    <2>1. Send(q, x, 1) = SubSeq(Append(q, x), 1, Len(Append(q, x)))
      BY <1>1, <1>2, <1>3, <1>5 DEF Send
    <2> QED
      BY <1>3, <1>5, <2>1, SubSeqFull
  <1> QED
    BY <1>4, <1>5

-----------------------------------------------------------------------------
(* Routing: the operators of the router and of housekeeping *)

(* What the router makes for ground about a telecommand is never a report.    *)
LEMMA VerificationKind ==
  ASSUME NEW n \in Nat, NEW status, NEW code \in Codes, NEW type
  PROVE  /\ SendTcVerification(n, status, code, type) \in Seq(Packets)
         /\ NoReport(SendTcVerification(n, status, code, type))
  <1>1. ASSUME NEW kind \in Verifications
        PROVE  <<Packet(kind, n, code)>> \in Seq(Packets) /\ NoReport(<<Packet(kind, n, code)>>)
    <2>1. kind \in Kinds /\ kind # "definition"
      BY DEF Kinds, Verifications
    <2>3. Packet(kind, n, code) \in Packets
      BY <2>1 DEF Packet, Packets
    <2>4. Packet(kind, n, code).kind # "definition"
      BY <2>1 DEF Packet
    <2>2. <<Packet(kind, n, code)>> \in Seq(Packets)
      BY <2>3
    <2> QED
      BY <2>2, <2>4 DEF NoReport
  <1>2. <<>> \in Seq(Packets) /\ NoReport(<<>>)
    BY DEF NoReport
  <1>3. SendTcVerification(n, status, code, type) = <<>>
        \/ \E kind \in Verifications :
             SendTcVerification(n, status, code, type) = <<Packet(kind, n, code)>>
    BY DEF SendTcVerification, Verifications
  <1> QED
    BY <1>1, <1>2, <1>3

(* Nor is a refusal. *)
LEMMA RefusalKind ==
  ASSUME NEW n \in Nat, NEW code \in 0 .. 5
  PROVE  Refuse(n, code) \in Seq(Packets) /\ NoReport(Refuse(n, code))
  <1>1. code \in Codes
    BY DEF Codes
  <1> QED
    BY <1>1, VerificationKind DEF Refuse

(* The first check that fails reports no definition. *)
LEMMA CheckKind ==
  ASSUME NEW tc, NEW n \in Nat
  PROVE  /\ VerifyTelecommand(tc, n) \in Seq(Packets)
         /\ NoReport(VerifyTelecommand(tc, n))
  <1> DEFINE checks == Checks(tc, n)
             FailsFirst(k) == checks[k].fails /\ \A j \in 1 .. k - 1 : ~checks[j].fails
             first == CHOOSE k \in DOMAIN checks : FailsFirst(k)
             Fine(r) == r \in Seq(Packets) /\ NoReport(r)
  <1>1. Fine(<<>>) /\ \A code \in 0 .. 5 : Fine(Refuse(n, code))
    <2>1. Fine(<<>>)
      BY DEF NoReport
    <2>2. ASSUME NEW code \in 0 .. 5
          PROVE  Fine(Refuse(n, code))
      BY RefusalKind
    <2> QED
      BY <2>1, <2>2
  <1>2. DOMAIN checks = 1 .. 10
    BY DEF Checks
  <1> HIDE DEF Fine
  <1>3. ASSUME NEW k \in 1 .. 10
        PROVE  checks[k].report \in {<<>>} \cup {Refuse(n, code) : code \in 0 .. 5}
    BY <1>3 DEF Checks
  <1>4. ASSUME NEW k \in 1 .. 10
        PROVE  Fine(checks[k].report)
    BY <1>1, <1>3
  <1> HIDE DEF checks
  <1>5. CASE \E k \in DOMAIN checks : FailsFirst(k)
    <2>1. first \in DOMAIN checks
      BY <1>5
    <2>2. VerifyTelecommand(tc, n) = checks[first].report
      BY <1>5 DEF VerifyTelecommand, checks
    <2> QED
      BY <1>2, <1>4, <2>1, <2>2 DEF Fine
  <1>6. CASE ~\E k \in DOMAIN checks : FailsFirst(k)
    <2>1. VerifyTelecommand(tc, n) = <<>>
      BY <1>6 DEF VerifyTelecommand, checks
    <2> QED
      BY <1>1, <2>1 DEF Fine
  <1> QED
    BY <1>5, <1>6

HkStates == [definition : {"default", "alternate"}, param_report_requiredf : 0 .. 1]

(* What the cases of housekeeping's switch work on. *)
SwitchState(st, out) == st = [hk |-> st.hk, out |-> out] /\ st.hk \in HkStates

(* A case changes the definition or the flag; the verification is never queued. *)
LEMMA CaseIs ==
  ASSUME NEW c, NEW h, NEW out, NEW n
  PROVE  Case(c, [hk |-> h, out |-> out], n) = [hk |-> Switched(c, h), out |-> out]
  <1> DEFINE g == Switched(c, h)
  <1>1. [[hk |-> h, out |-> out] EXCEPT !.hk = Switched(c, @)] = [hk |-> g, out |-> out]
    OBVIOUS
  <1>2. SendTcExecutionVerify([hk |-> g, out |-> out], n) = [hk |-> g, out |-> out]
    BY DEF SendTcExecutionVerify, SendToBackTask
  <1> QED
    BY <1>1, <1>2 DEF Case

(* No case queues anything, and the last makes a report due. *)
LEMMA CaseKeeps ==
  ASSUME NEW st, NEW out, SwitchState(st, out), NEW n, NEW k \in 1 .. 5
  PROVE  /\ SwitchState(Case(HkCases[k], st, n), out)
         /\ k = 5 => Case(HkCases[k], st, n).hk.param_report_requiredf = 1
  <1> DEFINE h == st.hk
             c == HkCases[k]
  <1>1. h \in HkStates /\ st = [hk |-> h, out |-> out]
    BY DEF SwitchState
  <1>2. k = 5 => c = "REPORT_HK_DEFINITIONS"
    BY DEF HkCases
  <1> HIDE DEF h, c
  <1>3. /\ [h EXCEPT !.definition = "alternate"] \in HkStates
        /\ [h EXCEPT !.definition = "default"] \in HkStates
        /\ [h EXCEPT !.param_report_requiredf = 0] \in HkStates
        /\ [h EXCEPT !.param_report_requiredf = 1] \in HkStates
        /\ [h EXCEPT !.param_report_requiredf = 1].param_report_requiredf = 1
    BY <1>1 DEF HkStates
  <1>4. /\ Switched(c, h) \in HkStates
        /\ c = "REPORT_HK_DEFINITIONS" => Switched(c, h).param_report_requiredf = 1
    BY <1>3 DEF Switched
  <1>5. Case(c, st, n) = [hk |-> Switched(c, h), out |-> out]
    BY <1>1, CaseIs
  <1> DEFINE g == Switched(c, h)
             after == Case(c, st, n)
  <1> HIDE DEF g, after
  <1>6. after = [hk |-> g, out |-> out] /\ g \in HkStates
        /\ (k = 5 => g.param_report_requiredf = 1)
    BY <1>2, <1>4, <1>5 DEF g, after
  <1>7. SwitchState(after, out) /\ (k = 5 => after.hk.param_report_requiredf = 1)
    BY <1>6 DEF SwitchState
  <1> QED
    BY <1>7 DEF after, c

(* Wherever the switch is entered, its last case is carried out. *)
LEMMA SwitchReports ==
  ASSUME NEW sub \in HkSubtypes, NEW st, NEW out, SwitchState(st, out), NEW n
  PROVE  /\ SwitchState(ExecCommandsH2(sub, st, n), out)
         /\ ExecCommandsH2(sub, st, n).hk.param_report_requiredf = 1
  <1> DEFINE first == CHOOSE k \in DOMAIN HkCases : HkCases[k] = sub
             FallInto(k, before) == IF first <= k THEN Case(HkCases[k], before, n) ELSE before
             s4 == FallInto(4, FallInto(3, FallInto(2, FallInto(1, st))))
  <1>1. first \in 1 .. 5
    <2>1. DOMAIN HkCases = 1 .. 5
      BY DEF HkCases
    <2>2. \E k \in DOMAIN HkCases : HkCases[k] = sub
      BY DEF HkSubtypes
    <2> QED
      BY <2>1, <2>2
  <1>2. ExecCommandsH2(sub, st, n) = FallInto(5, s4)
    BY DEF ExecCommandsH2
  <1> HIDE DEF first
  <1>3. ASSUME NEW k \in 1 .. 5, NEW before, SwitchState(before, out)
        PROVE  SwitchState(FallInto(k, before), out)
    BY <1>3, CaseKeeps
  <1>4. SwitchState(s4, out)
    <2> HIDE DEF FallInto
    <2>1. SwitchState(FallInto(1, st), out)
      BY <1>3
    <2>2. SwitchState(FallInto(2, FallInto(1, st)), out)
      BY <1>3, <2>1
    <2>3. SwitchState(FallInto(3, FallInto(2, FallInto(1, st))), out)
      BY <1>3, <2>2
    <2> QED
      BY <1>3, <2>3
  <1> HIDE DEF s4
  <1>5. FallInto(5, s4) = Case(HkCases[5], s4, n)
    BY <1>1
  <1> QED
    BY <1>2, <1>4, <1>5, CaseKeeps

-----------------------------------------------------------------------------
(* Routing: the invariant *)

(* Only commands that the switch knows wait for housekeeping, and they have    *)
(* been decoded.                                                             *)
Queued ==
  \A k \in DOMAIN fifo["hk"] :
    fifo["hk"][k] \in DOMAIN decoded /\ decoded[fifo["hk"][k]].sub \in HkSubtypes

(* A command and the report it asks for are one round of housekeeping.        *)
NothingDue == hkPc = "commands" => hk.param_report_requiredf = 0

QueuesTyped ==
  /\ pc \in {"receive", "decode", "exec"} /\ hkPc \in {"commands", "report"}
  /\ fifo \in [Tasks -> Seq(1 .. MaxTcs)]
  /\ \A t \in Tasks : Len(fifo[t]) <= FifoLength
  /\ hk_to_obc_fifo \in Seq(Packets) /\ Len(hk_to_obc_fifo) <= FifoLength
  /\ hk \in HkStates
  /\ decoded \in Seq(Telecommands) /\ Len(decoded) <= MaxTcs
  /\ tm \in Seq(Packets)
  /\ executed \in Seq(1 .. MaxTcs)
  /\ lostReports \in Nat /\ hkReports \in 0 .. MaxHkReports

QueuesInd == QueuesTyped /\ Queued /\ NothingDue /\ OneReportPerCommand

(* The flag remembers a command.                                             *)
ArmedBefore ==
  experiment_armed = 1 =>
    \E j \in DOMAIN decoded : decoded[j].sub = "START_EXPERIMENT_ARM"

ExperimentInd ==
  /\ receiving_tcf \in 0 .. 1
  /\ experiment_armed \in 0 .. 1 /\ experiment_started \in 0 .. 1
  /\ ArmedBefore /\ StartedOnlyWhenArmed

RoutingInd == QueuesInd /\ ExperimentInd

(* The invariant gives the two that the runs check. *)
LEMMA RoutingEnough == RoutingInd => RoutingInv /\ OneReportPerCommand
  BY DEF RoutingInd, QueuesInd, QueuesTyped, ExperimentInd, RoutingInv, TypeOK, HkStates

(* It holds at boot. *)
LEMMA RoutingInitInd == Init => RoutingInd
  <1> SUFFICES ASSUME Init PROVE RoutingInd
    OBVIOUS
  <1>1. FifoLength \in Nat \ {0} /\ MaxTcs \in Nat /\ MaxHkReports \in Nat
    BY ConstantsOK DEF ConstantsOK
  <1>2. /\ receiving_tcf = 0 /\ pc = "receive" /\ hkPc = "commands" /\ hkReports = 0
        /\ fifo = [t \in Tasks |-> <<>>] /\ hk_to_obc_fifo = <<>>
        /\ decoded = <<>> /\ tm = <<>> /\ executed = <<>> /\ lostReports = 0
        /\ experiment_armed = 0 /\ experiment_started = 0
        /\ hk = [definition |-> "default", param_report_requiredf |-> 0]
    BY DEF Init
  <1>3. hk \in HkStates /\ hk.param_report_requiredf = 0
    BY <1>2 DEF HkStates
  <1>4. "hk" \in Tasks
    BY DEF Tasks
  <1>5. fifo \in [Tasks -> Seq(1 .. MaxTcs)] /\ \A t \in Tasks : fifo[t] = <<>>
    BY <1>2
  <1>6. Definitions(<<>>) = 0
    <2>1. Reports(<<>>) = {}
      BY DEF Reports
    <2> QED
      BY <2>1, FS_EmptySet DEF Definitions, Reports
  <1>7. QueuesTyped
    BY <1>1, <1>2, <1>3, <1>5 DEF QueuesTyped
  <1>8. Queued
    BY <1>4, <1>5 DEF Queued
  <1>9. OneReportPerCommand
    BY <1>2, <1>3, <1>6 DEF OneReportPerCommand
  <1> QED
    BY <1>2, <1>3, <1>7, <1>8, <1>9
       DEF RoutingInd, QueuesInd, ExperimentInd, NothingDue, ArmedBefore, StartedOnlyWhenArmed

(* Decoding a telecommand: what is said of it to ground is no report, and it   *)
(* is queued for housekeeping only if the switch knows it.                    *)
LEMMA DecodeStep ==
  ASSUME QueuesInd,
         NEW tc \in Telecommands, NEW more \in Seq(Packets), NoReport(more),
         NEW t \in Tasks, NEW k \in Nat, t = "hk" /\ k > 0 => tc.sub \in HkSubtypes,
         Decode(tc, more, t, k)
  PROVE  QueuesInd'
  <1> DEFINE n == Len(decoded) + 1
             q == Send(fifo[t], n, k)
  <1>1. QueuesTyped /\ Queued /\ NothingDue /\ OneReportPerCommand
    BY DEF QueuesInd
  <1>2. /\ decoded \in Seq(Telecommands) /\ tm \in Seq(Packets) /\ Len(decoded) \in Nat
        /\ fifo \in [Tasks -> Seq(1 .. MaxTcs)] /\ fifo[t] \in Seq(1 .. MaxTcs)
        /\ Len(fifo[t]) <= FifoLength
    BY <1>1 DEF QueuesTyped
  <1>3. /\ n <= MaxTcs
        /\ decoded' = Append(decoded, tc)
        /\ tm' = tm \o VerifyTelecommand(tc, n) \o more
        /\ fifo' = [fifo EXCEPT ![t] = q]
        /\ pc' = "exec"
        /\ hk_to_obc_fifo' = hk_to_obc_fifo
        /\ hkPc' = hkPc /\ hk' = hk /\ hkReports' = hkReports
        /\ executed' = executed /\ lostReports' = lostReports
    BY DEF Decode, hkVars
  <1>4. MaxTcs \in Nat /\ n \in 1 .. MaxTcs
    BY <1>2, <1>3, ConstantsOK DEF ConstantsOK
  <1>5. /\ decoded' \in Seq(Telecommands) /\ Len(decoded') = n
        /\ \A i \in 1 .. Len(decoded) : decoded'[i] = decoded[i]
        /\ decoded'[n] = tc
    BY <1>2, <1>3, AppendProperties
  <1>6. tm' \in Seq(Packets) /\ Definitions(tm') = Definitions(tm)
    <2>1. /\ VerifyTelecommand(tc, n) \in Seq(Packets)
          /\ NoReport(VerifyTelecommand(tc, n))
      BY <1>4, CheckKind
    <2> DEFINE v == VerifyTelecommand(tc, n)
    <2> HIDE DEF v
    <2>2. tm \o v \in Seq(Packets) /\ Definitions(tm \o v) = Definitions(tm)
      BY <1>2, <2>1, ConcatCount DEF v
    <2>3. /\ (tm \o v) \o more \in Seq(Packets)
          /\ Definitions((tm \o v) \o more) = Definitions(tm \o v)
      BY <2>2, ConcatCount
    <2> QED
      BY <1>3, <2>2, <2>3 DEF v
  <1>7. /\ q \in Seq(1 .. MaxTcs) /\ Len(q) <= FifoLength
        /\ \A i \in DOMAIN q :
             IF i <= Len(fifo[t]) THEN q[i] = fifo[t][i] ELSE k > 0 /\ q[i] = n
    <2> DEFINE S == 1 .. MaxTcs
               w == fifo[t]
    <2>1. w \in Seq(S) /\ Len(w) <= FifoLength /\ n \in S
      BY <1>2, <1>4
    <2> HIDE DEF S, w, n
    <2>2. /\ Send(w, n, k) \in Seq(S) /\ Len(Send(w, n, k)) <= FifoLength
          /\ KeepsAndAdds(w, n, k, Send(w, n, k))
      BY <2>1, SendKeeps
    <2> QED
      BY <2>2 DEF S, w, KeepsAndAdds
  <1> HIDE DEF q, n
  <1>8. /\ fifo' \in [Tasks -> Seq(1 .. MaxTcs)]
        /\ \A u \in Tasks : fifo'[u] = IF u = t THEN q ELSE fifo[u]
    BY <1>2, <1>3, <1>7
  <1>9. QueuesTyped'
    BY <1>1, <1>3, <1>4, <1>5, <1>6, <1>7, <1>8 DEF QueuesTyped
  <1>10. Queued'
    <2>1. "hk" \in Tasks
      BY DEF Tasks
    <2>2. ASSUME NEW i \in DOMAIN fifo["hk"]
          PROVE  /\ fifo["hk"][i] \in DOMAIN decoded'
                 /\ decoded'[fifo["hk"][i]].sub \in HkSubtypes
      <3>1. fifo["hk"][i] \in DOMAIN decoded /\ decoded[fifo["hk"][i]].sub \in HkSubtypes
        BY <1>1 DEF Queued
      <3>2. fifo["hk"][i] \in 1 .. Len(decoded)
        BY <1>2, <3>1
      <3>3. DOMAIN decoded' = 1 .. n
        BY <1>5
      <3> QED
        BY <1>2, <1>5, <3>1, <3>2, <3>3 DEF n
    <2>3. CASE t # "hk"
      BY <1>8, <2>1, <2>2, <2>3 DEF Queued
    <2>4. CASE t = "hk"
      <3>1. ASSUME NEW i \in DOMAIN q
            PROVE  q[i] \in DOMAIN decoded' /\ decoded'[q[i]].sub \in HkSubtypes
        <4>1. CASE i <= Len(fifo[t])
          <5>1. i \in DOMAIN fifo["hk"] /\ q[i] = fifo["hk"][i]
            BY <1>2, <1>7, <2>4, <4>1
          <5> QED
            BY <2>2, <5>1
        <4>2. CASE ~(i <= Len(fifo[t]))
          <5>1. k > 0 /\ q[i] = n
            BY <1>7, <4>2
          <5>2. n \in DOMAIN decoded'
            BY <1>4, <1>5
          <5> QED
            BY <1>5, <2>4, <5>1, <5>2
        <4> QED
          BY <4>1, <4>2
      <3> QED
        BY <1>8, <2>1, <2>4, <3>1 DEF Queued
    <2> QED
      BY <2>3, <2>4
  <1>11. NothingDue' /\ OneReportPerCommand'
    BY <1>1, <1>3, <1>6 DEF NothingDue, OneReportPerCommand
  <1> QED
    BY <1>9, <1>10, <1>11 DEF QueuesInd

(* What a telecommand may do to the experiment. *)
ExperimentMoves(tc) ==
  \/ SameExperiment
  \/ tc.sub = "START_EXPERIMENT_ARM" /\ Experiment(1, experiment_started)
  \/ /\ tc.sub = "START_EXPERIMENT_FIRE" /\ experiment_armed = 1
     /\ Experiment(experiment_armed, 1)

(* With that the flag stays behind an arm command, the start behind both. *)
LEMMA ExperimentStep ==
  ASSUME ExperimentInd, decoded \in Seq(Telecommands), NEW tc \in Telecommands,
         decoded' = Append(decoded, tc), ExperimentMoves(tc),
         receiving_tcf' = receiving_tcf
  PROVE  ExperimentInd'
  <1> DEFINE n == Len(decoded) + 1
  <1>1. /\ Len(decoded) \in Nat /\ DOMAIN decoded = 1 .. Len(decoded)
        /\ DOMAIN decoded' = 1 .. n
        /\ \A i \in 1 .. Len(decoded) : decoded'[i] = decoded[i]
        /\ decoded'[n] = tc
    BY AppendProperties
  <1>2. /\ experiment_armed \in 0 .. 1 /\ experiment_started \in 0 .. 1
        /\ receiving_tcf' \in 0 .. 1
        /\ ArmedBefore /\ StartedOnlyWhenArmed
    BY DEF ExperimentInd
  <1>3. ASSUME NEW i \in DOMAIN decoded
        PROVE  i \in DOMAIN decoded' /\ decoded'[i] = decoded[i] /\ i < n
    BY <1>1
  <1>4. n \in DOMAIN decoded'
    BY <1>1
  <1> HIDE DEF n
  <1>5. CASE SameExperiment
    <2>1. experiment_armed' = experiment_armed /\ experiment_started' = experiment_started
      BY <1>5 DEF SameExperiment
    <2>2. ArmedBefore'
      BY <1>2, <1>3, <2>1 DEF ArmedBefore
    <2>3. StartedOnlyWhenArmed'
      BY <1>2, <1>3, <2>1 DEF StartedOnlyWhenArmed
    <2> QED
      BY <1>2, <2>1, <2>2, <2>3 DEF ExperimentInd
  <1>6. CASE tc.sub = "START_EXPERIMENT_ARM" /\ Experiment(1, experiment_started)
    <2>1. experiment_armed' = 1 /\ experiment_started' = experiment_started
      BY <1>6 DEF Experiment
    <2>2. ArmedBefore'
      BY <1>1, <1>4, <1>6 DEF ArmedBefore
    <2>3. StartedOnlyWhenArmed'
      BY <1>2, <1>3, <2>1 DEF StartedOnlyWhenArmed
    <2> QED
      BY <1>2, <2>1, <2>2, <2>3 DEF ExperimentInd
  <1>7. CASE /\ tc.sub = "START_EXPERIMENT_FIRE" /\ experiment_armed = 1
             /\ Experiment(experiment_armed, 1)
    <2>1. experiment_armed' = 1 /\ experiment_started' = 1
      BY <1>7 DEF Experiment
    <2>2. PICK j \in DOMAIN decoded : decoded[j].sub = "START_EXPERIMENT_ARM"
      BY <1>2, <1>7 DEF ArmedBefore
    <2>3. /\ j \in DOMAIN decoded' /\ j < n
          /\ decoded'[j].sub = "START_EXPERIMENT_ARM"
          /\ decoded'[n].sub = "START_EXPERIMENT_FIRE"
      BY <1>1, <1>3, <1>7, <2>2
    <2>4. ArmedBefore'
      BY <2>3 DEF ArmedBefore
    <2>5. StartedOnlyWhenArmed'
      BY <1>4, <2>3 DEF StartedOnlyWhenArmed
    <2> QED
      BY <2>1, <2>4, <2>5 DEF ExperimentInd
  <1> QED
    BY <1>5, <1>6, <1>7 DEF ExperimentMoves

(* What each telecommand comes to: it is decoded once, with packets that are   *)
(* no reports, and with one of the moves of the experiment.                   *)
Decoded(tc) ==
  /\ \E more \in Seq(Packets), t \in Tasks, k \in Nat :
       /\ NoReport(more) /\ (t = "hk" /\ k > 0 => tc.sub \in HkSubtypes)
       /\ Decode(tc, more, t, k)
  /\ ExperimentMoves(tc)

(* A telecommand for no FIFO, or for one of a task that only fills. *)
LEMMA DecodedPlainly ==
  ASSUME NEW tc, NEW t \in Tasks, NEW k \in Nat, t = "hk" /\ k > 0 => tc.sub \in HkSubtypes,
         Decode(tc, <<>>, t, k), ExperimentMoves(tc)
  PROVE  Decoded(tc)
  <1>1. <<>> \in Seq(Packets) /\ NoReport(<<>>)
    BY DEF NoReport
  <1> QED
    BY <1>1 DEF Decoded

(* A telecommand of service K, with what is said about it. *)
LEMMA DecodedForSched ==
  ASSUME NEW tc, NEW more \in Seq(Packets), NoReport(more), DecodeK(tc, more),
         ExperimentMoves(tc)
  PROVE  Decoded(tc)
  <1>1. "sched" \in Tasks /\ "sched" # "hk"
    BY DEF Tasks
  <1>2. CopiesToSched(tc.sub) \in Nat
    BY DEF CopiesToSched
  <1>3. Decode(tc, more, "sched", CopiesToSched(tc.sub))
    BY DEF DecodeK
  <1> QED
    BY <1>1, <1>2, <1>3 DEF Decoded

(* Every branch of the router is such a step. *)
LEMMA Branches ==
  ASSUME decoded \in Seq(Telecommands), DecodeTelecommand
  PROVE  \E tc \in Telecommands : Decoded(tc)
  <1>1. Number \in Nat
    BY DEF Number
  <1>2. PICK tc \in Telecommands :
          \/ HkTelecommand(tc) \/ TimeTelecommand(tc) \/ MemTelecommand(tc)
          \/ FdirTelecommand(tc) \/ UnknownService(tc)
          \/ Arm(tc) \/ Fire(tc) \/ SetDeploy(tc) \/ GetParameter(tc) \/ Schedule(tc)
    BY DEF DecodeTelecommand
  <1>3. "hk" \in Tasks /\ "time" \in Tasks /\ "mem" \in Tasks /\ "fdir" \in Tasks
    BY DEF Tasks
  <1>4. Success \in Seq(Packets) /\ NoReport(Success)
    <2>1. Success = <<>>
      BY DEF Success, SendTcVerification
    <2> QED
      BY <2>1 DEF NoReport
  <1>5. Refuse(Number, 5) \in Seq(Packets) /\ NoReport(Refuse(Number, 5))
    <2>1. ASSUME NEW m \in Nat, NEW code \in 0 .. 5
          PROVE  Refuse(m, code) \in Seq(Packets) /\ NoReport(Refuse(m, code))
      BY RefusalKind
    <2>2. 5 \in 0 .. 5
      OBVIOUS
    <2> QED
      BY <1>1, <2>1, <2>2
  <1>6. ASSUME SameExperiment
        PROVE  ExperimentMoves(tc)
    BY <1>6 DEF ExperimentMoves
  <1>7. CASE HkTelecommand(tc)
    <2>1. ExperimentMoves(tc)
      BY <1>6, <1>7 DEF HkTelecommand
    <2>2. CASE Decode(tc, Refuse(Number, 5), "hk", 0)
      BY <1>3, <1>5, <2>1, <2>2 DEF Decoded
    <2>3. CASE tc.sub \in HkSubtypes /\ Decode(tc, <<>>, "hk", 1)
      BY <1>3, <2>1, <2>3, DecodedPlainly
    <2>4. CASE Decode(tc, <<>>, "fdir", 1)
      BY <1>3, <2>1, <2>4, DecodedPlainly
    <2>5. CASE Decode(tc, <<>>, "hk", 0)
      BY <1>3, <2>1, <2>5, DecodedPlainly
    <2>6. \/ Decode(tc, Refuse(Number, 5), "hk", 0)
          \/ tc.sub \in HkSubtypes /\ Decode(tc, <<>>, "hk", 1)
          \/ Decode(tc, <<>>, "fdir", 1)
          \/ Decode(tc, <<>>, "hk", 0)
      BY <1>7 DEF HkTelecommand
    <2> QED
      BY <2>2, <2>3, <2>4, <2>5, <2>6
  <1>8. CASE TimeTelecommand(tc)
    BY <1>3, <1>6, <1>8, DecodedPlainly DEF TimeTelecommand
  <1>9. CASE MemTelecommand(tc)
    BY <1>3, <1>6, <1>9, DecodedPlainly DEF MemTelecommand
  <1>10. CASE FdirTelecommand(tc)
    BY <1>3, <1>6, <1>10, DecodedPlainly DEF FdirTelecommand
  <1>11. CASE UnknownService(tc)
    BY <1>3, <1>6, <1>11, DecodedPlainly DEF UnknownService
  <1>12. CASE Arm(tc)
    BY <1>4, <1>12, DecodedForSched DEF Arm, ExperimentMoves
  <1>13. CASE Fire(tc)
    <2>1. CASE experiment_armed = 1
      <3>1. /\ tc.sub = "START_EXPERIMENT_FIRE" /\ Experiment(experiment_armed, 1)
            /\ DecodeK(tc, Success)
        BY <1>13, <2>1 DEF Fire
      <3>2. ExperimentMoves(tc)
        BY <2>1, <3>1 DEF ExperimentMoves
      <3> QED
        BY <1>4, <3>1, <3>2, DecodedForSched
    <2>2. CASE experiment_armed # 1
      <3>1. SameExperiment /\ DecodeK(tc, Refuse(Number, 5))
        BY <1>13, <2>2 DEF Fire
      <3> QED
        BY <1>5, <1>6, <3>1, DecodedForSched
    <2> QED
      BY <2>1, <2>2
  <1>14. CASE SetDeploy(tc)
    BY <1>4, <1>6, <1>14, DecodedForSched DEF SetDeploy
  <1>15. CASE GetParameter(tc)
    <2> DEFINE p == Packet("parameter", Number, 0)
    <2>1. p \in Packets /\ p.kind # "definition"
      BY <1>1 DEF Packet, Packets, Kinds, Codes
    <2>2. Success \o <<p>> = <<p>>
      BY DEF Success, SendTcVerification
    <2>3. SameExperiment /\ DecodeK(tc, Success \o <<p>>)
      BY <1>15 DEF GetParameter
    <2> HIDE DEF p
    <2>4. <<p>> \in Seq(Packets) /\ NoReport(<<p>>)
      BY <2>1 DEF NoReport
    <2> QED
      BY <1>6, <2>2, <2>3, <2>4, DecodedForSched
  <1>16. CASE Schedule(tc)
    <2>1. <<>> \in Seq(Packets) /\ NoReport(<<>>)
      BY DEF NoReport
    <2> QED
      BY <1>6, <1>16, <2>1, DecodedForSched DEF Schedule
  <1> QED
    BY <1>2, <1>7, <1>8, <1>9, <1>10, <1>11, <1>12, <1>13, <1>14, <1>15, <1>16

(* exec_commands moves at most one packet from the FIFO to ground. *)
LEMMA ExecStep ==
  ASSUME QueuesInd, ExecCommands
  PROVE  QueuesInd'
  <1>1. QueuesTyped /\ Queued /\ NothingDue /\ OneReportPerCommand
    BY DEF QueuesInd
  <1>2. /\ tm \in Seq(Packets) /\ hk_to_obc_fifo \in Seq(Packets)
        /\ Len(hk_to_obc_fifo) \in Nat /\ Len(hk_to_obc_fifo) <= FifoLength
    BY <1>1 DEF QueuesTyped
  <1>3. /\ pc' = "receive" /\ decoded' = decoded /\ fifo' = fifo /\ hkPc' = hkPc /\ hk' = hk
        /\ hkReports' = hkReports /\ executed' = executed /\ lostReports' = lostReports
    BY DEF ExecCommands, hkVars
  <1>4. Definitions(tm) \in Nat /\ Definitions(hk_to_obc_fifo) \in Nat
    BY <1>2, ReportsFinite
  <1>5. /\ tm' \in Seq(Packets) /\ hk_to_obc_fifo' \in Seq(Packets)
        /\ Len(hk_to_obc_fifo') <= Len(hk_to_obc_fifo)
        /\ Definitions(tm') + Definitions(hk_to_obc_fifo')
             = Definitions(tm) + Definitions(hk_to_obc_fifo)
    <2>1. CASE hk_to_obc_fifo = <<>>
      <3>1. tm' = tm /\ hk_to_obc_fifo' = hk_to_obc_fifo
        BY <2>1 DEF ExecCommands
      <3> QED
        BY <1>2, <3>1
    <2>2. CASE hk_to_obc_fifo # <<>>
      <3> DEFINE m == Head(hk_to_obc_fifo)
                 rest == Tail(hk_to_obc_fifo)
                 sent == IF m.kind = "verification"
                           THEN SendTcVerification(m.about, m.code, "hk", 2) ELSE <<m>>
      <3>1. hk_to_obc_fifo' = rest /\ tm' = tm \o sent
        BY <2>2 DEF ExecCommands
      <3>2. /\ m \in Packets /\ rest \in Seq(Packets) /\ Len(rest) = Len(hk_to_obc_fifo) - 1
            /\ Definitions(hk_to_obc_fifo) =
                 Definitions(rest) + (IF m.kind = "definition" THEN 1 ELSE 0)
        BY <1>2, <2>2, TailCount
      <3>3. Definitions(rest) \in Nat
        BY <3>2, ReportsFinite
      <3> HIDE DEF m, rest
      <3>4. m.about \in Nat /\ m.code \in Codes
        BY <3>2 DEF Packets
      <3>5. /\ tm' \in Seq(Packets)
            /\ Definitions(tm') = Definitions(tm) + (IF m.kind = "definition" THEN 1 ELSE 0)
        <4>1. CASE m.kind = "verification"
          <5> DEFINE v == SendTcVerification(m.about, m.code, "hk", 2)
          <5>1. "hk" \in Codes
            BY DEF Codes
          <5>3. v \in Seq(Packets) /\ NoReport(v)
            BY <3>4, <5>1, VerificationKind
          <5> HIDE DEF v
          <5>4. tm \o v \in Seq(Packets) /\ Definitions(tm \o v) = Definitions(tm)
            BY <1>2, <5>3, ConcatCount
          <5>5. tm' = tm \o v
            BY <3>1, <4>1 DEF v
          <5> QED
            BY <1>4, <4>1, <5>4, <5>5
        <4>2. CASE m.kind # "verification"
          <5>1. tm' = Append(tm, m)
            <6>1. tm' = tm \o <<m>>
              BY <3>1, <4>2
            <6>2. tm \o <<m>> = Append(tm, m)
              BY <1>2, <3>2, AppendIsConcat
            <6> QED
              BY <6>1, <6>2
          <5> QED
            BY <1>2, <3>2, <5>1, AppendCount
        <4> QED
          BY <4>1, <4>2
      <3> QED
        BY <1>2, <1>4, <3>1, <3>2, <3>3, <3>5
    <2> QED
      BY <2>1, <2>2
  <1>6. Definitions(tm') \in Nat /\ Definitions(hk_to_obc_fifo') \in Nat
    BY <1>5, ReportsFinite
  <1>7. Len(hk_to_obc_fifo') \in Nat
    BY <1>5
  <1>8. FifoLength \in Nat
    BY ConstantsOK DEF ConstantsOK
  <1>9. QueuesTyped'
    BY <1>1, <1>2, <1>3, <1>5, <1>7, <1>8 DEF QueuesTyped
  <1>10. Queued' /\ NothingDue'
    BY <1>1, <1>3 DEF Queued, NothingDue
  <1>11. OneReportPerCommand'
    <2>1. hk.param_report_requiredf \in Nat /\ lostReports \in Nat
      BY <1>1 DEF QueuesTyped, HkStates
    <2> QED
      BY <1>1, <1>3, <1>4, <1>5, <1>6, <2>1 DEF OneReportPerCommand
  <1> QED
    BY <1>9, <1>10, <1>11 DEF QueuesInd

(* Housekeeping carries out one command, and with it makes a report due. *)
LEMMA HkExecStep ==
  ASSUME QueuesInd, HkExecCommands
  PROVE  QueuesInd'
  <1> DEFINE n == Head(fifo["hk"])
             before == [hk |-> hk, out |-> hk_to_obc_fifo]
             st == ExecCommandsH2(decoded[n].sub, before, n)
  <1>1. QueuesTyped /\ Queued /\ NothingDue /\ OneReportPerCommand
    BY DEF QueuesInd
  <1>2. /\ hkPc = "commands" /\ fifo["hk"] # <<>>
        /\ hk' = st.hk /\ hk_to_obc_fifo' = st.out
        /\ executed' = Append(executed, n)
        /\ fifo' = [fifo EXCEPT !["hk"] = Tail(@)]
        /\ hkPc' = "report"
        /\ pc' = pc /\ decoded' = decoded /\ tm' = tm /\ hkReports' = hkReports
        /\ lostReports' = lostReports
    BY DEF HkExecCommands, routerVars
  <1>3. /\ "hk" \in Tasks /\ fifo \in [Tasks -> Seq(1 .. MaxTcs)]
        /\ fifo["hk"] \in Seq(1 .. MaxTcs) /\ Len(fifo["hk"]) <= FifoLength
        /\ executed \in Seq(1 .. MaxTcs)
        /\ hk \in HkStates /\ lostReports \in Nat
        /\ tm \in Seq(Packets) /\ hk_to_obc_fifo \in Seq(Packets)
    BY <1>1 DEF QueuesTyped, Tasks
  <1>4. /\ n \in 1 .. MaxTcs /\ n = fifo["hk"][1]
        /\ Tail(fifo["hk"]) \in Seq(1 .. MaxTcs)
        /\ Len(Tail(fifo["hk"])) = Len(fifo["hk"]) - 1
        /\ \A i \in 1 .. Len(Tail(fifo["hk"])) : Tail(fifo["hk"])[i] = fifo["hk"][i + 1]
        /\ Len(fifo["hk"]) \in Nat \ {0}
    <2> DEFINE S == 1 .. MaxTcs
               w == fifo["hk"]
    <2>1. w \in Seq(S) /\ w # <<>>
      BY <1>2, <1>3
    <2> HIDE DEF S, w
    <2>2. /\ Head(w) \in S /\ Head(w) = w[1] /\ Tail(w) \in Seq(S)
          /\ Len(Tail(w)) = Len(w) - 1
          /\ \A i \in 1 .. Len(Tail(w)) : Tail(w)[i] = w[i + 1]
          /\ Len(w) \in Nat \ {0}
      BY <2>1, HeadTailProperties
    <2> QED
      BY <2>2 DEF S, w
  <1>5. decoded[n].sub \in HkSubtypes
    <2>1. 1 \in DOMAIN fifo["hk"]
      BY <1>3, <1>4
    <2> QED
      BY <1>1, <1>4, <2>1 DEF Queued
  <1>6. SwitchState(before, hk_to_obc_fifo)
    BY <1>3 DEF SwitchState
  <1>7. SwitchState(st, hk_to_obc_fifo) /\ st.hk.param_report_requiredf = 1
    <2> HIDE DEF before, n
    <2> QED
      BY <1>5, <1>6, SwitchReports
  <1>8. hk' \in HkStates /\ hk'.param_report_requiredf = 1 /\ hk_to_obc_fifo' = hk_to_obc_fifo
    <2> HIDE DEF st
    <2>1. st.hk \in HkStates /\ st = [hk |-> st.hk, out |-> hk_to_obc_fifo]
      BY <1>7 DEF SwitchState
    <2> QED
      BY <1>2, <1>7, <2>1
  <1> HIDE DEF st, before
  <1>9. executed' \in Seq(1 .. MaxTcs) /\ Len(executed') = Len(executed) + 1
    BY <1>2, <1>3, <1>4, AppendProperties
  <1>10. /\ fifo' \in [Tasks -> Seq(1 .. MaxTcs)]
         /\ \A u \in Tasks : fifo'[u] = IF u = "hk" THEN Tail(fifo["hk"]) ELSE fifo[u]
    BY <1>2, <1>3, <1>4
  <1>11. FifoLength \in Nat
    BY ConstantsOK DEF ConstantsOK
  <1>12. \A u \in Tasks : Len(fifo'[u]) <= FifoLength
    <2>1. Len(Tail(fifo["hk"])) <= FifoLength
      BY <1>3, <1>4, <1>11
    <2> QED
      BY <1>1, <1>10, <2>1 DEF QueuesTyped
  <1>13. QueuesTyped'
    BY <1>1, <1>2, <1>8, <1>9, <1>10, <1>12 DEF QueuesTyped
  <1>14. Queued'
    <2>1. fifo'["hk"] = Tail(fifo["hk"])
      BY <1>3, <1>10
    <2>2. ASSUME NEW i \in DOMAIN Tail(fifo["hk"])
          PROVE  /\ Tail(fifo["hk"])[i] \in DOMAIN decoded
                 /\ decoded[Tail(fifo["hk"])[i]].sub \in HkSubtypes
      <3>1. i + 1 \in DOMAIN fifo["hk"] /\ Tail(fifo["hk"])[i] = fifo["hk"][i + 1]
        BY <1>3, <1>4
      <3> QED
        BY <1>1, <3>1 DEF Queued
    <2> QED
      BY <1>2, <2>1, <2>2 DEF Queued
  <1>15. NothingDue'
    BY <1>2 DEF NothingDue
  <1>16. OneReportPerCommand'
    <2>1. hk.param_report_requiredf = 0
      BY <1>1, <1>2 DEF NothingDue
    <2>2. Definitions(tm) \in Nat /\ Definitions(hk_to_obc_fifo) \in Nat
      BY <1>3, ReportsFinite
    <2> QED
      BY <1>1, <1>2, <1>3, <1>8, <1>9, <2>1, <2>2 DEF OneReportPerCommand
  <1> QED
    BY <1>13, <1>14, <1>15, <1>16 DEF QueuesInd

(* The report that is due goes into the FIFO or is lost; housekeeping's own     *)
(* telemetry is no report.                                                   *)
LEMMA HkSendStep ==
  ASSUME QueuesInd, SendParamReport \/ SendHkAsTm
  PROVE  QueuesInd'
  <1>1. QueuesTyped /\ Queued /\ NothingDue /\ OneReportPerCommand
    BY DEF QueuesInd
  <1>2. /\ hk \in HkStates /\ lostReports \in Nat /\ executed \in Seq(1 .. MaxTcs)
        /\ tm \in Seq(Packets) /\ hk_to_obc_fifo \in Seq(Packets)
        /\ Len(hk_to_obc_fifo) \in Nat /\ Len(hk_to_obc_fifo) <= FifoLength
        /\ hk.definition \in {"default", "alternate"} /\ hk.param_report_requiredf \in 0 .. 1
    BY <1>1 DEF QueuesTyped, HkStates
  <1>3. FifoLength \in Nat /\ MaxHkReports \in Nat
    BY ConstantsOK DEF ConstantsOK
  <1>4. Definitions(tm) \in Nat /\ Definitions(hk_to_obc_fifo) \in Nat
    BY <1>2, ReportsFinite
  <1>5. ASSUME NEW m \in Packets
        PROVE  /\ Send(hk_to_obc_fifo, m, 1) \in Seq(Packets)
               /\ Len(Send(hk_to_obc_fifo, m, 1)) <= FifoLength
               /\ Definitions(Send(hk_to_obc_fifo, m, 1)) =
                    IF Len(hk_to_obc_fifo) = FifoLength \/ m.kind # "definition"
                      THEN Definitions(hk_to_obc_fifo) ELSE Definitions(hk_to_obc_fifo) + 1
    <2>1. Send(hk_to_obc_fifo, m, 1) =
            IF Len(hk_to_obc_fifo) = FifoLength THEN hk_to_obc_fifo ELSE Append(hk_to_obc_fifo, m)
      BY <1>2, SendOne
    <2>2. /\ Append(hk_to_obc_fifo, m) \in Seq(Packets)
          /\ Definitions(Append(hk_to_obc_fifo, m)) =
               Definitions(hk_to_obc_fifo) + (IF m.kind = "definition" THEN 1 ELSE 0)
      BY <1>2, AppendCount
    <2>3. Len(Append(hk_to_obc_fifo, m)) = Len(hk_to_obc_fifo) + 1
      BY <1>2, AppendProperties
    <2>4. CASE Len(hk_to_obc_fifo) = FifoLength
      <3>1. Send(hk_to_obc_fifo, m, 1) = hk_to_obc_fifo
        BY <2>1, <2>4
      <3> QED
        BY <1>2, <2>4, <3>1
    <2>5. CASE Len(hk_to_obc_fifo) # FifoLength
      <3> DEFINE a == Append(hk_to_obc_fifo, m)
      <3>1. Send(hk_to_obc_fifo, m, 1) = a
        BY <2>1, <2>5
      <3>2. Len(a) <= FifoLength
        BY <1>2, <1>3, <2>3, <2>5
      <3>3. a \in Seq(Packets) /\ Definitions(a) =
              Definitions(hk_to_obc_fifo) + (IF m.kind = "definition" THEN 1 ELSE 0)
        BY <2>2
      <3> HIDE DEF a
      <3>4. Definitions(a) = IF m.kind # "definition"
              THEN Definitions(hk_to_obc_fifo) ELSE Definitions(hk_to_obc_fifo) + 1
        BY <1>4, <3>3
      <3> QED
        BY <2>5, <3>1, <3>2, <3>3, <3>4
    <2> QED
      BY <2>4, <2>5
  <1>6. hk.definition \in Codes /\ 0 \in Nat
    BY <1>2 DEF Codes
  <1>7. ASSUME NEW kind \in {"definition", "housekeeping"}
        PROVE  Packet(kind, 0, hk.definition) \in Packets
               /\ Packet(kind, 0, hk.definition).kind = kind
    <2>1. kind \in Kinds
      BY DEF Kinds
    <2> QED
      BY <1>6, <2>1 DEF Packet, Packets
  <1>8. CASE SendParamReport /\ hk.param_report_requiredf = 1
    <2> DEFINE m == Packet("definition", 0, hk.definition)
    <2>1. /\ hkPc = "report" /\ hkPc' = "commands"
          /\ hk_to_obc_fifo' = Send(hk_to_obc_fifo, m, 1)
          /\ lostReports' = lostReports + IF Len(hk_to_obc_fifo) = FifoLength THEN 1 ELSE 0
          /\ hk' = [hk EXCEPT !.param_report_requiredf = 0]
          /\ pc' = pc /\ decoded' = decoded /\ tm' = tm /\ fifo' = fifo
          /\ hkReports' = hkReports /\ executed' = executed
      BY <1>8 DEF SendParamReport, routerVars
    <2>2. m \in Packets /\ m.kind = "definition"
      BY <1>7
    <2>3. hk' \in HkStates /\ hk'.param_report_requiredf = 0
      BY <1>2, <2>1 DEF HkStates
    <2> HIDE DEF m
    <2>4. /\ hk_to_obc_fifo' \in Seq(Packets) /\ Len(hk_to_obc_fifo') <= FifoLength
          /\ Definitions(hk_to_obc_fifo') =
               IF Len(hk_to_obc_fifo) = FifoLength
                 THEN Definitions(hk_to_obc_fifo) ELSE Definitions(hk_to_obc_fifo) + 1
      BY <1>5, <2>1, <2>2
    <2>5. QueuesTyped'
      BY <1>1, <1>2, <2>1, <2>3, <2>4 DEF QueuesTyped
    <2>6. Queued' /\ NothingDue'
      BY <1>1, <2>1, <2>3 DEF Queued, NothingDue
    <2>7. OneReportPerCommand'
      BY <1>1, <1>2, <1>4, <1>8, <2>1, <2>3, <2>4 DEF OneReportPerCommand
    <2> QED
      BY <2>5, <2>6, <2>7 DEF QueuesInd
  <1>9. CASE SendParamReport /\ hk.param_report_requiredf # 1
    <2>1. /\ hkPc' = "commands" /\ hk_to_obc_fifo' = hk_to_obc_fifo
          /\ lostReports' = lostReports /\ hk' = hk
          /\ pc' = pc /\ decoded' = decoded /\ tm' = tm /\ fifo' = fifo
          /\ hkReports' = hkReports /\ executed' = executed
      BY <1>9 DEF SendParamReport, routerVars
    <2>2. hk.param_report_requiredf = 0
      BY <1>2, <1>9
    <2> QED
      BY <1>1, <2>1, <2>2
         DEF QueuesInd, QueuesTyped, Queued, NothingDue, OneReportPerCommand
  <1>10. CASE SendHkAsTm
    <2> DEFINE m == Packet("housekeeping", 0, hk.definition)
    <2>1. /\ hkPc = "commands" /\ hkPc' = hkPc
          /\ hkReports < MaxHkReports /\ hkReports' = hkReports + 1
          /\ hk_to_obc_fifo' = Send(hk_to_obc_fifo, m, 1)
          /\ lostReports' = lostReports /\ hk' = hk
          /\ pc' = pc /\ decoded' = decoded /\ tm' = tm /\ fifo' = fifo
          /\ executed' = executed
      BY <1>10 DEF SendHkAsTm, routerVars
    <2>2. m \in Packets /\ m.kind # "definition"
      BY <1>7
    <2> HIDE DEF m
    <2>3. /\ hk_to_obc_fifo' \in Seq(Packets) /\ Len(hk_to_obc_fifo') <= FifoLength
          /\ Definitions(hk_to_obc_fifo') = Definitions(hk_to_obc_fifo)
      BY <1>5, <2>1, <2>2
    <2>4. hkReports' \in 0 .. MaxHkReports
      BY <1>1, <1>3, <2>1 DEF QueuesTyped
    <2>5. QueuesTyped'
      BY <1>1, <2>1, <2>3, <2>4 DEF QueuesTyped
    <2> QED
      BY <1>1, <2>1, <2>3, <2>5 DEF QueuesInd, Queued, NothingDue, OneReportPerCommand
  <1> QED
    BY <1>8, <1>9, <1>10

(* Every step of the router and of housekeeping keeps the invariant. *)
LEMMA RoutingStepInd == RoutingInd /\ [Next]_vars => RoutingInd'
  <1> SUFFICES ASSUME RoutingInd, [Next]_vars PROVE RoutingInd'
    OBVIOUS
  <1>1. QueuesInd /\ ExperimentInd
    BY DEF RoutingInd
  <1>2. decoded \in Seq(Telecommands)
    BY <1>1 DEF QueuesInd, QueuesTyped
  <1>3. ASSUME UNCHANGED <<experiment_armed, experiment_started, decoded>>,
               receiving_tcf' \in {receiving_tcf, 0, 1}
        PROVE  ExperimentInd'
    BY <1>1, <1>3 DEF ExperimentInd, ArmedBefore, StartedOnlyWhenArmed
  <1>4. CASE DecodeTelecommand
    <2>1. PICK tc \in Telecommands : Decoded(tc)
      BY <1>2, <1>4, Branches
    <2>2. PICK more \in Seq(Packets), t \in Tasks, k \in Nat :
            /\ NoReport(more) /\ (t = "hk" /\ k > 0 => tc.sub \in HkSubtypes)
            /\ Decode(tc, more, t, k)
      BY <2>1 DEF Decoded
    <2>3. QueuesInd'
      BY <1>1, <2>2, DecodeStep
    <2>4. /\ decoded' = Append(decoded, tc) /\ ExperimentMoves(tc)
          /\ receiving_tcf' = receiving_tcf
      BY <2>1, <2>2 DEF Decode, Decoded
    <2>5. ExperimentInd'
      BY <1>1, <1>2, <2>4, ExperimentStep
    <2> QED
      BY <2>3, <2>5 DEF RoutingInd
  <1>5. CASE NothingToDecode \/ StartTcPacket \/ ReceiveTcMsg \/ ServeTurn
    <2>1. /\ UNCHANGED <<experiment_armed, experiment_started, decoded, tm, fifo,
                         hk_to_obc_fifo>>
          /\ pc' \in {pc, "receive", "decode", "exec"} /\ UNCHANGED hkVars
          /\ receiving_tcf' \in {receiving_tcf, 0, 1}
      BY <1>5 DEF NothingToDecode, StartTcPacket, ReceiveTcMsg, ServeTurn, NothingElse
    <2>2. QueuesInd'
      BY <1>1, <2>1
         DEF QueuesInd, QueuesTyped, Queued, NothingDue, OneReportPerCommand, hkVars
    <2> QED
      BY <1>3, <2>1, <2>2 DEF RoutingInd
  <1>6. CASE ExecCommands
    <2>1. ExperimentInd'
      BY <1>3, <1>6 DEF ExecCommands
    <2> QED
      BY <1>1, <1>6, <2>1, ExecStep DEF RoutingInd
  <1>7. CASE HkExecCommands
    <2>1. ExperimentInd'
      BY <1>3, <1>7 DEF HkExecCommands, routerVars
    <2> QED
      BY <1>1, <1>7, <2>1, HkExecStep DEF RoutingInd
  <1>8. CASE SendParamReport \/ SendHkAsTm
    <2>1. ExperimentInd'
      BY <1>3, <1>8 DEF SendParamReport, SendHkAsTm, routerVars
    <2> QED
      BY <1>1, <1>8, <2>1, HkSendStep DEF RoutingInd
  <1>9. CASE UNCHANGED vars
    BY <1>1, <1>9
       DEF vars, routerVars, hkVars, RoutingInd, QueuesInd, QueuesTyped, Queued, NothingDue,
           OneReportPerCommand, ExperimentInd, ArmedBefore, StartedOnlyWhenArmed
  <1> QED
    BY <1>4, <1>5, <1>6, <1>7, <1>8, <1>9 DEF Next, Router, HkTask

(* The invariant always holds. *)
LEMMA AlwaysRoutingInd == Spec => []RoutingInd
  BY RoutingInitInd, RoutingStepInd, PTL DEF Spec

(* Queues and flags keep their ranges for every set of telecommands and every   *)
(* length of the FIFOs, and the experiment is only started by a fire command    *)
(* that comes after an arm command.                                          *)
THEOREM RoutingInvariant == Spec => []RoutingInv
  <1>1. RoutingInd => RoutingInv
    BY RoutingEnough
  <1> QED
    BY <1>1, AlwaysRoutingInd, PTL

(* Every command that housekeeping carries out has one report of the            *)
(* definition: with ground, in the FIFO, due, or lost to a full FIFO.            *)
THEOREM OneReportEach == Spec => []OneReportPerCommand
  <1>1. RoutingInd => OneReportPerCommand
    BY RoutingEnough
  <1> QED
    BY <1>1, AlwaysRoutingInd, PTL
=============================================================================

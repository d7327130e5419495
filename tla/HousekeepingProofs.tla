-------------------------- MODULE HousekeepingProofs --------------------------
(***************************************************************************)
(* Theorems about Housekeeping: an undisturbed report is of its round, the    *)
(* messages a wait left behind do not pile up, and no value is replaced by an *)
(* older one, for every definition, assignment of its parameters to SSMs, and *)
(* length of can_hk_fifo that holds the messages of one round.               *)
(***************************************************************************)
EXTENDS Housekeeping, FiniteSetTheorems, SequenceTheorems, TLAPS

-----------------------------------------------------------------------------
(* The inductive invariant.                                                  *)

(* Messages come in the order of their rounds, and nothing stored is younger   *)
(* than what is still to come.                                               *)
AgeInv ==
  /\ \A k \in DOMAIN air : air[k].value <= round
  /\ \A j, k \in DOMAIN air : j <= k => air[j].value <= air[k].value
  /\ \A p \in Params : current_hk[p].low <= round /\ current_hk[p].high <= round
  /\ \A p \in Params, k \in DOMAIN air :
       current_hk[p].low <= air[k].value /\ current_hk[p].high <= air[k].value

(* The parameters of the SSMs before s.                                      *)
Before(s) ==
  {p \in Params : \E r \in DOMAIN Ssms : r < s /\ \E k \in DOMAIN Ssms[r] : Ssms[r][k] = p}

(* How much of the backlog a round can still leave behind.                   *)
Leftover == IF behind > 0 THEN behind - 1 ELSE 0
CountInv ==
  /\ pc = "ask" => Backlog <= behind + Cardinality(Before(i))
  /\ pc = "reset" => Backlog <= behind + N - 1
  /\ pc = "collect" => Backlog <= behind + parameter_count - 1
  /\ pc \notin {"ask", "reset", "collect"} /\ tardy = 0 => Backlog <= Leftover
  /\ lates = 0 => tardy = 0 /\ behind = 0

(* In an undisturbed round what was asked for is under way, or stored and     *)
(* counted, or stored and marked; only parameters of no SSM are missing.     *)
Undisturbed == losses = 0 /\ lates = 0
Asked == IF pc = "ask" THEN Before(i) ELSE IF pc = "idle" THEN {} ELSE Sent
UnderWay(p) == \E k \in DOMAIN air : air[k] = [name |-> p, value |-> round]
Counted(p) == \E k \in DOMAIN can_hk_fifo : can_hk_fifo[k].name = p
Marked(p) == hk_updated[p] = 1 /\ pc \notin {"ask", "reset"}
FreshInv ==
  Undisturbed =>
    /\ \A p \in Asked : \/ UnderWay(p)
                        \/ current_hk[p] = Pair(round) /\ (Counted(p) \/ Marked(p))
    /\ pc \in {"missing", "storeLow", "storeHigh"} => i \notin Sent

(* So far the report has values of this round.                               *)
CopiedInv ==
  Undisturbed =>
    /\ pc \in {"copyLow", "copyHigh"} => \A p \in Sent : p < i => report[p] = Pair(round)
    /\ pc = "copyHigh" /\ i \in Sent => report[i].low = round
    /\ pc = "send" => \A p \in Sent : report[p] = Pair(round)

Inv == TypeOK /\ AgeInv /\ CountInv /\ FreshInv /\ CopiedInv

-----------------------------------------------------------------------------
(* What the queues and the definition are like.                              *)

(* What is left of a queue when its head was taken.                           *)
LEMMA TailOf ==
  ASSUME NEW S, NEW q \in Seq(S), q # <<>>
  PROVE  /\ Tail(q) \in Seq(S) /\ Len(Tail(q)) = Len(q) - 1
         /\ Len(q) \in Nat /\ Len(q) >= 1
         /\ 1 \in DOMAIN q /\ Head(q) = q[1] /\ Head(q) \in S
         /\ \A k \in DOMAIN Tail(q) : k + 1 \in DOMAIN q /\ Tail(q)[k] = q[k + 1]
         /\ \A k \in DOMAIN q : k # 1 => k - 1 \in DOMAIN Tail(q) /\ Tail(q)[k - 1] = q[k]
BY HeadTailProperties

(* What the assumption on the constants gives, in the form the proofs use.    *)
LEMMA Definition ==
  /\ N \in Nat /\ N >= 1 /\ Obc \in Params
  /\ Len(Ssms) \in Nat /\ Len(Ssms) >= 1 /\ DOMAIN Ssms = 1 .. Len(Ssms)
  /\ \A s \in DOMAIN Ssms : Ssms[s] \in Seq(Params \ {Obc})
  /\ MaxRounds \in Nat /\ MaxLosses \in Nat /\ MaxLates \in Nat
  /\ HkFifoLength \in Nat /\ HkFifoLength >= 1 /\ HkFifoLength >= N - 1
BY ConstantsOK DEF Params

(* What an SSM answers: a message of this round for each of its parameters.   *)
LEMMA AnswersFull ==
  ASSUME round \in 1 .. MaxRounds, NEW s \in DOMAIN Ssms
  PROVE  /\ Answers(s) \in Seq(Messages) /\ Len(Answers(s)) = Len(Ssms[s])
         /\ DOMAIN Answers(s) = DOMAIN Ssms[s]
         /\ \A k \in DOMAIN Ssms[s] : /\ Answers(s)[k] = [name |-> Ssms[s][k], value |-> round]
                                      /\ Answers(s)[k].value = round
<1>1. Ssms[s] \in Seq(Params \ {Obc})
  BY Definition
<1>2. Len(Ssms[s]) \in Nat /\ DOMAIN Ssms[s] = 1 .. Len(Ssms[s])
  BY <1>1
<1>3. \A k \in DOMAIN Ssms[s] : [name |-> Ssms[s][k], value |-> round] \in Messages
  BY <1>1, <1>2 DEF Messages
<1>4. /\ DOMAIN Answers(s) = DOMAIN Ssms[s]
      /\ \A k \in DOMAIN Ssms[s] : Answers(s)[k] = [name |-> Ssms[s][k], value |-> round]
  BY DEF Answers
<1>5. Answers(s) \in [1 .. Len(Ssms[s]) -> Messages]
  BY <1>2, <1>3 DEF Answers
<1>6. Answers(s) \in Seq(Messages)
  BY <1>2, <1>5, SeqDef
<1>7. Len(Answers(s)) = Len(Ssms[s])
  BY <1>2, <1>4, <1>6, LenProperties
<1>8. \A k \in DOMAIN Ssms[s] : Answers(s)[k].value = round
  <2> SUFFICES ASSUME NEW k \in DOMAIN Ssms[s] PROVE Answers(s)[k].value = round
    OBVIOUS
  <2>1. Answers(s)[k] = [name |-> Ssms[s][k], value |-> round]
    BY <1>4
  <2> QED BY <2>1
<1> QED BY <1>4, <1>6, <1>7, <1>8

(* Nothing is asked before the first SSM.                                     *)
LEMMA NoneBefore == Before(1) = {}
BY Definition DEF Before

(* A definition has at most N - 1 parameters of SSMs.                         *)
LEMMA FewBefore ==
  ASSUME NEW s
  PROVE  /\ IsFiniteSet(Before(s)) /\ Cardinality(Before(s)) \in Nat
         /\ Cardinality(Before(s)) <= N - 1
<1>1. Before(s) \subseteq Params \ {Obc}
  BY Definition DEF Before
<1>2. IsFiniteSet(Params) /\ Cardinality(Params) = N
  BY Definition, FS_Interval DEF Params
<1>3. IsFiniteSet(Params \ {Obc}) /\ Cardinality(Params \ {Obc}) = N - 1
  BY <1>2, Definition, FS_RemoveElement
<1>4. IsFiniteSet(Before(s)) /\ Cardinality(Before(s)) <= N - 1
  BY <1>1, <1>3, FS_Subset
<1> QED BY <1>4, FS_CardinalityType

(* Each SSM adds as many parameters as it sends messages.                    *)
LEMMA BeforeNext ==
  ASSUME NEW s \in DOMAIN Ssms
  PROVE  /\ \A p \in Before(s + 1) : p \in Before(s) \/ \E k \in DOMAIN Ssms[s] : Ssms[s][k] = p
         /\ Cardinality(Before(s + 1)) = Cardinality(Before(s)) + Len(Ssms[s])
<1> DEFINE Names == {Ssms[s][k] : k \in DOMAIN Ssms[s]}
           f == Ssms[s]
           D == 1 .. Len(Ssms[s])
<1>1. /\ s \in Nat /\ f \in Seq(Params \ {Obc}) /\ Len(f) \in Nat /\ DOMAIN f = D
  BY Definition
<1>2. f \in [D -> Names] /\ \A p \in Names : \E k \in D : f[k] = p
  BY <1>1
<1>3. f \in Surjection(D, Names)
  BY <1>2 DEF Surjection
<1>4. \A k, l \in DOMAIN f : f[k] = f[l] => k = l
  BY ConstantsOK
<1>5. f \in Injection(D, Names)
  BY <1>2, <1>4 DEF Injection, IsInjective
<1>6. IsFiniteSet(D) /\ Cardinality(D) = Len(f)
  <2> DEFINE n == Len(f)
  <2>1. n \in Nat
    BY <1>1
  <2> HIDE DEF n
  <2>2. IsFiniteSet(1 .. n) /\ Cardinality(1 .. n) = n
    BY <2>1, FS_Interval
  <2> QED BY <2>2 DEF n
<1>7. IsFiniteSet(Names) /\ Cardinality(Names) = Len(f)
  BY <1>3, <1>5, <1>6, FS_Surjection
<1>8. \A r \in DOMAIN Ssms : r < s + 1 <=> r < s \/ r = s
  BY <1>1, Definition
<1>9. Names \subseteq Params
  BY <1>1
<1>10. Before(s + 1) = Before(s) \cup Names
  BY <1>8, <1>9 DEF Before
<1>11. Before(s) \cap Names = {}
  <2> SUFFICES ASSUME NEW p \in Before(s), p \in Names PROVE FALSE
    OBVIOUS
  <2>1. PICK r \in DOMAIN Ssms : r < s /\ \E k \in DOMAIN Ssms[r] : Ssms[r][k] = p
    BY DEF Before
  <2>2. PICK l \in DOMAIN Ssms[s] : Ssms[s][l] = p
    OBVIOUS
  <2>3. r = s
    BY <2>1, <2>2, ConstantsOK
  <2> QED BY <1>1, <2>1, <2>3
<1>12. Cardinality(Before(s) \cap Names) = 0
  BY <1>11, FS_EmptySet
<1>13. Cardinality(Before(s + 1)) = Cardinality(Before(s)) + Cardinality(Names) - 0
  BY <1>7, <1>10, <1>12, FewBefore, FS_Union
<1>14. Cardinality(Before(s + 1)) = Cardinality(Before(s)) + Len(f)
  <2>1. Cardinality(Before(s)) \in Nat /\ Cardinality(Names) \in Nat
    BY <1>1, <1>7, FewBefore
  <2>2. \A a, b \in Nat : a + b - 0 = a + b
    OBVIOUS
  <2>3. Cardinality(Before(s)) + Cardinality(Names) - 0
          = Cardinality(Before(s)) + Cardinality(Names)
    BY <2>1, <2>2
  <2> QED BY <1>7, <1>13, <2>3
<1>15. \A p \in Before(s + 1) : p \in Before(s) \/ \E k \in DOMAIN Ssms[s] : Ssms[s][k] = p
  BY <1>10
<1> QED BY <1>14, <1>15

(* What is asked before the end of the last SSM is everything.                *)
LEMMA AllBefore ==
  ASSUME NEW s \in DOMAIN Ssms, s = Len(Ssms)
  PROVE  Before(s + 1) = Sent
<1>1. \A r \in DOMAIN Ssms : r < s + 1
  BY Definition
<1> QED BY <1>1 DEF Before, Sent

(* A message in the queue or on the air is its name and its value.            *)
LEMMA MessagesFull ==
  ASSUME NEW q \in Seq(Messages)
  PROVE  \A k \in DOMAIN q : /\ q[k].name \in Params
                             /\ q[k].value \in 1 .. MaxRounds
                             /\ q[k] = [name |-> q[k].name, value |-> q[k].value]
<1>1. \A k \in DOMAIN q : q[k] \in Messages
  OBVIOUS
<1> QED BY <1>1 DEF Messages

-----------------------------------------------------------------------------
(* Type correctness.                                                         *)

(* The ranges hold at the start.                                              *)
LEMMA TypeInit == Init => TypeOK
<1> SUFFICES ASSUME Init PROVE TypeOK
  OBVIOUS
<1>1. Pair(Never) \in [low : Bytes, high : Bytes]
  BY DEF Pair, Bytes
<1>2. <<>> \in Seq(Messages) /\ Len(<<>>) = 0
  BY EmptySeq
<1> QED BY <1>1, <1>2, Definition DEF Init, TypeOK, Params, Results

(* Every step keeps the ranges.                                               *)
LEMMA TypeNext == TypeOK /\ [Next]_vars => TypeOK'
<1> SUFFICES ASSUME TypeOK, [Next]_vars PROVE TypeOK'
  OBVIOUS
<1> USE Definition DEF Params
<1>1. CASE UNCHANGED vars
  BY <1>1 DEF vars, faults, observers, TypeOK
<1>2. CASE StoreCanMsg
  <2>1. /\ Tail(air) \in Seq(Messages) /\ Head(air) \in Messages
    BY <1>2, TailOf DEF StoreCanMsg, TypeOK
  <2>2. Head(air).name \in Params /\ Pair(Head(air).value) \in [low : Bytes, high : Bytes]
    BY <2>1 DEF Messages, Pair, Bytes
  <2>3. current_hk' \in [Params -> [low : Bytes, high : Bytes]] /\ hk_updated' \in [Params -> 0 .. 1]
    BY <1>2, <2>2 DEF StoreCanMsg, TypeOK
  <2>4. can_hk_fifo' \in Seq(Messages) /\ Len(can_hk_fifo') <= HkFifoLength
    <3>1. CASE Len(can_hk_fifo) < HkFifoLength
      <4>1. can_hk_fifo' = Append(can_hk_fifo, Head(air))
        BY <1>2, <3>1 DEF StoreCanMsg
      <4>2. can_hk_fifo' \in Seq(Messages) /\ Len(can_hk_fifo') = Len(can_hk_fifo) + 1
        BY <2>1, <4>1, AppendProperties DEF TypeOK
      <4> QED BY <3>1, <4>2 DEF TypeOK
    <3> QED BY <1>2, <3>1 DEF StoreCanMsg, TypeOK
  <2> QED BY <1>2, <2>1, <2>3, <2>4 DEF StoreCanMsg, TypeOK, faults, observers
<1>3. CASE MessageLost
  <2>1. Tail(air) \in Seq(Messages)
    BY <1>3, TailOf DEF MessageLost, TypeOK
  <2> QED BY <1>3, <2>1 DEF MessageLost, Lose, TypeOK, observers
<1>4. CASE StartRound
  BY <1>4 DEF StartRound, Backlog, TypeOK, faults
<1>5. CASE RequestHousekeeping
  <2>1. air' \in Seq(Messages)
    <3>1. Answers(i) \in Seq(Messages)
      BY <1>5, AnswersFull DEF RequestHousekeeping, TypeOK
    <3>2. air \o Answers(i) \in Seq(Messages)
      BY <3>1, ConcatProperties DEF TypeOK
    <3> QED BY <1>5, <3>2 DEF RequestHousekeeping, TypeOK
  <2>2. losses' \in 0 .. MaxLosses
    BY <1>5 DEF RequestHousekeeping, NoLoss, Lose, TypeOK
  <2>3. \/ pc' = "reset" /\ i' = 1
        \/ pc' = "ask" /\ i # Len(Ssms) /\ i' = i + 1
    BY <1>5 DEF RequestHousekeeping, AllAsked
  <2>4. i' \in (IF pc' = "ask" THEN DOMAIN Ssms ELSE Params) /\ pc' \in {"ask", "reset"}
    BY <1>5, <2>3 DEF RequestHousekeeping, TypeOK
  <2> QED BY <1>5, <2>1, <2>2, <2>4 DEF RequestHousekeeping, TypeOK, observers
<1>6. CASE ResetUpdated
  <2>1. i \in 1 .. N
    BY <1>6 DEF ResetUpdated, TypeOK
  <2>2. CASE i < N
    BY <1>6, <2>1, <2>2 DEF ResetUpdated, TypeOK, faults, observers
  <2>3. CASE ~(i < N)
    BY <1>6, <2>1, <2>3 DEF ResetUpdated, ToCount, TypeOK, faults, observers
  <2> QED BY <2>2, <2>3
<1>7. CASE Collect
  <2>1. Tail(can_hk_fifo) \in Seq(Messages) /\ Len(Tail(can_hk_fifo)) <= HkFifoLength
        /\ Head(can_hk_fifo) \in Messages
    BY <1>7, TailOf DEF Collect, TypeOK
  <2>2. hk_updated' \in [Params -> 0 .. 1]
    BY <1>7, <2>1 DEF Collect, Messages, TypeOK
  <2>3. /\ parameter_count' \in 0 .. N /\ pc' \in {"check", "collect"}
        /\ pc' = "collect" => parameter_count' > 0
    BY <1>7 DEF Collect, Collected, TypeOK
  <2> QED BY <1>7, <2>1, <2>2, <2>3 DEF Collect, TypeOK, faults, observers
<1>8. CASE CollectTimeout
  BY <1>8 DEF CollectTimeout, TypeOK
<1>9. CASE CheckUpdated
  BY <1>9 DEF CheckUpdated, NextParam, TypeOK, faults, observers
<1>10. CASE RequestMissing
  BY <1>10 DEF RequestMissing, NextParam, TypeOK, faults, observers
<1>11. CASE StoreLow
  <2> DEFINE pair == [current_hk[i] EXCEPT !.low = req_data_result]
  <2>1. i \in Params /\ current_hk[i] \in [low : Bytes, high : Bytes] /\ req_data_result \in Bytes
    BY <1>11 DEF StoreLow, TypeOK, Bytes
  <2>2. pair \in [low : Bytes, high : Bytes] /\ current_hk' = [current_hk EXCEPT ![i] = pair]
    BY <1>11, <2>1 DEF StoreLow
  <2> QED BY <1>11, <2>1, <2>2 DEF StoreLow, TypeOK, faults, observers
<1>12. CASE StoreHigh
  <2> DEFINE pair == [current_hk[i] EXCEPT !.high = req_data_result]
  <2>1. i \in Params /\ current_hk[i] \in [low : Bytes, high : Bytes] /\ req_data_result \in Bytes
    BY <1>12 DEF StoreHigh, TypeOK, Bytes
  <2>2. pair \in [low : Bytes, high : Bytes] /\ current_hk' = [current_hk EXCEPT ![i] = pair]
    BY <1>12, <2>1 DEF StoreHigh
  <2>3. current_hk' \in [Params -> [low : Bytes, high : Bytes]] /\ hk_updated' \in [Params -> 0 .. 1]
    <3>1. /\ current_hk \in [Params -> [low : Bytes, high : Bytes]]
          /\ hk_updated \in [Params -> 0 .. 1]
      BY DEF TypeOK
    <3>2. current_hk' \in [Params -> [low : Bytes, high : Bytes]]
      <4> HIDE DEF pair
      <4> QED BY <2>1, <2>2, <3>1
    <3>3. hk_updated' = [hk_updated EXCEPT ![i] = 1]
      BY <1>12 DEF StoreHigh
    <3>4. hk_updated' \in [Params -> 0 .. 1]
      BY <2>1, <3>1, <3>3
    <3> QED BY <3>2, <3>4
  <2>4. i' \in Params /\ pc' \in {"check", "copyLow"}
    BY <1>12, <2>1 DEF StoreHigh, NextParam
  <2> QED BY <1>12, <2>3, <2>4 DEF StoreHigh, TypeOK, faults, observers
<1>13. CASE CopyLow
  <2> DEFINE pair == [report[i] EXCEPT !.low = current_hk[i].low]
  <2>1. /\ i \in Params /\ report[i] \in [low : Bytes, high : Bytes]
        /\ current_hk[i].low \in Bytes
    BY <1>13 DEF CopyLow, TypeOK
  <2>2. pair \in [low : Bytes, high : Bytes] /\ report' = [report EXCEPT ![i] = pair]
    BY <1>13, <2>1 DEF CopyLow
  <2> QED BY <1>13, <2>1, <2>2 DEF CopyLow, TypeOK, faults, observers
<1>14. CASE CopyHigh
  <2> DEFINE pair == [report[i] EXCEPT !.high = current_hk[i].high]
  <2>1. /\ i \in Params /\ report[i] \in [low : Bytes, high : Bytes]
        /\ current_hk[i].high \in Bytes
    BY <1>14 DEF CopyHigh, TypeOK
  <2>2. pair \in [low : Bytes, high : Bytes] /\ report' = [report EXCEPT ![i] = pair]
    BY <1>14, <2>1 DEF CopyHigh
  <2>3. report' \in [Params -> [low : Bytes, high : Bytes]]
    BY <2>1, <2>2 DEF TypeOK
  <2>4. i' \in Params /\ pc' \in {"copyLow", "send"}
    BY <1>14, <2>1 DEF CopyHigh
  <2> QED BY <1>14, <2>3, <2>4 DEF CopyHigh, TypeOK, faults, observers
<1>15. CASE SendHkAsTm
  BY <1>15 DEF SendHkAsTm, TypeOK, faults, observers
<1> QED BY <1>1, <1>2, <1>3, <1>4, <1>5, <1>6, <1>7, <1>8, <1>9, <1>10, <1>11, <1>12,
           <1>13, <1>14, <1>15 DEF Next, Task

-----------------------------------------------------------------------------
(* The order of the messages.                                                *)

(* Of the steps of the task only two touch current_hk: they store values that  *)
(* are not positive.                                                         *)
LEMMA TaskStores ==
  ASSUME TypeOK, Task
  PROVE  \A p \in Params :
           /\ current_hk'[p].low # current_hk[p].low
                => current_hk'[p].low < 0 /\ pc = "storeLow" /\ p = i
           /\ current_hk'[p].high # current_hk[p].high
                => current_hk'[p].high < 0 /\ pc = "storeHigh" /\ p = i
<1>1. CASE StoreLow
  BY <1>1 DEF StoreLow, TypeOK, Results, Failed, Foreign
<1>2. CASE StoreHigh
  BY <1>2 DEF StoreHigh, TypeOK, Results, Failed, Foreign
<1>3. CASE ~StoreLow /\ ~StoreHigh
  <2>1. current_hk' = current_hk
    BY <1>3 DEF Task, StartRound, RequestHousekeeping, ResetUpdated, Collect,
                CollectTimeout, CheckUpdated, RequestMissing, CopyLow, CopyHigh, SendHkAsTm
  <2> QED BY <2>1
<1> QED BY <1>1, <1>2, <1>3

(* Only the question to an SSM adds messages.                                *)
LEMMA TaskAir ==
  ASSUME Task
  PROVE  \/ air' = air
         \/ pc = "ask" /\ air' = air \o Answers(i) /\ round' = round /\ losses' = losses
BY DEF Task, StartRound, RequestHousekeeping, ResetUpdated, Collect, CollectTimeout,
       CheckUpdated, RequestMissing, StoreLow, StoreHigh, CopyLow, CopyHigh, SendHkAsTm,
       NoLoss, observers

(* The rounds only go up.                                                     *)
LEMMA RoundGrows ==
  ASSUME TypeOK, Task
  PROVE  round \in Nat /\ round' \in Nat /\ round <= round'
BY DEF Task, StartRound, RequestHousekeeping, ResetUpdated, Collect, CollectTimeout,
       CheckUpdated, RequestMissing, StoreLow, StoreHigh, CopyLow, CopyHigh, SendHkAsTm,
       TypeOK

(* The bytes of a stored value are numbers.                                   *)
LEMMA StoredNumbers ==
  ASSUME NEW hk \in [Params -> [low : Bytes, high : Bytes]]
  PROVE  \A p \in Params : hk[p].low \in Int /\ hk[p].high \in Int
<1>1. Bytes \subseteq Int
  BY Definition DEF Bytes, Results, Failed, Foreign, Never
<1>2. \A p \in Params : hk[p].low \in Bytes /\ hk[p].high \in Bytes
  OBVIOUS
<1> QED BY <1>1, <1>2

(* Every step keeps messages and stored values in the order of rounds.        *)
LEMMA AgeNext ==
  ASSUME TypeOK, TypeOK', AgeInv, [Next]_vars
  PROVE  AgeInv'
<1> USE Definition
<1>1. air \in Seq(Messages) /\ round \in Nat
  BY DEF TypeOK
<1>2. \A k \in DOMAIN air : air[k].value \in Nat \ {0} /\ air[k].name \in Params
  BY <1>1, MessagesFull
<1>3. CASE UNCHANGED vars
  BY <1>3 DEF vars, AgeInv
<1>4. ASSUME air # <<>>, air' = Tail(air), round' = round,
             \A p \in Params : \/ current_hk'[p] = current_hk[p]
                               \/ current_hk'[p] = Pair(Head(air).value)
      PROVE  AgeInv'
  <2>1. /\ 1 \in DOMAIN air /\ Head(air) = air[1] /\ DOMAIN air = 1 .. Len(air)
        /\ \A k \in DOMAIN air' : k \in Nat /\ k + 1 \in DOMAIN air /\ air'[k] = air[k + 1]
    BY <1>1, <1>4, TailOf
  <2>2. \A j, k \in DOMAIN air' : j <= k => air'[j].value <= air'[k].value
    <3> SUFFICES ASSUME NEW j \in DOMAIN air', NEW k \in DOMAIN air', j <= k
                 PROVE  air'[j].value <= air'[k].value
      OBVIOUS
    <3>1. j + 1 <= k + 1
      BY <2>1
    <3> QED BY <2>1, <3>1 DEF AgeInv
  <2>3. \A k \in DOMAIN air' : /\ air'[k].value <= round'
                               /\ Head(air).value <= air'[k].value
    <3> SUFFICES ASSUME NEW k \in DOMAIN air'
                 PROVE  air'[k].value <= round' /\ Head(air).value <= air'[k].value
      OBVIOUS
    <3>1. 1 <= k + 1
      BY <2>1
    <3> QED BY <1>4, <2>1, <3>1 DEF AgeInv
  <2>4. Head(air).value <= round'
    BY <1>4, <2>1 DEF AgeInv
  <2>5. \A p \in Params : /\ current_hk'[p].low <= round' /\ current_hk'[p].high <= round'
                          /\ \A k \in DOMAIN air' : /\ current_hk'[p].low <= air'[k].value
                                                    /\ current_hk'[p].high <= air'[k].value
    <3> SUFFICES ASSUME NEW p \in Params
                 PROVE  /\ current_hk'[p].low <= round' /\ current_hk'[p].high <= round'
                        /\ \A k \in DOMAIN air' : /\ current_hk'[p].low <= air'[k].value
                                                  /\ current_hk'[p].high <= air'[k].value
      OBVIOUS
    <3>1. CASE current_hk'[p] = current_hk[p]
      BY <1>4, <2>1, <3>1 DEF AgeInv
    <3>2. CASE current_hk'[p] = Pair(Head(air).value)
      BY <2>3, <2>4, <3>2 DEF Pair
    <3> QED BY <1>4, <3>1, <3>2
  <2> QED BY <2>2, <2>3, <2>5 DEF AgeInv
<1>5. CASE StoreCanMsg
  <2>1. /\ air # <<>> /\ air' = Tail(air) /\ round' = round
        /\ current_hk' = [current_hk EXCEPT ![Head(air).name] = Pair(Head(air).value)]
    BY <1>5 DEF StoreCanMsg
  <2>2. \A p \in Params : \/ current_hk'[p] = current_hk[p]
                          \/ current_hk'[p] = Pair(Head(air).value)
    BY <2>1 DEF TypeOK
  <2> QED BY <1>4, <2>1, <2>2
<1>6. CASE MessageLost
  <2>1. air # <<>> /\ air' = Tail(air) /\ round' = round /\ current_hk' = current_hk
    BY <1>6 DEF MessageLost
  <2> QED BY <1>4, <2>1
<1>7. CASE Task
  <2>1. round' \in Nat /\ round <= round'
    BY <1>7, RoundGrows
  <2>2. \A p \in Params : /\ current_hk'[p].low \in {current_hk[p].low} \/ current_hk'[p].low < 0
                          /\ current_hk'[p].high \in {current_hk[p].high} \/ current_hk'[p].high < 0
    BY <1>7, TaskStores
  <2>3. \A p \in Params : /\ current_hk[p].low \in Int /\ current_hk[p].high \in Int
                          /\ current_hk'[p].low \in Int /\ current_hk'[p].high \in Int
    <3>1. \A p \in Params : current_hk[p].low \in Int /\ current_hk[p].high \in Int
      BY StoredNumbers DEF TypeOK
    <3>2. \A p \in Params : current_hk'[p].low \in Int /\ current_hk'[p].high \in Int
      BY StoredNumbers DEF TypeOK
    <3> QED BY <3>1, <3>2
  <2>4. \A p \in Params : current_hk'[p].low <= round' /\ current_hk'[p].high <= round'
    <3> SUFFICES ASSUME NEW p \in Params
                 PROVE  current_hk'[p].low <= round' /\ current_hk'[p].high <= round'
      OBVIOUS
    <3>1. current_hk[p].low <= round /\ current_hk[p].high <= round
      BY DEF AgeInv
    <3>2. /\ current_hk'[p].low \in {current_hk[p].low} \/ current_hk'[p].low < 0
          /\ current_hk'[p].high \in {current_hk[p].high} \/ current_hk'[p].high < 0
          /\ current_hk'[p].low \in Int /\ current_hk'[p].high \in Int
      BY <2>2, <2>3
    <3> QED BY <1>1, <2>1, <3>1, <3>2
  <2>5. \A p \in Params, v \in Nat :
          /\ current_hk[p].low <= v => current_hk'[p].low <= v
          /\ current_hk[p].high <= v => current_hk'[p].high <= v
    BY <2>2, <2>3
  <2>6. CASE air' = air
    <3>1. \A k \in DOMAIN air : air[k].value <= round'
      BY <1>1, <1>2, <2>1 DEF AgeInv
    <3> QED BY <1>2, <2>4, <2>5, <2>6, <3>1 DEF AgeInv
  <2>7. CASE pc = "ask" /\ air' = air \o Answers(i) /\ round' = round
    <3>1. /\ Answers(i) \in Seq(Messages)
          /\ \A k \in DOMAIN Answers(i) : Answers(i)[k].value = round
      <4>1. i \in DOMAIN Ssms /\ round \in 1 .. MaxRounds
        BY <2>7 DEF TypeOK
      <4>2. /\ Answers(i) \in Seq(Messages) /\ DOMAIN Answers(i) = DOMAIN Ssms[i]
            /\ \A k \in DOMAIN Ssms[i] : Answers(i)[k].value = round
        BY <4>1, AnswersFull
      <4> QED BY <4>2
    <3>2. /\ DOMAIN air = 1 .. Len(air) /\ Len(air) \in Nat
          /\ DOMAIN Answers(i) = 1 .. Len(Answers(i)) /\ Len(Answers(i)) \in Nat
          /\ air' \in Seq(Messages) /\ Len(air') = Len(air) + Len(Answers(i))
          /\ \A k \in 1 .. Len(air) + Len(Answers(i)) :
               air'[k] = IF k <= Len(air) THEN air[k] ELSE Answers(i)[k - Len(air)]
      BY <1>1, <2>7, <3>1, ConcatProperties
    <3>3. DOMAIN air' = 1 .. Len(air) + Len(Answers(i))
      BY <3>2
    <3>4. \A k \in DOMAIN air' : \/ k \in DOMAIN air /\ air'[k] = air[k]
                                 \/ k > Len(air) /\ air'[k].value = round
      <4> SUFFICES ASSUME NEW k \in 1 .. Len(air) + Len(Answers(i))
                   PROVE  \/ k \in DOMAIN air /\ air'[k] = air[k]
                          \/ k > Len(air) /\ air'[k].value = round
        BY <3>3
      <4>1. air'[k] = IF k <= Len(air) THEN air[k] ELSE Answers(i)[k - Len(air)]
        BY <3>2
      <4>2. CASE k <= Len(air)
        <5>1. k \in DOMAIN air
          BY <3>2, <4>2
        <5> QED BY <4>1, <4>2, <5>1
      <4>3. CASE ~(k <= Len(air))
        <5>1. k - Len(air) \in DOMAIN Answers(i) /\ k > Len(air)
          BY <3>2, <4>3
        <5> QED BY <3>1, <4>1, <4>3, <5>1
      <4> QED BY <4>2, <4>3
    <3>5. \A k \in DOMAIN air' : air'[k].value <= round'
      BY <1>1, <2>7, <3>4 DEF AgeInv
    <3>6. \A j, k \in DOMAIN air' : j <= k => air'[j].value <= air'[k].value
      <4> SUFFICES ASSUME NEW j \in DOMAIN air', NEW k \in DOMAIN air', j <= k
                   PROVE  air'[j].value <= air'[k].value
        OBVIOUS
      <4>1. CASE k \in DOMAIN air /\ air'[k] = air[k]
        <5>1. j \in DOMAIN air /\ air'[j] = air[j]
          BY <3>2, <3>3, <3>4, <4>1
        <5> QED BY <4>1, <5>1 DEF AgeInv
      <4>2. CASE k > Len(air) /\ air'[k].value = round
        BY <2>7, <3>5, <4>2
      <4> QED BY <3>4, <4>1, <4>2
    <3>7. \A p \in Params, k \in DOMAIN air' :
            current_hk'[p].low <= air'[k].value /\ current_hk'[p].high <= air'[k].value
      <4> SUFFICES ASSUME NEW p \in Params, NEW k \in DOMAIN air'
                   PROVE  current_hk'[p].low <= air'[k].value /\ current_hk'[p].high <= air'[k].value
        OBVIOUS
      <4>1. CASE k \in DOMAIN air /\ air'[k] = air[k]
        <5>1. /\ current_hk[p].low <= air[k].value /\ current_hk[p].high <= air[k].value
              /\ air[k].value \in Nat
          BY <1>2, <4>1 DEF AgeInv
        <5> QED BY <2>5, <4>1, <5>1
      <4>2. CASE k > Len(air) /\ air'[k].value = round
        BY <2>4, <2>7, <4>2
      <4> QED BY <3>4, <4>1, <4>2
    <3> QED BY <2>4, <3>5, <3>6, <3>7 DEF AgeInv
  <2> QED BY <1>7, <2>6, <2>7, TaskAir
<1> QED BY <1>3, <1>5, <1>6, <1>7 DEF Next

-----------------------------------------------------------------------------
(* How many messages a round leaves behind.                                  *)

(* The lengths and counters are numbers; an empty list has length 0.          *)
LEMMA Lengths ==
  ASSUME TypeOK
  PROVE  /\ Len(air) \in Nat /\ Len(can_hk_fifo) \in Nat /\ Backlog \in Nat
         /\ Backlog = Len(can_hk_fifo) + Len(air)
         /\ behind \in Nat /\ tardy \in Nat /\ parameter_count \in Nat /\ lates \in Nat
         /\ Len(air) = 0 <=> air = <<>>
         /\ Len(can_hk_fifo) = 0 <=> can_hk_fifo = <<>>
<1>1. air \in Seq(Messages) /\ can_hk_fifo \in Seq(Messages)
  BY DEF TypeOK
<1>2. /\ Len(air) \in Nat /\ Len(can_hk_fifo) \in Nat
      /\ Len(air) = 0 <=> air = <<>>
      /\ Len(can_hk_fifo) = 0 <=> can_hk_fifo = <<>>
  BY <1>1, EmptySeq
<1> QED BY <1>2, Definition DEF TypeOK, Backlog

(* Every step keeps the bounds on what is waiting.                            *)
LEMMA CountNext ==
  ASSUME TypeOK, TypeOK', CountInv, [Next]_vars
  PROVE  CountInv'
<1> USE Definition
<1>1. /\ Len(air) \in Nat /\ Len(can_hk_fifo) \in Nat /\ Backlog \in Nat
      /\ Backlog = Len(can_hk_fifo) + Len(air)
      /\ behind \in Nat /\ tardy \in Nat /\ parameter_count \in Nat /\ lates \in Nat
      /\ Len(air) = 0 <=> air = <<>>
      /\ Len(can_hk_fifo) = 0 <=> can_hk_fifo = <<>>
  BY Lengths
<1>2. Len(air') \in Nat /\ Len(can_hk_fifo') \in Nat /\ Backlog' = Len(can_hk_fifo') + Len(air')
  <2>1. air' \in Seq(Messages) /\ can_hk_fifo' \in Seq(Messages)
    BY DEF TypeOK
  <2> QED BY <2>1 DEF Backlog
<1>3. Cardinality(Before(i)) \in Nat /\ Cardinality(Before(i)) <= N - 1
  BY FewBefore
<1>4. ASSUME Backlog' <= Backlog,
             UNCHANGED <<pc, i, parameter_count, behind, tardy, lates>>
      PROVE  CountInv'
  <2>1. Before(i)' = Before(i) /\ Leftover' = Leftover /\ Leftover \in Nat
    BY <1>1, <1>4 DEF Before, Leftover
  <2>2. Backlog' \in Nat
    BY <1>2
  <2> QED BY <1>1, <1>3, <1>4, <2>1, <2>2 DEF CountInv
<1>5. CASE UNCHANGED vars
  <2>1. Backlog' = Backlog
    BY <1>5 DEF vars, Backlog
  <2> QED BY <1>1, <1>4, <1>5, <2>1 DEF vars, faults, observers
<1>6. CASE StoreCanMsg
  <2>1. Len(air') = Len(air) - 1
    BY <1>6, TailOf DEF StoreCanMsg, TypeOK
  <2>2. Len(can_hk_fifo') <= Len(can_hk_fifo) + 1
    <3>1. Head(air) \in Messages
      BY <1>6, TailOf DEF StoreCanMsg, TypeOK
    <3>2. Len(Append(can_hk_fifo, Head(air))) = Len(can_hk_fifo) + 1
      BY <3>1, AppendProperties DEF TypeOK
    <3>3. can_hk_fifo' = Append(can_hk_fifo, Head(air)) \/ can_hk_fifo' = can_hk_fifo
      BY <1>6 DEF StoreCanMsg
    <3> QED BY <1>1, <3>2, <3>3
  <2>3. Backlog' <= Backlog
    BY <1>1, <1>2, <2>1, <2>2
  <2> QED BY <1>4, <1>6, <2>3 DEF StoreCanMsg, faults, observers
<1>7. CASE MessageLost
  <2>1. Len(air') = Len(air) - 1 /\ can_hk_fifo' = can_hk_fifo
    BY <1>7, TailOf DEF MessageLost, TypeOK
  <2>2. Backlog' <= Backlog
    BY <1>1, <1>2, <2>1
  <2> QED BY <1>4, <1>7, <2>2 DEF MessageLost, observers
<1>8. CASE StartRound
  <2>1. /\ pc = "idle" /\ pc' = "ask" /\ i' = 1 /\ Backlog' = Backlog
        /\ behind' = Backlog /\ tardy' = 0 /\ lates' = lates
    BY <1>8 DEF StartRound, faults, Backlog
  <2>2. Before(i)' = {}
    BY <2>1, NoneBefore DEF Before
  <2>3. Cardinality(Before(i)') = 0
    BY <2>2, FS_EmptySet
  <2>4. lates = 0 => Backlog = 0
    BY <1>1, <2>1 DEF CountInv, Leftover
  <2>5. Backlog' <= behind' + Cardinality(Before(i)')
    BY <1>1, <2>1, <2>3
  <2> QED BY <2>1, <2>4, <2>5 DEF CountInv
<1>9. CASE RequestHousekeeping
  <2>1. /\ pc = "ask" /\ i \in DOMAIN Ssms /\ can_hk_fifo' = can_hk_fifo
        /\ behind' = behind /\ tardy' = tardy /\ lates' = lates
        /\ \/ air' = air \o Answers(i) /\ (i = Len(Ssms) \/ i' = i + 1)
           \/ air' = air
        /\ \/ pc' = "reset"
           \/ pc' = "ask" /\ i' = i + 1
    BY <1>9 DEF RequestHousekeeping, AllAsked, TypeOK, observers
  <2>2. Len(Answers(i)) = Len(Ssms[i]) /\ Answers(i) \in Seq(Messages) /\ Len(Ssms[i]) \in Nat
    BY <2>1, AnswersFull DEF TypeOK
  <2>3. Len(air \o Answers(i)) = Len(air) + Len(Ssms[i])
    <3>1. air \in Seq(Messages)
      BY DEF TypeOK
    <3>2. \A r \in Seq(Messages) : Len(air \o r) = Len(air) + Len(r)
      BY <3>1, ConcatProperties
    <3>3. Len(air \o Answers(i)) = Len(air) + Len(Answers(i))
      BY <2>2, <3>2
    <3> QED BY <2>2, <3>3
  <2>4. Backlog' <= Backlog + Len(Ssms[i])
    BY <1>1, <1>2, <2>1, <2>2, <2>3
  <2>5. /\ Cardinality(Before(i + 1)) = Cardinality(Before(i)) + Len(Ssms[i])
        /\ Cardinality(Before(i + 1)) \in Nat /\ Cardinality(Before(i + 1)) <= N - 1
    BY <2>1, BeforeNext, FewBefore
  <2>6. Backlog <= behind + Cardinality(Before(i))
    BY <2>1 DEF CountInv
  <2>7. Backlog' <= behind + Cardinality(Before(i + 1))
    <3>1. \A b, m, l, c, d \in Nat : b <= m + c /\ d <= b + l => d <= m + (c + l)
      OBVIOUS
    <3>2. Backlog' \in Nat
      BY <1>2
    <3> QED BY <1>1, <1>3, <2>2, <2>4, <2>5, <2>6, <3>1, <3>2
  <2>8. Backlog' <= behind + N - 1
    BY <1>1, <1>2, <2>5, <2>7
  <2>9. pc' = "ask" => Backlog' <= behind' + Cardinality(Before(i)')
    <3> SUFFICES ASSUME pc' = "ask" PROVE Backlog' <= behind' + Cardinality(Before(i)')
      OBVIOUS
    <3>1. Before(i)' = Before(i + 1)
      BY <2>1 DEF Before
    <3> QED BY <2>1, <2>7, <3>1
  <2> QED BY <2>1, <2>8, <2>9 DEF CountInv
<1>10. CASE ResetUpdated
  <2>1. /\ pc = "reset" /\ Backlog' = Backlog /\ behind' = behind /\ tardy' = tardy
        /\ lates' = lates
        /\ pc' = "reset" \/ (pc' = "collect" /\ parameter_count' = N)
    BY <1>10 DEF ResetUpdated, ToCount, Backlog, faults, observers
  <2> QED BY <1>1, <2>1 DEF CountInv
<1>11. CASE Collect
  <2>1. /\ pc = "collect" /\ air' = air /\ behind' = behind /\ tardy' = tardy /\ lates' = lates
        /\ parameter_count' = parameter_count - 1 /\ parameter_count > 0
        /\ \/ pc' = "collect" /\ parameter_count > 1
           \/ pc' = "check" /\ parameter_count = 1
    BY <1>1, <1>11 DEF Collect, Collected, TypeOK, faults, observers
  <2>2. Len(can_hk_fifo') = Len(can_hk_fifo) - 1
    BY <1>11, TailOf DEF Collect, TypeOK
  <2>3. Backlog' = Backlog - 1
    BY <1>1, <1>2, <2>1, <2>2
  <2>4. Backlog <= behind + parameter_count - 1
    BY <2>1 DEF CountInv
  <2>5. pc' = "collect" => Backlog' <= behind' + parameter_count' - 1
    BY <1>1, <2>1, <2>3, <2>4
  <2>6. pc' = "check" => Backlog' <= Leftover'
    BY <1>1, <1>2, <2>1, <2>3, <2>4 DEF Leftover
  <2> QED BY <2>1, <2>5, <2>6 DEF CountInv
<1>12. CASE CollectTimeout
  <2>1. /\ pc = "collect" /\ can_hk_fifo' = can_hk_fifo /\ can_hk_fifo = <<>> /\ air' = air
        /\ behind' = behind /\ tardy' = Len(air) /\ pc' = "check"
        /\ (air = <<>> /\ lates' = lates) \/ lates' = lates + 1
    BY <1>12 DEF CollectTimeout
  <2>2. Backlog' = tardy'
    BY <1>1, <1>2, <2>1
  <2>3. Leftover' \in Nat
    BY <1>1, <2>1 DEF Leftover
  <2>4. lates' = 0 => lates = 0 /\ tardy' = 0 /\ behind' = 0
    BY <1>1, <2>1 DEF CountInv
  <2> QED BY <2>1, <2>2, <2>3, <2>4 DEF CountInv
<1>13. CASE \/ CheckUpdated \/ RequestMissing \/ StoreLow \/ StoreHigh
            \/ CopyLow \/ CopyHigh \/ SendHkAsTm
  <2>1. /\ pc \notin {"ask", "reset", "collect"} /\ pc' \notin {"ask", "reset", "collect"}
        /\ Backlog' = Backlog /\ behind' = behind /\ tardy' = tardy /\ lates' = lates
    BY <1>13 DEF CheckUpdated, RequestMissing, StoreLow, StoreHigh, CopyLow, CopyHigh,
                 SendHkAsTm, NextParam, Backlog, faults, observers
  <2>2. Leftover' = Leftover
    BY <2>1 DEF Leftover
  <2> QED BY <2>1, <2>2 DEF CountInv
<1> QED BY <1>5, <1>6, <1>7, <1>8, <1>9, <1>10, <1>11, <1>12, <1>13 DEF Next, Task

-----------------------------------------------------------------------------
(* An undisturbed round.                                                     *)

(* Nothing of an earlier round is left, so that can_hk_fifo has room for what  *)
(* is under way; once the wait is over nothing is.                           *)
LEMMA UndisturbedBacklog ==
  ASSUME TypeOK, CountInv, Undisturbed
  PROVE  /\ Len(can_hk_fifo) + Len(air) <= N - 1
         /\ pc \notin {"ask", "reset", "collect"} => air = <<>> /\ can_hk_fifo = <<>>
<1> USE Definition
<1>1. /\ Len(air) \in Nat /\ Len(can_hk_fifo) \in Nat /\ Backlog \in Nat
      /\ Backlog = Len(can_hk_fifo) + Len(air)
      /\ Len(air) = 0 <=> air = <<>>
      /\ Len(can_hk_fifo) = 0 <=> can_hk_fifo = <<>>
  BY Lengths
<1>2. tardy = 0 /\ behind = 0
  BY DEF CountInv, Undisturbed
<1>3. CASE pc = "ask"
  <2>1. Cardinality(Before(i)) \in Nat /\ Cardinality(Before(i)) <= N - 1
    BY FewBefore
  <2>2. Backlog <= 0 + Cardinality(Before(i))
    BY <1>2, <1>3 DEF CountInv
  <2> QED BY <1>1, <1>3, <2>1, <2>2
<1>4. CASE pc = "reset"
  BY <1>1, <1>2, <1>4 DEF CountInv
<1>5. CASE pc = "collect"
  <2>1. parameter_count \in 0 .. N
    BY DEF TypeOK
  <2> QED BY <1>1, <1>2, <1>5, <2>1 DEF CountInv
<1>6. CASE pc \notin {"ask", "reset", "collect"}
  <2>1. Backlog <= 0
    BY <1>2, <1>6 DEF CountInv, Leftover
  <2> QED BY <1>1, <2>1
<1> QED BY <1>3, <1>4, <1>5, <1>6

(* After the wait each parameter of an SSM is stored and marked.              *)
LEMMA AllStored ==
  ASSUME TypeOK, CountInv, FreshInv, Undisturbed,
         pc \notin {"idle", "ask", "reset", "collect"}, NEW p \in Sent
  PROVE  current_hk[p] = Pair(round) /\ hk_updated[p] = 1
<1>1. air = <<>> /\ can_hk_fifo = <<>>
  BY UndisturbedBacklog
<1>2. DOMAIN air = {} /\ DOMAIN can_hk_fifo = {}
  BY <1>1
<1>3. p \in Asked
  BY DEF Asked
<1> QED BY <1>2, <1>3 DEF FreshInv, UnderWay, Counted, Marked

(* A round that is undisturbed after a step was so before it.                 *)
LEMMA StaysUndisturbed ==
  ASSUME TypeOK, [Next]_vars, Undisturbed'
  PROVE  /\ Undisturbed /\ losses' = losses /\ ~MessageLost
         /\ RequestHousekeeping =>
              /\ air' = air \o Answers(i)
              /\ IF i = Len(Ssms) THEN AllAsked ELSE i' = i + 1 /\ pc' = pc
<1>1. losses \in Nat /\ lates \in Nat
  BY Definition DEF TypeOK
<1>2. \/ losses' = losses /\ (lates' = lates \/ lates' = lates + 1)
      \/ losses' = losses + 1
  BY DEF Next, Task, StartRound, RequestHousekeeping, ResetUpdated, Collect, CollectTimeout,
         CheckUpdated, RequestMissing, StoreLow, StoreHigh, CopyLow, CopyHigh, SendHkAsTm,
         StoreCanMsg, MessageLost, NoLoss, Lose, vars, faults
<1>3. losses = 0 /\ lates = 0 /\ losses' = losses
  BY <1>1, <1>2 DEF Undisturbed
<1>4. ~Lose
  BY <1>1, <1>3 DEF Lose
<1> QED BY <1>3, <1>4 DEF Undisturbed, MessageLost, RequestHousekeeping

(* The interrupt stores an answer, or leaves it on its way.                   *)
LEMMA FreshByInterrupt ==
  ASSUME TypeOK, AgeInv, CountInv, FreshInv, Undisturbed, StoreCanMsg, NEW p \in Asked
  PROVE  UnderWay(p)' \/ (current_hk'[p] = Pair(round) /\ (Counted(p)' \/ Marked(p)'))
<1> USE Definition
<1>1. air \in Seq(Messages) /\ can_hk_fifo \in Seq(Messages) /\ air # <<>> /\ round \in Nat
  BY DEF TypeOK, StoreCanMsg
<1>2. /\ 1 \in DOMAIN air /\ Head(air) = air[1] /\ Head(air) \in Messages
      /\ \A k \in DOMAIN air : k # 1 => k - 1 \in DOMAIN Tail(air) /\ Tail(air)[k - 1] = air[k]
      /\ Len(air) \in Nat /\ Len(air) >= 1
  BY <1>1, TailOf
<1>3. Len(can_hk_fifo) \in Nat /\ Len(can_hk_fifo) < HkFifoLength
  <2>1. Len(can_hk_fifo) \in Nat
    BY <1>1
  <2>2. Len(can_hk_fifo) + Len(air) <= N - 1
    BY UndisturbedBacklog
  <2> QED BY <1>2, <2>1, <2>2
<1>4. /\ air' = Tail(air) /\ round' = round /\ pc' = pc
      /\ current_hk' = [current_hk EXCEPT ![Head(air).name] = Pair(Head(air).value)]
      /\ hk_updated' = [hk_updated EXCEPT ![Head(air).name] = 1]
      /\ can_hk_fifo' = Append(can_hk_fifo, Head(air))
  BY <1>3 DEF StoreCanMsg
<1>5. /\ \A k \in DOMAIN can_hk_fifo : k \in DOMAIN can_hk_fifo' /\ can_hk_fifo'[k] = can_hk_fifo[k]
      /\ \E k \in DOMAIN can_hk_fifo' : can_hk_fifo'[k] = Head(air)
  <2>1. /\ Len(can_hk_fifo') = Len(can_hk_fifo) + 1 /\ can_hk_fifo' \in Seq(Messages)
        /\ \A k \in 1 .. Len(can_hk_fifo) : can_hk_fifo'[k] = can_hk_fifo[k]
        /\ can_hk_fifo'[Len(can_hk_fifo) + 1] = Head(air)
    BY <1>1, <1>2, <1>4, AppendProperties
  <2>2. /\ DOMAIN can_hk_fifo = 1 .. Len(can_hk_fifo)
        /\ DOMAIN can_hk_fifo' = 1 .. Len(can_hk_fifo) + 1
    BY <1>1, <2>1
  <2>3. Len(can_hk_fifo) + 1 \in DOMAIN can_hk_fifo'
    BY <1>3, <2>2
  <2> QED BY <1>3, <2>1, <2>2, <2>3
<1>6. p \in Params
  BY DEF Asked, Before, Sent
<1>7. CASE UnderWay(p)
  <2>1. PICK k \in DOMAIN air : air[k] = [name |-> p, value |-> round]
    BY <1>7 DEF UnderWay
  <2>2. CASE k = 1
    <3>1. Head(air).name = p /\ Head(air).value = round
      BY <1>2, <2>1, <2>2
    <3>2. current_hk'[p] = Pair(round)
      BY <1>4, <1>6, <3>1 DEF TypeOK
    <3>3. Counted(p)'
      BY <1>5, <3>1 DEF Counted
    <3> QED BY <3>2, <3>3
  <2>3. CASE k # 1
    <3>1. k - 1 \in DOMAIN air' /\ air'[k - 1] = [name |-> p, value |-> round']
      BY <1>2, <1>4, <2>1, <2>3
    <3> QED BY <3>1 DEF UnderWay
  <2> QED BY <2>2, <2>3
<1>8. CASE current_hk[p] = Pair(round) /\ (Counted(p) \/ Marked(p))
  <2>1. current_hk'[p] = Pair(round)
    <3>1. CASE Head(air).name = p
      <4>1. Head(air).value \in Nat /\ Head(air).value <= round
        BY <1>1, <1>2, MessagesFull DEF AgeInv, Messages
      <4>2. current_hk[p].low <= air[1].value /\ current_hk[p].low = round
        BY <1>2, <1>6, <1>8 DEF AgeInv, Pair
      <4>3. Head(air).value = round
        BY <1>1, <1>2, <4>1, <4>2
      <4> QED BY <1>4, <1>6, <3>1, <4>3 DEF TypeOK
    <3>2. CASE Head(air).name # p
      BY <1>4, <1>6, <1>8, <3>2 DEF TypeOK
    <3> QED BY <3>1, <3>2
  <2>2. CASE Counted(p)
    <3>1. Counted(p)'
      BY <1>5, <2>2 DEF Counted
    <3> QED BY <2>1, <3>1
  <2>3. CASE Marked(p)
    <3>1. hk_updated'[p] = 1
      BY <1>4, <1>6, <2>3 DEF Marked, TypeOK
    <3>2. Marked(p)'
      BY <1>4, <2>3, <3>1 DEF Marked
    <3> QED BY <2>1, <3>2
  <2> QED BY <1>8, <2>2, <2>3
<1> QED BY <1>7, <1>8 DEF FreshInv

(* The question to an SSM puts its parameters on their way.                   *)
LEMMA FreshByRequest ==
  ASSUME TypeOK, FreshInv, Undisturbed, pc = "ask",
         air' = air \o Answers(i),
         UNCHANGED <<current_hk, can_hk_fifo, hk_updated, round>>,
         NEW p \in Before(i + 1)
  PROVE  UnderWay(p)' \/ (current_hk'[p] = Pair(round) /\ Counted(p)')
<1>1. /\ i \in DOMAIN Ssms /\ round \in 1 .. MaxRounds
      /\ air \in Seq(Messages)
  BY DEF TypeOK
<1>2. /\ Answers(i) \in Seq(Messages) /\ DOMAIN Answers(i) = DOMAIN Ssms[i]
      /\ \A k \in DOMAIN Ssms[i] : Answers(i)[k] = [name |-> Ssms[i][k], value |-> round]
  BY <1>1, AnswersFull
<1>3. /\ \A k \in DOMAIN air : k \in DOMAIN air' /\ air'[k] = air[k]
      /\ \A k \in DOMAIN Answers(i) : /\ Len(air) + k \in DOMAIN air'
                                      /\ air'[Len(air) + k] = Answers(i)[k]
  <2>1. /\ DOMAIN air = 1 .. Len(air) /\ Len(air) \in Nat
        /\ DOMAIN Answers(i) = 1 .. Len(Answers(i)) /\ Len(Answers(i)) \in Nat
        /\ air' \in Seq(Messages) /\ Len(air') = Len(air) + Len(Answers(i))
        /\ \A k \in 1 .. Len(air) + Len(Answers(i)) :
             air'[k] = IF k <= Len(air) THEN air[k] ELSE Answers(i)[k - Len(air)]
    BY <1>1, <1>2, ConcatProperties
  <2>2. DOMAIN air' = 1 .. Len(air) + Len(Answers(i))
    BY <2>1
  <2>3. \A k \in DOMAIN air : k \in DOMAIN air' /\ air'[k] = air[k]
    BY <2>1, <2>2
  <2>4. ASSUME NEW k \in DOMAIN Answers(i)
        PROVE  Len(air) + k \in DOMAIN air' /\ air'[Len(air) + k] = Answers(i)[k]
    <3>1. /\ Len(air) + k \in 1 .. Len(air) + Len(Answers(i)) /\ ~(Len(air) + k <= Len(air))
          /\ (Len(air) + k) - Len(air) = k
      BY <2>1
    <3> QED BY <2>1, <2>2, <3>1
  <2> QED BY <2>3, <2>4
<1>4. CASE p \in Before(i)
  <2>1. p \in Asked
    BY <1>4 DEF Asked
  <2>2. CASE UnderWay(p)
    BY <1>3, <2>2 DEF UnderWay
  <2>3. CASE current_hk[p] = Pair(round) /\ (Counted(p) \/ Marked(p))
    BY <2>3 DEF Marked, Counted
  <2> QED BY <2>1, <2>2, <2>3 DEF FreshInv
<1>5. CASE \E k \in DOMAIN Ssms[i] : Ssms[i][k] = p
  <2>1. PICK k \in DOMAIN Ssms[i] : Ssms[i][k] = p
    BY <1>5
  <2>2. /\ Len(air) + k \in DOMAIN air'
        /\ air'[Len(air) + k] = [name |-> p, value |-> round']
    BY <1>2, <1>3, <2>1
  <2>3. \E l \in DOMAIN air' : air'[l] = [name |-> p, value |-> round']
    BY <2>2
  <2> QED BY <2>3 DEF UnderWay
<1> QED BY <1>1, <1>4, <1>5, BeforeNext

(* read_can_hk marks what it counts.                                         *)
LEMMA FreshByCollect ==
  ASSUME TypeOK, FreshInv, Undisturbed, Collect, NEW p \in Sent
  PROVE  UnderWay(p)' \/ (current_hk'[p] = Pair(round) /\ (Counted(p)' \/ Marked(p)'))
<1>1. /\ pc = "collect" /\ pc' \notin {"ask", "reset"} /\ air' = air /\ round' = round
      /\ current_hk' = current_hk /\ can_hk_fifo # <<>> /\ can_hk_fifo' = Tail(can_hk_fifo)
      /\ hk_updated' = [hk_updated EXCEPT ![Head(can_hk_fifo).name] = 1]
      /\ can_hk_fifo \in Seq(Messages) /\ p \in Params
  BY DEF Collect, Collected, TypeOK, Sent
<1>2. /\ Head(can_hk_fifo) = can_hk_fifo[1]
      /\ \A k \in DOMAIN can_hk_fifo :
           k # 1 => k - 1 \in DOMAIN can_hk_fifo' /\ can_hk_fifo'[k - 1] = can_hk_fifo[k]
  BY <1>1, TailOf
<1>3. p \in Asked
  BY <1>1 DEF Asked
<1>4. CASE UnderWay(p)
  BY <1>1, <1>4 DEF UnderWay
<1>5. CASE current_hk[p] = Pair(round) /\ Counted(p)
  <2>1. PICK k \in DOMAIN can_hk_fifo : can_hk_fifo[k].name = p
    BY <1>5 DEF Counted
  <2>2. CASE k = 1
    <3>1. hk_updated'[p] = 1
      BY <1>1, <1>2, <2>1, <2>2 DEF TypeOK
    <3> QED BY <1>1, <1>5, <3>1 DEF Marked
  <2>3. CASE k # 1
    <3>1. k - 1 \in DOMAIN can_hk_fifo' /\ can_hk_fifo'[k - 1].name = p
      BY <1>2, <2>1, <2>3
    <3>2. Counted(p)'
      BY <3>1 DEF Counted
    <3> QED BY <1>1, <1>5, <3>2
  <2> QED BY <2>2, <2>3
<1>6. CASE current_hk[p] = Pair(round) /\ Marked(p)
  <2>1. hk_updated'[p] = 1
    BY <1>1, <1>6 DEF Marked, TypeOK
  <2> QED BY <1>1, <1>6, <2>1 DEF Marked
<1> QED BY <1>3, <1>4, <1>5, <1>6 DEF FreshInv

(* Every step keeps the answers of an undisturbed round fresh.                *)
LEMMA FreshNext ==
  ASSUME TypeOK, TypeOK', AgeInv, CountInv, FreshInv, [Next]_vars
  PROVE  FreshInv'
<1> DEFINE Fresh(p) == \/ UnderWay(p)
                       \/ current_hk[p] = Pair(round) /\ (Counted(p) \/ Marked(p))
           Gap == pc \in {"missing", "storeLow", "storeHigh"} => i \notin Sent
<1> SUFFICES ASSUME Undisturbed'
             PROVE  (\A p \in Asked : Fresh(p))' /\ Gap'
  BY DEF FreshInv
<1>1. Undisturbed /\ ~MessageLost
  BY StaysUndisturbed
<1>2. \A p \in Asked : Fresh(p)
  BY <1>1 DEF FreshInv
<1>3. Gap
  BY <1>1 DEF FreshInv
<1>4. \A p \in Sent : p \in Params
  BY DEF Sent
<1>5. ASSUME Asked' \subseteq Asked, UNCHANGED <<air, current_hk, can_hk_fifo, round>>,
             \A p \in Asked' : Marked(p) => Marked(p)'
      PROVE  (\A p \in Asked : Fresh(p))'
  <2>1. \A p : UnderWay(p)' = UnderWay(p) /\ Counted(p)' = Counted(p) /\ Pair(round)' = Pair(round)
    BY <1>5 DEF UnderWay, Counted, Pair
  <2> QED BY <1>2, <1>5, <2>1
<1>6. CASE UNCHANGED vars
  <2>1. UNCHANGED <<air, current_hk, can_hk_fifo, round, pc, i, hk_updated>>
    BY <1>6 DEF vars
  <2>2. Asked' \subseteq Asked /\ \A p : Marked(p)' = Marked(p)
    BY <2>1 DEF Asked, Before, Marked
  <2> QED BY <1>3, <1>5, <2>1, <2>2
<1>7. CASE StoreCanMsg
  <2>1. pc' = pc /\ i' = i /\ Pair(round)' = Pair(round)
    BY <1>7 DEF StoreCanMsg, Pair
  <2>2. Asked' = Asked
    BY <2>1 DEF Asked, Before
  <2>3. \A p \in Asked : UnderWay(p)' \/ (current_hk'[p] = Pair(round) /\ (Counted(p)' \/ Marked(p)'))
    BY <1>1, <1>7, FreshByInterrupt
  <2>4. (\A p \in Asked : Fresh(p))'
    BY <2>1, <2>2, <2>3
  <2> QED BY <1>3, <2>1, <2>4
<1>8. CASE StartRound
  <2>1. pc' = "ask" /\ i' = 1
    BY <1>8 DEF StartRound
  <2>2. Asked' = {}
    BY <2>1, NoneBefore DEF Asked, Before
  <2> QED BY <2>1, <2>2
<1>9. CASE RequestHousekeeping
  <2>1. /\ pc = "ask" /\ air' = air \o Answers(i)
        /\ IF i = Len(Ssms) THEN AllAsked ELSE i' = i + 1 /\ pc' = pc
        /\ UNCHANGED <<current_hk, can_hk_fifo, hk_updated, round>>
        /\ i \in DOMAIN Ssms
    BY <1>9, StaysUndisturbed DEF RequestHousekeeping, TypeOK
  <2>2. Asked' = Before(i + 1)
    <3>1. CASE i = Len(Ssms)
      <4>1. Asked' = Sent
        BY <2>1, <3>1 DEF AllAsked, Asked, Sent
      <4> QED BY <2>1, <3>1, <4>1, AllBefore
    <3>2. CASE i # Len(Ssms)
      BY <2>1, <3>2 DEF Asked, Before
    <3> QED BY <3>1, <3>2
  <2>3. \A p \in Before(i + 1) : UnderWay(p)' \/ (current_hk'[p] = Pair(round) /\ Counted(p)')
    BY <1>1, <2>1, FreshByRequest
  <2>4. Pair(round)' = Pair(round)
    BY <2>1 DEF Pair
  <2>5. pc' \in {"ask", "reset"}
    BY <2>1 DEF AllAsked
  <2> QED BY <2>2, <2>3, <2>4, <2>5
<1>10. CASE ResetUpdated
  <2>1. /\ pc = "reset" /\ pc' \in {"reset", "collect"}
        /\ UNCHANGED <<air, current_hk, can_hk_fifo, round>>
    BY <1>10 DEF ResetUpdated
  <2>2. Asked' = Asked /\ \A p : ~Marked(p)
    BY <2>1 DEF Asked, Marked, Sent
  <2> QED BY <1>5, <2>1, <2>2
<1>11. CASE Collect
  <2>1. pc' \in {"collect", "check"} /\ round' = round
    BY <1>11 DEF Collect, Collected
  <2>2. Asked' = Sent /\ Pair(round)' = Pair(round)
    BY <2>1 DEF Asked, Sent, Pair
  <2>3. \A p \in Sent : UnderWay(p)' \/ (current_hk'[p] = Pair(round) /\ (Counted(p)' \/ Marked(p)'))
    BY <1>1, <1>11, FreshByCollect
  <2> QED BY <2>1, <2>2, <2>3
<1>12. CASE CollectTimeout
  <2>1. /\ pc = "collect" /\ pc' = "check"
        /\ UNCHANGED <<air, current_hk, can_hk_fifo, round, hk_updated>>
    BY <1>12 DEF CollectTimeout
  <2>2. Asked' = Asked /\ \A p : Marked(p) => Marked(p)'
    BY <2>1 DEF Asked, Marked, Sent
  <2> QED BY <1>5, <2>1, <2>2
<1>13. CASE CheckUpdated
  <2>1. /\ pc = "check" /\ pc' \in {"check", "missing", "copyLow"}
        /\ UNCHANGED <<air, current_hk, can_hk_fifo, round, hk_updated>>
        /\ pc' = "missing" => hk_updated[i] # 1 /\ i' = i
    BY <1>13 DEF CheckUpdated, NextParam
  <2>2. Asked' = Asked /\ \A p : Marked(p) => Marked(p)'
    BY <2>1 DEF Asked, Marked, Sent
  <2>3. \A p \in Sent : hk_updated[p] = 1
    BY <1>1, <2>1, AllStored
  <2>4. Gap'
    BY <2>1, <2>3 DEF Sent
  <2> QED BY <1>5, <2>1, <2>2, <2>4
<1>14. CASE RequestMissing
  <2>1. /\ pc = "missing" /\ pc' \in {"check", "storeLow", "copyLow"}
        /\ UNCHANGED <<air, current_hk, can_hk_fifo, round, hk_updated>>
        /\ pc' = "storeLow" => i' = i
    BY <1>14 DEF RequestMissing, NextParam
  <2>2. Asked' = Asked /\ \A p : Marked(p) => Marked(p)'
    BY <2>1 DEF Asked, Marked, Sent
  <2>3. Gap'
    BY <1>3, <2>1 DEF Sent
  <2> QED BY <1>5, <2>1, <2>2, <2>3
<1>15. CASE StoreLow \/ StoreHigh
  <2>1. /\ pc \in {"storeLow", "storeHigh"} /\ pc' \in {"storeHigh", "check", "copyLow"}
        /\ UNCHANGED <<air, can_hk_fifo, round>>
        /\ pc' = "storeHigh" => i' = i
        /\ \A p \in Params : p # i => current_hk'[p] = current_hk[p]
        /\ \A p \in Params : hk_updated[p] = 1 => hk_updated'[p] = 1
    BY <1>15 DEF StoreLow, StoreHigh, NextParam, TypeOK
  <2>2. Asked' = Asked /\ Asked = Sent
    BY <2>1 DEF Asked, Sent
  <2>3. Gap'
    BY <1>3, <2>1 DEF Sent
  <2>4. \A p \in Sent : current_hk'[p] = current_hk[p] /\ (Marked(p) => Marked(p)')
    BY <1>3, <1>4, <2>1 DEF Marked
  <2>5. \A p : UnderWay(p)' = UnderWay(p) /\ Counted(p)' = Counted(p) /\ Pair(round)' = Pair(round)
    BY <2>1 DEF UnderWay, Counted, Pair
  <2>6. (\A p \in Asked : Fresh(p))'
    BY <1>2, <2>2, <2>4, <2>5
  <2> QED BY <2>3, <2>6
<1>16. CASE CopyLow \/ CopyHigh
  <2>1. /\ pc \in {"copyLow", "copyHigh"} /\ pc' \in {"copyLow", "copyHigh", "send"}
        /\ UNCHANGED <<air, current_hk, can_hk_fifo, round, hk_updated>>
    BY <1>16 DEF CopyLow, CopyHigh
  <2>2. Asked' = Asked /\ \A p : Marked(p) => Marked(p)'
    BY <2>1 DEF Asked, Marked, Sent
  <2> QED BY <1>5, <2>1, <2>2
<1>17. CASE SendHkAsTm
  <2>1. pc' = "idle"
    BY <1>17 DEF SendHkAsTm
  <2>2. Asked' = {}
    BY <2>1 DEF Asked
  <2> QED BY <2>1, <2>2
<1> QED BY <1>1, <1>6, <1>7, <1>8, <1>9, <1>10, <1>11, <1>12, <1>13, <1>14, <1>15, <1>16,
           <1>17 DEF Next, Task

(* The copy takes the values of this round, byte by byte.                     *)
LEMMA CopiedNext ==
  ASSUME TypeOK, TypeOK', CountInv, FreshInv, CopiedInv, [Next]_vars
  PROVE  CopiedInv'
<1> DEFINE Copied == pc \in {"copyLow", "copyHigh"} => \A p \in Sent : p < i => report[p] = Pair(round)
           Half == pc = "copyHigh" /\ i \in Sent => report[i].low = round
           Whole == pc = "send" => \A p \in Sent : report[p] = Pair(round)
<1> SUFFICES ASSUME Undisturbed' PROVE Copied' /\ Half' /\ Whole'
  BY DEF CopiedInv
<1> USE Definition
<1>1. Undisturbed
  BY StaysUndisturbed
<1>2. Copied /\ Half /\ Whole
  BY <1>1 DEF CopiedInv
<1>3. \A p \in Sent : p \in Params /\ p \in Nat /\ p >= 1 /\ p <= N
  BY DEF Sent, Params
<1>4. CASE UNCHANGED <<pc, i, report, round>>
  BY <1>2, <1>4 DEF Sent, Pair
<1>5. CASE pc' \notin {"copyLow", "copyHigh", "send"}
  BY <1>5
<1>6. CASE pc' = "copyLow" /\ i' = 1
  <2>1. \A p \in Sent : ~(p < i')
    BY <1>3, <1>6
  <2>2. \A p \in Sent' : ~(p < i')
    BY <2>1 DEF Sent
  <2> QED BY <1>6, <2>2
<1>7. CASE CopyLow
  <2>1. /\ pc = "copyLow" /\ pc' = "copyHigh" /\ i' = i /\ round' = round
        /\ i \in Params /\ i \in Nat
        /\ report' = [report EXCEPT ![i].low = current_hk[i].low]
    <3>1. pc = "copyLow" /\ i \in Params
      BY <1>7 DEF CopyLow, TypeOK
    <3>2. i \in Nat
      BY <3>1 DEF Params
    <3> QED BY <1>7, <3>1, <3>2 DEF CopyLow
  <2>2. \A p \in Params : p # i => report'[p] = report[p]
    BY <2>1 DEF TypeOK
  <2>3. report'[i].low = current_hk[i].low
    BY <2>1 DEF TypeOK
  <2>4. i \in Sent => current_hk[i].low = round
    BY <1>1, <2>1, AllStored DEF Pair
  <2>5. Copied'
    <3>1. \A p \in Sent : p < i => p # i /\ report[p] = Pair(round)
      BY <1>2, <1>3, <2>1
    <3> QED BY <1>3, <2>1, <2>2, <3>1 DEF Sent, Pair
  <2> QED BY <2>1, <2>3, <2>4, <2>5 DEF Sent
<1>8. CASE CopyHigh
  <2>1. /\ pc = "copyHigh" /\ round' = round
        /\ i \in Params /\ i \in Nat /\ i >= 1 /\ i <= N
        /\ report' = [report EXCEPT ![i].high = current_hk[i].high]
        /\ \/ i < N /\ i' = i + 1 /\ pc' = "copyLow"
           \/ ~(i < N) /\ pc' = "send"
    <3>1. pc = "copyHigh" /\ i \in Params
      BY <1>8 DEF CopyHigh, TypeOK
    <3>2. i \in Nat /\ i >= 1 /\ i <= N
      BY <3>1 DEF Params
    <3> QED BY <1>8, <3>1, <3>2 DEF CopyHigh
  <2>2. \A p \in Params : p # i => report'[p] = report[p]
    BY <2>1 DEF TypeOK
  <2>3. /\ report'[i].high = current_hk[i].high /\ report'[i].low = report[i].low
        /\ report'[i] \in [low : Bytes, high : Bytes]
    BY <2>1 DEF TypeOK
  <2>4. i \in Sent => report'[i] = Pair(round)
    <3> SUFFICES ASSUME i \in Sent PROVE report'[i] = Pair(round)
      OBVIOUS
    <3>1. current_hk[i].high = round /\ report[i].low = round
      BY <1>1, <1>2, <2>1, AllStored DEF Pair
    <3> QED BY <2>3, <3>1 DEF Pair
  <2>5. \A p \in Sent : p < i + 1 => report'[p] = Pair(round)
    <3> SUFFICES ASSUME NEW p \in Sent, p < i + 1 PROVE report'[p] = Pair(round)
      OBVIOUS
    <3>1. CASE p = i
      BY <2>4, <3>1
    <3>2. CASE p # i
      <4>1. p < i
        BY <1>3, <2>1, <3>2
      <4> QED BY <1>2, <1>3, <2>1, <2>2, <3>2, <4>1
    <3> QED BY <3>1, <3>2
  <2>6. Pair(round)' = Pair(round) /\ Sent' = Sent
    BY <2>1 DEF Pair, Sent
  <2>7. CASE i < N /\ i' = i + 1 /\ pc' = "copyLow"
    BY <2>5, <2>6, <2>7
  <2>8. CASE ~(i < N) /\ pc' = "send"
    <3>1. \A p \in Sent : p < i + 1
      BY <1>3, <2>1, <2>8
    <3> QED BY <2>5, <2>6, <2>8, <3>1
  <2> QED BY <2>1, <2>7, <2>8
<1>9. CASE CheckUpdated \/ RequestMissing \/ StoreHigh
  <2>1. pc' \notin {"copyLow", "copyHigh", "send"} \/ (pc' = "copyLow" /\ i' = 1)
    BY <1>9 DEF CheckUpdated, RequestMissing, StoreHigh, NextParam
  <2> QED BY <1>5, <1>6, <2>1
<1>10. CASE \/ StartRound \/ RequestHousekeeping \/ ResetUpdated \/ Collect \/ CollectTimeout
            \/ StoreLow \/ SendHkAsTm
  <2>1. pc' \notin {"copyLow", "copyHigh", "send"}
    BY <1>10 DEF StartRound, RequestHousekeeping, AllAsked, ResetUpdated, Collect, Collected,
                 CollectTimeout, StoreLow, SendHkAsTm
  <2> QED BY <1>5, <2>1
<1>11. CASE StoreCanMsg \/ MessageLost \/ UNCHANGED vars
  <2>1. UNCHANGED <<pc, i, report, round>>
    BY <1>11 DEF StoreCanMsg, MessageLost, vars
  <2> QED BY <1>4, <2>1
<1> QED BY <1>7, <1>8, <1>9, <1>10, <1>11 DEF Next, Task

-----------------------------------------------------------------------------
(* The inductive invariant holds at the start.                                *)
LEMMA InvInit == Init => Inv
<1> SUFFICES ASSUME Init PROVE Inv
  OBVIOUS
<1>1. TypeOK
  BY TypeInit
<1>2. DOMAIN air = {} /\ Backlog = 0 /\ round = 0 /\ pc = "idle"
  BY DEF Init, Backlog
<1>3. \A p \in Params : current_hk[p] = Pair(0)
  BY DEF Init, Never
<1>4. AgeInv
  <2>1. \A p \in Params : current_hk[p].low <= round /\ current_hk[p].high <= round
    BY <1>2, <1>3 DEF Pair
  <2> QED BY <1>2, <2>1 DEF AgeInv
<1>5. CountInv
  BY <1>2 DEF CountInv, Init, Leftover
<1>6. FreshInv /\ CopiedInv
  BY <1>2 DEF FreshInv, CopiedInv, Asked
<1> QED BY <1>1, <1>4, <1>5, <1>6 DEF Inv

(* Every step keeps the inductive invariant.                                  *)
LEMMA InvNext == Inv /\ [Next]_vars => Inv'
<1> SUFFICES ASSUME Inv, [Next]_vars PROVE Inv'
  OBVIOUS
<1>1. TypeOK'
  BY TypeNext DEF Inv
<1>2. AgeInv' /\ CountInv'
  BY <1>1, AgeNext, CountNext DEF Inv
<1>3. FreshInv' /\ CopiedInv'
  BY <1>1, FreshNext, CopiedNext DEF Inv
<1> QED BY <1>1, <1>2, <1>3 DEF Inv

(* The whole inductive invariant, for any constants.                          *)
THEOREM AlwaysInv == Spec => []Inv
BY InvInit, InvNext, PTL DEF Spec

(* The queue and the counters of a round keep their bounds, and in an          *)
(* undisturbed run a report has both bytes of the values of its own round.     *)
THEOREM HousekeepingInvariant == Spec => []HousekeepingInv
<1>1. ASSUME Inv
      PROVE  HousekeepingInv
  <2> SUFFICES ASSUME pc = "send", losses = 0, lates = 0, NEW p \in Sent
               PROVE  report[p] = Pair(round)
    BY <1>1 DEF Inv, HousekeepingInv, ReportsThisRound
  <2> QED BY <1>1 DEF Inv, CopiedInv, Undisturbed
<1> QED BY <1>1, AlwaysInv, PTL

(* A round whose wait is long enough leaves a message less than it found.      *)
THEOREM LeftoversShrink == Spec => []BacklogShrinks
<1>1. Inv => BacklogShrinks
  BY DEF Inv, CountInv, Leftover, BacklogShrinks
<1> QED BY <1>1, AlwaysInv, PTL

(* No value in current_hk is replaced by an older one.                        *)
THEOREM NoOlderValue == Spec => NeverOlder
<1>1. Inv /\ [Next]_vars =>
        [\A p \in Params : \A b \in {"low", "high"} :
           current_hk[p][b] > 0 /\ current_hk'[p][b] > 0
             => current_hk[p][b] <= current_hk'[p][b]]_vars
  <2> SUFFICES ASSUME Inv, Next, NEW p \in Params
               PROVE  \A b \in {"low", "high"} :
                        current_hk[p][b] > 0 /\ current_hk'[p][b] > 0
                          => current_hk[p][b] <= current_hk'[p][b]
    OBVIOUS
  <2>1. TypeOK /\ AgeInv
    BY DEF Inv
  <2>2. /\ current_hk[p].low \in Int /\ current_hk[p].high \in Int
        /\ current_hk[p]["low"] = current_hk[p].low /\ current_hk[p]["high"] = current_hk[p].high
        /\ current_hk'[p]["low"] = current_hk'[p].low
        /\ current_hk'[p]["high"] = current_hk'[p].high
    BY <2>1, StoredNumbers DEF TypeOK
  <2>3. CASE current_hk'[p] = current_hk[p]
    BY <2>2, <2>3
  <2>4. CASE StoreCanMsg
    <3>1. air \in Seq(Messages) /\ air # <<>>
      BY <2>1, <2>4 DEF StoreCanMsg, TypeOK
    <3>2. 1 \in DOMAIN air /\ Head(air) = air[1]
      BY <3>1, TailOf
    <3>3. current_hk'[p] = current_hk[p] \/ current_hk'[p] = Pair(air[1].value)
      BY <2>1, <2>4, <3>2 DEF StoreCanMsg, TypeOK
    <3>4. current_hk[p].low <= air[1].value /\ current_hk[p].high <= air[1].value
      BY <2>1, <3>2 DEF AgeInv
    <3>5. CASE current_hk'[p] = Pair(air[1].value)
      BY <2>2, <3>4, <3>5 DEF Pair
    <3> QED BY <2>3, <3>3, <3>5
  <2>5. CASE Task
    <3>1. /\ current_hk'[p].low = current_hk[p].low \/ current_hk'[p].low < 0
          /\ current_hk'[p].high = current_hk[p].high \/ current_hk'[p].high < 0
      BY <2>1, <2>5, TaskStores
    <3>2. current_hk'[p].low \in Int /\ current_hk'[p].high \in Int
      <4>1. TypeOK'
        BY <2>1, TypeNext
      <4> QED BY <4>1, StoredNumbers DEF TypeOK
    <3> QED BY <2>2, <3>1, <3>2
  <2>6. CASE MessageLost
    BY <2>3, <2>6 DEF MessageLost
  <2> QED BY <2>4, <2>5, <2>6 DEF Next
<1> QED BY <1>1, AlwaysInv, PTL DEF Spec, NeverOlder
=============================================================================

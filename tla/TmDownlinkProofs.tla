-------------------------- MODULE TmDownlinkProofs --------------------------
(***************************************************************************)
(* Proofs about TmDownlink, for every number of chunks, every length of     *)
(* tm_buffer and any number of faults: no packet is lost on board, what is  *)
(* retired was received whole, and the downlink implements TmService.       *)
(***************************************************************************)
EXTENDS TmDownlink, SequenceTheorems, TLAPS

-----------------------------------------------------------------------------
(* The inductive invariant.                                                  *)

Carried(a) == \E k \in DOMAIN air : air[k] = a
Received(n) == \E k \in DOMAIN received : received[k] = n

(* An "ok" that the router may still take for the answer to its transfer.    *)
OkUnderWay == tm_transfer_completef = "ok" \/ Carried("ok")

(* COMS has kept a chunk of another packet than the one in hand.             *)
StaleParts == \E k \in DOMAIN coms.parts : coms.parts[k] # tm_to_downlink

(* Between the end of a packet and the choice of the next one all answers    *)
(* have come in: this is what the sleep of 3000 ticks is good for.           *)
QuietBetween ==
  tm_down_fullf = 0 =>
    \/ /\ pc \in {"receive", "serve", "exec"}
       /\ air = <<>> /\ tm_transfer_completef = "none"
    \/ pc = "settle" /\ (tm_transfer_completef = "none" => air = <<>>)

(* So an "ok" is about the packet in hand, of this transfer or an earlier one. *)
OkIsOfHand == tm_down_fullf = 1 /\ OkUnderWay => Received(tm_to_downlink)

(* And the router sends its first chunk only after COMS has let go of what it *)
(* kept of another packet.                                                    *)
StaleKeptSilent ==
  tm_down_fullf = 1 /\ StaleParts =>
    /\ ~Carried("start")
    /\ pc # "send"
    /\ pc = "ask" => start_tm_transferf = 0

(* COMS has never received a packet put together from two.                    *)
WholeReceived == received \in Seq(Requests)

(* Packets are numbered in the order of their requests.                       *)
NumbersUsed ==
  /\ tm_down_fullf = 1 => tm_to_downlink \in 1 .. requests
  /\ \A k \in DOMAIN tm_buffer : tm_buffer[k] <= requests
  /\ \A k \in DOMAIN received : received[k] <= requests

HeldIsStored == current_tm_fullf = 1 => stored # <<>>

LinkInv == QuietBetween /\ OkIsOfHand /\ StaleKeptSilent /\ WholeReceived
BoardInv == NumbersUsed /\ HeldIsStored /\ NothingLostOnBoard
Inv == TypeOK /\ LinkInv /\ SentWasReceived /\ BoardInv

-----------------------------------------------------------------------------
(* What the queue of answers does.                                           *)

(* An answer that was taken leaves the others on the air.                     *)
LEMMA TailOfAnswers ==
  ASSUME TypeOK, air # <<>>, air' = Tail(air)
  PROVE  /\ air' \in Seq(Answers) /\ Len(air') <= MaxAir
         /\ Head(air) \in Answers /\ Carried(Head(air))
         /\ \A a : Carried(a)' => Carried(a)
<1>1. air \in Seq(Answers) /\ Len(air) <= MaxAir /\ MaxAir \in Nat
  BY ConstantsOK DEF TypeOK
<1>2. /\ air' \in Seq(Answers) /\ Len(air') = Len(air) - 1
      /\ \A k \in 1 .. Len(air') : air'[k] = air[k + 1]
      /\ Head(air) = air[1] /\ 1 \in DOMAIN air
  BY <1>1
<1> QED BY <1>1, <1>2 DEF Carried

(* An answer that is sent is the only new one on the air.                     *)
LEMMA AnswerQueued ==
  ASSUME TypeOK, NEW a \in Answers, Answer(a)
  PROVE  /\ air' \in Seq(Answers) /\ Len(air') <= MaxAir
         /\ \A b : Carried(b)' => Carried(b) \/ b = a
<1>1. air \in Seq(Answers) /\ Len(air) <= MaxAir /\ MaxAir \in Nat
  BY ConstantsOK DEF TypeOK
<1>2. CASE Len(air) < MaxAir
  <2>1. /\ air' \in Seq(Answers) /\ Len(air') = Len(air) + 1
        /\ \A k \in 1 .. Len(air) : air'[k] = air[k]
        /\ air'[Len(air) + 1] = a
    BY <1>1, <1>2 DEF Answer
  <2> QED BY <1>1, <1>2, <2>1 DEF Carried
<1>3. CASE ~(Len(air) < MaxAir)
  BY <1>1, <1>3 DEF Answer, Carried
<1> QED BY <1>2, <1>3

-----------------------------------------------------------------------------
(* COMS.                                                                     *)

(* COMS takes the request and forgets what it kept.                           *)
LEMMA ReadyTaken ==
  ASSUME TypeOK, TakeReady
  PROVE  /\ coms' \in [state : {"idle", "listening"}, parts : Seq(Requests)]
         /\ coms'.parts = <<>>
         /\ air' \in Seq(Answers) /\ Len(air') <= MaxAir
         /\ \A b : Carried(b)' => Carried(b) \/ b = "start"
         /\ received' = received
BY AnswerQueued DEF TakeReady, Answers

(* A chunk of packet p is put to the others, or ends the transfer; with all   *)
(* parts from p the last one completes p.                                     *)
LEMMA ChunkTaken ==
  ASSUME TypeOK, NEW k \in 0 .. Chunks - 1, NEW p \in Requests, TakeChunk(k, p)
  PROVE  /\ coms' \in [state : {"idle", "listening"}, parts : Seq(Requests)]
         /\ Len(coms'.parts) < Chunks
         /\ coms'.parts \in {<<>>, coms.parts, Append(coms.parts, p)}
         /\ air' \in Seq(Answers) /\ Len(air') <= MaxAir
         /\ \A b : Carried(b)' => Carried(b) \/ b \in {"ok", "failed"}
         /\ \/ received' = received /\ \A b : Carried(b)' => Carried(b) \/ b = "failed"
            \/ received' = Append(received, WholePacket(Append(coms.parts, p)))
<1> DEFINE parts == Append(coms.parts, p)
<1>1. /\ coms.parts \in Seq(Requests) /\ parts \in Seq(Requests)
      /\ Chunks \in Nat \ {0} /\ <<>> \in Seq(Requests)
      /\ coms.state \in {"idle", "listening"} /\ Len(coms.parts) < Chunks
      /\ air \in Seq(Answers) /\ Len(air) <= MaxAir
      /\ coms \in [state : {"idle", "listening"}, parts : Seq(Requests)]
  BY ConstantsOK DEF TypeOK
<1>2. CASE coms.state = "idle"
  <2>1. UNCHANGED <<coms, air, received>>
    BY <1>2 DEF TakeChunk, link
  <2> QED BY <1>1, <2>1 DEF Carried
<1>3. CASE coms.state # "idle" /\ k # Len(coms.parts)
  <2>1. /\ coms' = [state |-> "idle", parts |-> <<>>]
        /\ Answer("failed") /\ received' = received
    BY <1>3 DEF TakeChunk
  <2>2. /\ air' \in Seq(Answers) /\ Len(air') <= MaxAir
        /\ \A b : Carried(b)' => Carried(b) \/ b = "failed"
    BY <2>1, AnswerQueued DEF Answers
  <2> QED BY <1>1, <2>1, <2>2
<1>4. CASE coms.state # "idle" /\ k = Len(coms.parts) /\ Len(parts) < Chunks
  <2>1. coms' = [coms EXCEPT !.parts = parts] /\ UNCHANGED <<air, received>>
    BY <1>4 DEF TakeChunk
  <2>2. /\ coms' \in [state : {"idle", "listening"}, parts : Seq(Requests)]
        /\ coms'.parts = parts
    BY <1>1, <2>1
  <2> QED BY <1>1, <1>4, <2>1, <2>2 DEF Carried
<1>5. CASE coms.state # "idle" /\ k = Len(coms.parts) /\ ~(Len(parts) < Chunks)
  <2>1. /\ coms' = [state |-> "idle", parts |-> <<>>]
        /\ Answer("ok") /\ received' = Append(received, WholePacket(parts))
    BY <1>5 DEF TakeChunk
  <2>2. /\ air' \in Seq(Answers) /\ Len(air') <= MaxAir
        /\ \A b : Carried(b)' => Carried(b) \/ b = "ok"
    BY <2>1, AnswerQueued DEF Answers
  <2> QED BY <1>1, <2>1, <2>2
<1> QED BY <1>2, <1>3, <1>4, <1>5

(* TM_PACKET_READY is taken or lost.                                         *)
LEMMA ReadySent ==
  ASSUME TypeOK, SendReady
  PROVE  /\ coms' \in [state : {"idle", "listening"}, parts : Seq(Requests)]
         /\ Len(coms'.parts) < Chunks
         /\ air' \in Seq(Answers) /\ Len(air') <= MaxAir
         /\ received' = received
         /\ faults' \in 0 .. MaxFaults
         /\ \/ coms'.parts = <<>> /\ \A b : Carried(b)' => Carried(b) \/ b = "start"
            \/ coms' = coms /\ air' = air
<1>1. CASE NoFault /\ TakeReady
  BY <1>1, ReadyTaken, ConstantsOK DEF NoFault, TypeOK
<1>2. CASE Fault /\ UNCHANGED link
  BY <1>2, ConstantsOK DEF Fault, link, TypeOK
<1> QED BY <1>1, <1>2 DEF SendReady

(* Giving up on an answer stays within the bound on faults.                   *)
LEMMA GivenUp ==
  ASSUME TypeOK, NEW S, GiveUpOn(S)
  PROVE  faults' \in 0 .. MaxFaults
BY ConstantsOK DEF TypeOK, GiveUpOn, Fault, NoFault

(* A chunk that is sent while a packet is in hand is a chunk of it.           *)
LEMMA ChunkSent ==
  ASSUME TypeOK, SendChunk, tm_transfer_completef # "failed"
  PROVE  /\ tm_to_downlink \in Requests
         /\ i' \in 0 .. Chunks - 1 /\ pc' \in {"send", "wait"}
         /\ faults' \in 0 .. MaxFaults
         /\ UNCHANGED <<receiving_tcf, buffers, hand, flags, sent>>
         /\ TakeChunk(i, tm_to_downlink) \/ UNCHANGED link
<1>1. tm_down_fullf = 1 /\ tm_to_downlink \in Requests
  BY DEF SendChunk, TypeOK, Requests, NoPacket
<1>2. faults' \in 0 .. MaxFaults
  BY ConstantsOK DEF SendChunk, Fault, NoFault, TypeOK
<1>3. i \in 0 .. Chunks - 1 /\ Chunks \in Nat \ {0}
  BY ConstantsOK DEF TypeOK
<1>4. (i + 1) % Chunks \in 0 .. Chunks - 1
  BY <1>3
<1> QED BY <1>1, <1>2, <1>4 DEF SendChunk

-----------------------------------------------------------------------------
(* Type correctness.                                                         *)

(* The ranges hold at the start.                                              *)
LEMMA TypeInit == Init => TypeOK
BY ConstantsOK DEF Init, TypeOK, Requests, NoPacket

(* The state of the packets on board.                                        *)
BoardTypes ==
  /\ current_tm_fullf \in 0 .. 1
  /\ tm_buffer \in Seq(Requests) /\ Len(tm_buffer) <= TmBufferLength
  /\ requests \in 0 .. MaxRequests
  /\ stored \in Seq(Requests)

(* Making and picking packets keeps the ranges.                               *)
LEMMA BoardKept ==
  ASSUME TypeOK, PacketizeSendTelemetry \/ PickPacket
  PROVE  BoardTypes'
<1>1. /\ current_tm_fullf \in 0 .. 1 /\ requests \in 0 .. MaxRequests
      /\ tm_buffer \in Seq(Requests) /\ Len(tm_buffer) <= TmBufferLength
      /\ stored \in Seq(Requests) /\ TmBufferLength \in Nat /\ MaxRequests \in Nat
  BY ConstantsOK DEF TypeOK
<1>2. CASE PacketizeSendTelemetry
  <2>1. requests + 1 \in Requests /\ requests' = requests + 1
    BY <1>1, <1>2 DEF PacketizeSendTelemetry, Requests
  <2>2. requests' \in 0 .. MaxRequests
    BY <2>1 DEF Requests
  <2>3. Append(tm_buffer, requests + 1) \in Seq(Requests)
        /\ Len(Append(tm_buffer, requests + 1)) = Len(tm_buffer) + 1
        /\ Append(stored, requests + 1) \in Seq(Requests)
    BY <1>1, <2>1, AppendProperties
  <2>4. /\ \/ current_tm_fullf' = current_tm_fullf /\ tm_buffer' = tm_buffer
           \/ /\ Len(tm_buffer) < TmBufferLength /\ current_tm_fullf' = 0
              /\ tm_buffer' = Append(tm_buffer, requests + 1)
           \/ current_tm_fullf' = 1 /\ tm_buffer' = tm_buffer
        /\ stored' \in {stored, Append(stored, requests + 1)}
    BY <1>2 DEF PacketizeSendTelemetry, StoreCurrentTm
  <2>5. tm_buffer' \in Seq(Requests) /\ Len(tm_buffer') <= TmBufferLength
    <3>1. CASE tm_buffer' = tm_buffer
      BY <1>1, <3>1
    <3>2. CASE /\ Len(tm_buffer) < TmBufferLength
               /\ tm_buffer' = Append(tm_buffer, requests + 1)
      BY <1>1, <2>3, <3>2
    <3> QED BY <2>4, <3>1, <3>2
  <2>6. stored' \in Seq(Requests)
    BY <1>1, <2>3, <2>4
  <2> QED BY <1>1, <2>2, <2>4, <2>5, <2>6 DEF BoardTypes
<1>3. CASE PickPacket
  <2>1. \/ tm_buffer' = tm_buffer
        \/ tm_buffer # <<>> /\ tm_buffer' = Tail(tm_buffer)
    BY <1>3 DEF PickPacket, hand
  <2>2. tm_buffer' \in Seq(Requests) /\ Len(tm_buffer') <= Len(tm_buffer)
    BY <1>1, <2>1
  <2> QED BY <1>1, <1>3, <2>2 DEF PickPacket, BoardTypes
<1> QED BY <1>2, <1>3

(* Every step keeps the ranges.                                               *)
LEMMA TypeNext == TypeOK /\ [Next]_vars => TypeOK'
<1> SUFFICES ASSUME TypeOK, [Next]_vars PROVE TypeOK'
  OBVIOUS
<1> USE ConstantsOK
<1>1. CASE Deliver
  <2>1. air # <<>> /\ air' = Tail(air)
    BY <1>1 DEF Deliver
  <2>2. air' \in Seq(Answers) /\ Len(air') <= MaxAir /\ Head(air) \in Answers
    BY <2>1, TailOfAnswers
  <2> QED BY <1>1, <2>2 DEF Deliver, TypeOK, Answers, buffers, hand
<1>2. CASE LoseAnswer
  <2>1. air # <<>> /\ air' = Tail(air)
    BY <1>2 DEF LoseAnswer
  <2>2. air' \in Seq(Answers) /\ Len(air') <= MaxAir
    BY <2>1, TailOfAnswers
  <2>3. faults' \in 0 .. MaxFaults
    BY <1>2 DEF LoseAnswer, Fault, TypeOK
  <2> QED BY <1>2, <2>2, <2>3 DEF LoseAnswer, TypeOK, buffers, hand, flags
<1>3. CASE PacketizeSendTelemetry
  <2>1. BoardTypes'
    BY <1>3, BoardKept
  <2> QED BY <1>3, <2>1
          DEF PacketizeSendTelemetry, BoardTypes, TypeOK, hand, flags, link
<1>4. CASE PickPacket
  <2>1. BoardTypes'
    BY <1>4, BoardKept
  <2>2. tm_to_downlink' \in Requests /\ tm_down_fullf' = 1
    <3>1. tm_buffer # <<>> => Head(tm_buffer) \in Requests
      BY DEF TypeOK
    <3> QED BY <1>4, <3>1 DEF PickPacket, hand, TypeOK, Requests, NoPacket
  <2>3. UNCHANGED <<receiving_tcf, i, flags, link, faults, sent>> /\ pc' = "begin"
    BY <1>4 DEF PickPacket
  <2>4. tm_to_downlink' # NoPacket
    BY <2>2 DEF Requests, NoPacket
  <2> QED BY <2>1, <2>2, <2>3, <2>4 DEF BoardTypes, TypeOK, flags, link
<1>5. CASE NothingToSend
  BY <1>5 DEF NothingToSend, TypeOK, buffers, hand, flags, link
<1>6. CASE BeginTransfer
  BY <1>6, ReadySent DEF BeginTransfer, TypeOK, buffers, hand
<1>7. CASE AskAgain
  BY <1>7, ReadySent DEF AskAgain, TypeOK, buffers, hand, flags
<1>8. CASE AskTimeout
  BY <1>8, GivenUp DEF AskTimeout, TypeOK, buffers, hand, flags, link
<1>9. CASE StartSending
  BY <1>9 DEF StartSending, TypeOK, buffers, hand, link
<1>10. CASE SendChunk
  <2>1. CASE tm_transfer_completef = "failed"
    BY <1>10, <2>1 DEF SendChunk, NoFault, TypeOK, buffers, hand, flags, link
  <2>2. CASE tm_transfer_completef # "failed"
    <3>1. /\ tm_to_downlink \in Requests /\ i' \in 0 .. Chunks - 1
          /\ pc' \in {"send", "wait"} /\ faults' \in 0 .. MaxFaults
          /\ UNCHANGED <<receiving_tcf, buffers, hand, flags, sent>>
          /\ TakeChunk(i, tm_to_downlink) \/ UNCHANGED link
      BY <1>10, <2>2, ChunkSent
    <3>2. tm_down_fullf = 1
      BY <1>10 DEF SendChunk, TypeOK
    <3>3. CASE UNCHANGED link
      BY <3>1, <3>2, <3>3 DEF TypeOK, buffers, hand, flags, link
    <3>4. CASE TakeChunk(i, tm_to_downlink)
      <4>1. i \in 0 .. Chunks - 1
        BY DEF TypeOK
      <4>2. /\ coms' \in [state : {"idle", "listening"}, parts : Seq(Requests)]
            /\ Len(coms'.parts) < Chunks
            /\ air' \in Seq(Answers) /\ Len(air') <= MaxAir
            /\ received' \in {received,
                              Append(received,
                                     WholePacket(Append(coms.parts, tm_to_downlink)))}
        BY <3>1, <3>4, <4>1, ChunkTaken
      <4>3. received' \in Seq(Requests \cup {Garbled})
        <5>1. Append(coms.parts, tm_to_downlink) \in Seq(Requests)
              /\ Len(Append(coms.parts, tm_to_downlink)) = Len(coms.parts) + 1
          BY <3>1 DEF TypeOK
        <5>2. WholePacket(Append(coms.parts, tm_to_downlink))
                \in Requests \cup {Garbled}
          <6>1. Append(coms.parts, tm_to_downlink)[1] \in Requests
            BY <5>1 DEF TypeOK
          <6> QED BY <6>1 DEF WholePacket
        <5>3. received \in Seq(Requests \cup {Garbled})
          BY DEF TypeOK
        <5>4. Append(received, WholePacket(Append(coms.parts, tm_to_downlink)))
                \in Seq(Requests \cup {Garbled})
          BY <5>2, <5>3
        <5> QED BY <4>2, <5>3, <5>4
      <4> QED BY <3>1, <3>2, <4>2, <4>3 DEF TypeOK, buffers, hand, flags
    <3> QED BY <3>1, <3>3, <3>4
  <2> QED BY <2>1, <2>2
<1>11. CASE WaitForResponse
  BY <1>11 DEF WaitForResponse, TypeOK, buffers, hand, flags, link
<1>12. CASE WaitTimeout
  BY <1>12, GivenUp DEF WaitTimeout, TypeOK, buffers, hand, flags, link
<1>13. CASE CheckResponse
  <2>1. tm_to_downlink \in Requests
    BY <1>13 DEF CheckResponse, TypeOK, Requests, NoPacket
  <2>2. sent' \in Seq(Requests)
    <3>1. sent \in Seq(Requests) /\ Append(sent, tm_to_downlink) \in Seq(Requests)
      BY <2>1 DEF TypeOK
    <3> QED BY <1>13, <3>1 DEF CheckResponse
  <2> QED BY <1>13, <2>2 DEF CheckResponse, TypeOK, buffers, link
<1>14. CASE Settle
  BY <1>14 DEF Settle, TypeOK, buffers, hand, link
<1>15. CASE UNCHANGED vars
  BY <1>15 DEF vars, TypeOK, buffers, hand, flags, link
<1>16. CASE StartTcPacket \/ ReceiveTcMsg \/ ServeTurn \/ ExecDone
  <2>1. /\ UNCHANGED <<buffers, hand, i, flags, link, faults, sent>>
        /\ receiving_tcf' \in 0 .. 1
        /\ pc' \in {pc, "serve", "receive"}
    BY <1>16 DEF StartTcPacket, ReceiveTcMsg, ServeTurn, ExecDone, TypeOK
  <2> QED BY <2>1 DEF TypeOK, buffers, hand, flags, link
<1> QED BY <1>1, <1>2, <1>3, <1>4, <1>5, <1>6, <1>7, <1>8, <1>9, <1>10, <1>11,
           <1>12, <1>13, <1>14, <1>15, <1>16 DEF Next, Router

-----------------------------------------------------------------------------
(* The link.                                                                 *)

(* Nothing was sent or received at the start.                                 *)
LEMMA LinkInit == Init => LinkInv /\ SentWasReceived
BY DEF Init, LinkInv, QuietBetween, OkIsOfHand, StaleKeptSilent, WholeReceived,
       SentWasReceived

(* With all parts from packet p the last chunk of p completes p.              *)
LEMMA WholeIsHand ==
  ASSUME TypeOK, ~StaleParts, tm_to_downlink \in Requests
  PROVE  /\ WholePacket(Append(coms.parts, tm_to_downlink)) = tm_to_downlink
         /\ \A k \in DOMAIN Append(coms.parts, tm_to_downlink) :
              Append(coms.parts, tm_to_downlink)[k] = tm_to_downlink
<1> DEFINE parts == Append(coms.parts, tm_to_downlink)
<1>1. coms.parts \in Seq(Requests) /\ Len(coms.parts) \in Nat
  BY DEF TypeOK
<1>2. /\ parts \in Seq(Requests) /\ Len(parts) = Len(coms.parts) + 1
      /\ \A k \in 1 .. Len(coms.parts) : parts[k] = coms.parts[k]
      /\ parts[Len(coms.parts) + 1] = tm_to_downlink
  BY <1>1, AppendProperties
<1>3. \A k \in DOMAIN parts : parts[k] = tm_to_downlink
  BY <1>1, <1>2 DEF StaleParts
<1>4. 1 \in DOMAIN parts
  BY <1>1, <1>2
<1> HIDE DEF parts
<1>5. WholePacket(parts) = tm_to_downlink
  BY <1>3, <1>4 DEF WholePacket
<1> QED BY <1>3, <1>5 DEF parts

(* What is received stays received.                                          *)
LEMMA ReceivedGrows ==
  ASSUME NEW S, NEW s \in Seq(S), NEW p \in S
  PROVE  /\ Append(s, p) \in Seq(S)
         /\ \A k \in DOMAIN s : k \in DOMAIN Append(s, p) /\ Append(s, p)[k] = s[k]
         /\ Len(s) + 1 \in DOMAIN Append(s, p) /\ Append(s, p)[Len(s) + 1] = p
         /\ \A k \in DOMAIN Append(s, p) : k \in DOMAIN s \/ Append(s, p)[k] = p
BY AppendProperties

(* A step that only hands answers on, or none.                               *)
LEMMA LinkByAnswers ==
  ASSUME TypeOK, LinkInv, SentWasReceived, Deliver \/ LoseAnswer
  PROVE  LinkInv' /\ SentWasReceived'
<1>1. /\ air # <<>> /\ air' = Tail(air)
      /\ UNCHANGED <<pc, tm_down_fullf, tm_to_downlink, coms, received, sent>>
  BY DEF Deliver, LoseAnswer, hand
<1>2. Carried(Head(air)) /\ \A a : Carried(a)' => Carried(a)
  BY <1>1, TailOfAnswers
<1>3. \/ UNCHANGED flags
      \/ Head(air) = "start" /\ start_tm_transferf' = 1
           /\ UNCHANGED tm_transfer_completef
      \/ Head(air) # "start" /\ tm_transfer_completef' = Head(air)
           /\ UNCHANGED start_tm_transferf
  BY DEF Deliver, LoseAnswer
<1>4. OkUnderWay' => OkUnderWay
  BY <1>2, <1>3 DEF OkUnderWay, flags
<1>5. QuietBetween'
  <2>1. SUFFICES ASSUME tm_down_fullf = 0
                 PROVE  pc = "settle" /\ tm_transfer_completef' # "none"
    BY <1>1 DEF QuietBetween
  <2>2. pc = "settle" /\ tm_transfer_completef # "none"
    BY <1>1, <2>1 DEF LinkInv, QuietBetween
  <2>3. Head(air) # "none"
    BY <1>1, TailOfAnswers DEF Answers
  <2> QED BY <1>3, <2>2, <2>3 DEF flags
<1>6. OkIsOfHand'
  BY <1>1, <1>4 DEF LinkInv, OkIsOfHand, Received
<1>7. StaleKeptSilent'
  BY <1>1, <1>2, <1>3 DEF LinkInv, StaleKeptSilent, StaleParts, flags
<1>8. WholeReceived' /\ SentWasReceived'
  BY <1>1 DEF LinkInv, WholeReceived, SentWasReceived
<1> QED BY <1>5, <1>6, <1>7, <1>8 DEF LinkInv

(* The next packet is taken into the hand when no answer is under way.        *)
LEMMA LinkByPick ==
  ASSUME TypeOK, LinkInv, SentWasReceived, PickPacket
  PROVE  LinkInv' /\ SentWasReceived'
<1>1. /\ pc = "serve" /\ pc' = "begin" /\ UNCHANGED <<flags, link, sent>>
      /\ tm_down_fullf' = 1
  BY DEF PickPacket, hand, TypeOK
<1>2. CASE tm_down_fullf = 1
  <2>1. UNCHANGED hand
    BY <1>2 DEF PickPacket
  <2> QED BY <1>1, <1>2, <2>1
          DEF LinkInv, QuietBetween, OkIsOfHand, OkUnderWay, StaleKeptSilent,
              StaleParts, Carried, Received, WholeReceived, SentWasReceived,
              flags, link, hand
<1>3. CASE tm_down_fullf # 1
  <2>1. air = <<>> /\ tm_transfer_completef = "none"
    BY <1>1, <1>3 DEF LinkInv, QuietBetween, TypeOK
  <2>2. UNCHANGED <<tm_transfer_completef, air, received, sent>>
    BY <1>1 DEF flags, link
  <2>3. \A a : ~Carried(a)'
    BY <2>1, <2>2 DEF Carried
  <2> QED BY <1>1, <2>1, <2>2, <2>3
          DEF LinkInv, QuietBetween, OkIsOfHand, OkUnderWay, StaleKeptSilent,
              WholeReceived, SentWasReceived
<1> QED BY <1>2, <1>3

(* Asking brings no "ok", and what COMS keeps of another packet is gone when  *)
(* it answers.                                                                *)
LEMMA LinkByAsking ==
  ASSUME TypeOK, LinkInv, SentWasReceived, BeginTransfer \/ AskAgain
  PROVE  LinkInv' /\ SentWasReceived'
<1>1. /\ SendReady /\ pc \in {"begin", "ask"} /\ pc' = "ask"
      /\ UNCHANGED <<tm_down_fullf, tm_to_downlink, sent>>
      /\ start_tm_transferf' = 0
      /\ tm_transfer_completef' \in {"none", tm_transfer_completef}
  BY DEF BeginTransfer, AskAgain, hand, flags
<1>2. /\ received' = received
      /\ \/ coms'.parts = <<>> /\ \A b : Carried(b)' => Carried(b) \/ b = "start"
         \/ coms' = coms /\ air' = air
  BY <1>1, ReadySent
<1>3. tm_down_fullf = 1
  BY <1>1 DEF TypeOK
<1>4. OkUnderWay' => OkUnderWay
  BY <1>1, <1>2 DEF OkUnderWay, Carried
<1>5. StaleKeptSilent'
  BY <1>1, <1>2, <1>3 DEF LinkInv, StaleKeptSilent, StaleParts, Carried
<1> QED BY <1>1, <1>2, <1>3, <1>4, <1>5
        DEF LinkInv, QuietBetween, OkIsOfHand, Received, WholeReceived, SentWasReceived

(* A chunk continues what COMS has of the packet in hand, and the last one    *)
(* makes the "ok" an answer about it.                                         *)
LEMMA LinkByChunk ==
  ASSUME TypeOK, LinkInv, SentWasReceived, SendChunk
  PROVE  LinkInv' /\ SentWasReceived'
<1>1. /\ pc = "send" /\ tm_down_fullf = 1 /\ tm_to_downlink \in Requests
      /\ UNCHANGED <<tm_down_fullf, tm_to_downlink, start_tm_transferf,
                     tm_transfer_completef, sent>>
  BY DEF SendChunk, hand, flags, TypeOK, Requests, NoPacket
<1>2. ~StaleParts
  BY <1>1 DEF LinkInv, StaleKeptSilent
<1>3. received \in Seq(Requests)
  BY DEF LinkInv, WholeReceived
<1>4. TakeChunk(i, tm_to_downlink) \/ UNCHANGED link
  BY ChunkSent DEF SendChunk
<1>5. CASE UNCHANGED link
  BY <1>1, <1>2, <1>5
  DEF LinkInv, QuietBetween, OkIsOfHand, OkUnderWay, StaleKeptSilent, StaleParts,
      Carried, Received, WholeReceived, SentWasReceived, link
<1>6. CASE TakeChunk(i, tm_to_downlink)
  <2> DEFINE parts == Append(coms.parts, tm_to_downlink)
  <2>1. /\ coms'.parts \in {<<>>, coms.parts, parts}
        /\ \/ received' = received /\ \A b : Carried(b)' => Carried(b) \/ b = "failed"
           \/ received' = Append(received, WholePacket(parts))
    BY <1>1, <1>6, ChunkTaken DEF TypeOK
  <2>2. WholePacket(parts) = tm_to_downlink
        /\ \A k \in DOMAIN parts : parts[k] = tm_to_downlink
    BY <1>1, <1>2, WholeIsHand
  <2> HIDE DEF parts
  <2>3. ~StaleParts'
    BY <1>1, <1>2, <2>1, <2>2 DEF StaleParts
  <2>4. CASE received' = received /\ \A b : Carried(b)' => Carried(b) \/ b = "failed"
    BY <1>1, <2>3, <2>4
    DEF LinkInv, QuietBetween, OkIsOfHand, OkUnderWay, StaleKeptSilent,
        Received, WholeReceived, SentWasReceived
  <2>5. CASE received' = Append(received, tm_to_downlink)
    <3>1. /\ received' \in Seq(Requests) /\ Received(tm_to_downlink)'
          /\ \A k \in DOMAIN received : k \in DOMAIN received'
                                        /\ received'[k] = received[k]
      BY <1>1, <1>3, <2>5, ReceivedGrows DEF Received
    <3>2. SentWasReceived'
      BY <1>1, <3>1 DEF SentWasReceived
    <3> QED BY <1>1, <2>3, <3>1, <3>2
            DEF LinkInv, QuietBetween, OkIsOfHand, StaleKeptSilent, WholeReceived
  <2> QED BY <2>1, <2>2, <2>4, <2>5
<1> QED BY <1>4, <1>5, <1>6

(* Only an "ok" retires the packet, so it was received.                       *)
LEMMA LinkByVerdict ==
  ASSUME TypeOK, LinkInv, SentWasReceived, CheckResponse
  PROVE  LinkInv' /\ SentWasReceived'
<1>1. /\ pc = "verdict" /\ pc' = "settle" /\ tm_down_fullf = 1
      /\ UNCHANGED <<tm_to_downlink, start_tm_transferf, coms, air, received>>
  BY DEF CheckResponse, TypeOK, link
<1>2. CASE tm_transfer_completef = "ok"
  <2>1. /\ tm_transfer_completef' = "settled" /\ tm_down_fullf' = 0
        /\ sent' = Append(sent, tm_to_downlink)
    BY <1>2 DEF CheckResponse
  <2>2. Received(tm_to_downlink)
    BY <1>1, <1>2 DEF LinkInv, OkIsOfHand, OkUnderWay
  <2>3. SentWasReceived'
    <3>1. sent \in Seq(Requests) /\ tm_to_downlink \in Requests
      BY <1>1 DEF TypeOK, Requests, NoPacket
    <3>2. \A k \in DOMAIN sent' : \/ k \in DOMAIN sent /\ sent'[k] = sent[k]
                                  \/ sent'[k] = tm_to_downlink
      BY <2>1, <3>1, ReceivedGrows
    <3> QED BY <1>1, <2>2, <3>2 DEF SentWasReceived, Received
  <2> QED BY <1>1, <2>1, <2>3
          DEF LinkInv, QuietBetween, OkIsOfHand, StaleKeptSilent, WholeReceived
<1>3. CASE tm_transfer_completef # "ok"
  <2>1. tm_transfer_completef' = "none" /\ UNCHANGED <<tm_down_fullf, sent>>
    BY <1>3 DEF CheckResponse
  <2> QED BY <1>1, <2>1
          DEF LinkInv, QuietBetween, OkIsOfHand, OkUnderWay, StaleKeptSilent,
              StaleParts, Carried, Received, WholeReceived, SentWasReceived
<1> QED BY <1>2, <1>3

(* The other steps of the router, and the making of packets.                  *)
LEMMA LinkByOthers ==
  ASSUME TypeOK, LinkInv, SentWasReceived,
         \/ PacketizeSendTelemetry \/ NothingToSend \/ AskTimeout \/ StartSending
         \/ WaitForResponse \/ WaitTimeout \/ Settle \/ UNCHANGED vars
         \/ StartTcPacket \/ ReceiveTcMsg \/ ServeTurn \/ ExecDone
  PROVE  LinkInv' /\ SentWasReceived'
<1> USE DEF LinkInv, QuietBetween, OkIsOfHand, OkUnderWay, StaleKeptSilent, StaleParts,
            Carried, Received, WholeReceived, SentWasReceived, TypeOK, hand, flags, link
<1>1. CASE PacketizeSendTelemetry
  BY <1>1 DEF PacketizeSendTelemetry
<1>2. CASE NothingToSend
  BY <1>2 DEF NothingToSend
<1>3. CASE AskTimeout
  BY <1>3 DEF AskTimeout
<1>4. CASE StartSending
  BY <1>4 DEF StartSending
<1>5. CASE WaitForResponse
  BY <1>5 DEF WaitForResponse
<1>6. CASE WaitTimeout
  BY <1>6 DEF WaitTimeout
<1>7. CASE Settle
  BY <1>7 DEF Settle
<1>8. CASE UNCHANGED vars
  BY <1>8 DEF vars
<1>9. CASE StartTcPacket \/ ReceiveTcMsg \/ ServeTurn \/ ExecDone
  BY <1>9 DEF StartTcPacket, ReceiveTcMsg, ServeTurn, ExecDone
<1> QED BY <1>1, <1>2, <1>3, <1>4, <1>5, <1>6, <1>7, <1>8, <1>9

(* What was reported as sent was received, after every step.                  *)
LEMMA LinkNext ==
  TypeOK /\ LinkInv /\ SentWasReceived /\ [Next]_vars => LinkInv' /\ SentWasReceived'
BY LinkByAnswers, LinkByPick, LinkByAsking, LinkByChunk, LinkByVerdict, LinkByOthers
DEF Next, Router

-----------------------------------------------------------------------------
(* The packets on board.                                                     *)

(* A list may be put together in either order.                                *)
LEMMA Regrouped ==
  ASSUME NEW S, NEW s \in Seq(S), NEW t \in Seq(S), NEW x \in S
  PROVE  /\ s \o Append(t, x) = Append(s \o t, x)
         /\ Append(s, x) \o t = s \o (<<x>> \o t)
<1>1. <<x>> \in Seq(S) /\ Append(s, x) = s \o <<x>> /\ Append(t, x) = t \o <<x>>
  BY AppendIsConcat
<1>2. s \o t \in Seq(S)
  BY ConcatProperties
<1>3. Append(s \o t, x) = (s \o t) \o <<x>>
  BY <1>2, AppendIsConcat
<1>4. (s \o t) \o <<x>> = s \o (t \o <<x>>)
  BY <1>1, ConcatAssociative
<1>5. (s \o <<x>>) \o t = s \o (<<x>> \o t)
  BY <1>1, ConcatAssociative
<1> QED BY <1>1, <1>3, <1>4, <1>5

(* A list made of its head and the rest.                                      *)
LEMMA HeadFirst ==
  ASSUME NEW S, NEW x \in S, NEW t \in Seq(S)
  PROVE  /\ <<x>> \o t \in Seq(S) /\ <<x>> \o t # <<>>
         /\ Head(<<x>> \o t) = x /\ Tail(<<x>> \o t) = t
         /\ Len(<<x>> \o t) = Len(t) + 1
         /\ \A k \in 1 .. Len(t) + 1 : (<<x>> \o t)[k] = IF k = 1 THEN x ELSE t[k - 1]
<1> DEFINE c == <<x>> \o t
<1>1. /\ <<x>> \in Seq(S) /\ Len(<<x>>) = 1 /\ <<x>>[1] = x /\ Len(t) \in Nat
  OBVIOUS
<1>2. /\ c \in Seq(S) /\ Len(c) = 1 + Len(t)
      /\ \A k \in 1 .. 1 + Len(t) : c[k] = IF k <= 1 THEN <<x>>[k] ELSE t[k - 1]
  BY <1>1, ConcatProperties
<1>3. \A k \in 1 .. Len(t) + 1 : c[k] = IF k = 1 THEN x ELSE t[k - 1]
  BY <1>1, <1>2
<1> HIDE DEF c
<1>4. c # <<>> /\ Head(c) = x
  BY <1>1, <1>2, <1>3
<1>5. /\ Tail(c) \in Seq(S) /\ Len(Tail(c)) = Len(t)
      /\ \A k \in 1 .. Len(Tail(c)) : Tail(c)[k] = c[k + 1]
  BY <1>1, <1>2, <1>4, HeadTailProperties
<1>6. \A k \in 1 .. Len(t) : Tail(c)[k] = t[k]
  BY <1>1, <1>3, <1>5
<1>7. Tail(c) = t
  BY <1>1, <1>5, <1>6, SeqEqual
<1> QED BY <1>1, <1>2, <1>3, <1>4, <1>7 DEF c

(* A sequence is its head and what follows.                                  *)
LEMMA HeadAndTail ==
  ASSUME NEW S, NEW t \in Seq(S), t # <<>>
  PROVE  Head(t) \in S /\ Tail(t) \in Seq(S) /\ <<Head(t)>> \o Tail(t) = t
<1>1. /\ Head(t) \in S /\ Tail(t) \in Seq(S) /\ Len(Tail(t)) = Len(t) - 1
      /\ \A k \in 1 .. Len(Tail(t)) : Tail(t)[k] = t[k + 1]
      /\ Head(t) = t[1] /\ Len(t) \in Nat \ {0}
  BY HeadTailProperties
<1> DEFINE c == <<Head(t)>> \o Tail(t)
<1>2. /\ c \in Seq(S) /\ Len(c) = Len(Tail(t)) + 1
      /\ \A k \in 1 .. Len(Tail(t)) + 1 :
           c[k] = IF k = 1 THEN Head(t) ELSE Tail(t)[k - 1]
  BY <1>1, HeadFirst
<1> HIDE DEF c
<1>3. Len(c) = Len(t) /\ \A k \in 1 .. Len(c) : c[k] = t[k]
  BY <1>1, <1>2
<1>4. c = t
  BY <1>2, <1>3, SeqEqual
<1> QED BY <1>1, <1>4 DEF c

(* What is pending: the packet to send, if one is picked, and the buffer.     *)
LEMMA PendingType ==
  ASSUME TypeOK
  PROVE  /\ Pending \in Seq(Requests)
         /\ tm_down_fullf = 1 =>
              /\ tm_to_downlink \in Requests
              /\ Pending = <<tm_to_downlink>> \o tm_buffer
              /\ Pending # <<>> /\ Head(Pending) = tm_to_downlink
              /\ Tail(Pending) = tm_buffer
         /\ tm_down_fullf # 1 => Pending = tm_buffer
<1>1. tm_buffer \in Seq(Requests) /\ tm_to_downlink \in Requests \cup {NoPacket}
  BY DEF TypeOK
<1>2. CASE tm_down_fullf = 1
  <2>1. tm_to_downlink \in Requests
    BY <1>1, <1>2 DEF TypeOK, NoPacket
  <2>2. Pending = <<tm_to_downlink>> \o tm_buffer
    BY <1>2 DEF Pending, InHand
  <2> QED BY <1>1, <1>2, <2>1, <2>2, HeadFirst
<1>3. CASE tm_down_fullf # 1
  <2>1. Pending = <<>> \o tm_buffer
    BY <1>3 DEF Pending, InHand
  <2> QED BY <1>1, <1>3, <2>1, ConcatEmptySeq
<1> QED BY <1>2, <1>3

(* Taking a packet into the hand changes nothing about what is pending.       *)
LEMMA PendingByPick ==
  ASSUME TypeOK, TypeOK', PickPacket
  PROVE  Pending' = Pending
<1>1. CASE tm_down_fullf = 1
  BY <1>1 DEF PickPacket, Pending, InHand, hand
<1>2. CASE tm_down_fullf # 1
  <2>1. /\ tm_buffer # <<>> /\ tm_to_downlink' = Head(tm_buffer)
        /\ tm_buffer' = Tail(tm_buffer) /\ tm_down_fullf' = 1
    BY <1>2 DEF PickPacket
  <2>2. Pending' = <<Head(tm_buffer)>> \o Tail(tm_buffer)
    BY <2>1 DEF Pending, InHand
  <2>3. tm_buffer \in Seq(Requests)
    BY DEF TypeOK
  <2> QED BY <1>2, <2>1, <2>2, <2>3, HeadAndTail, PendingType
<1> QED BY <1>1, <1>2

(* A packet that is made goes to the end, is held, or is refused.             *)
LEMMA PendingByMaking ==
  ASSUME TypeOK, PacketizeSendTelemetry
  PROVE  /\ requests + 1 \in Requests /\ requests' = requests + 1
         /\ \/ Pending' = Pending /\ current_tm_fullf = 1
                 /\ UNCHANGED <<current_tm_fullf, stored>>
            \/ /\ Pending' = Append(Pending, requests + 1)
               /\ current_tm_fullf = 0 /\ current_tm_fullf' = 0
               /\ stored' = Append(stored, requests + 1)
            \/ /\ Pending' = Pending
               /\ current_tm_fullf = 0 /\ current_tm_fullf' = 1
               /\ stored' = Append(stored, requests + 1)
<1>1. /\ requests + 1 \in Requests /\ requests' = requests + 1
      /\ UNCHANGED <<tm_down_fullf, tm_to_downlink>>
      /\ current_tm_fullf \in 0 .. 1
  BY ConstantsOK DEF PacketizeSendTelemetry, TypeOK, Requests, hand
<1>2. CASE tm_buffer' = tm_buffer
  <2>1. Pending' = Pending
    BY <1>1, <1>2 DEF Pending, InHand
  <2>2. CASE current_tm_fullf = 1
    BY <1>1, <2>1, <2>2 DEF PacketizeSendTelemetry
  <2>3. CASE current_tm_fullf = 0 /\ ~(Len(tm_buffer) < TmBufferLength)
    BY <1>1, <2>1, <2>3 DEF PacketizeSendTelemetry, StoreCurrentTm
  <2>4. CASE current_tm_fullf = 0 /\ Len(tm_buffer) < TmBufferLength
    <3>1. tm_buffer' = Append(tm_buffer, requests + 1)
      BY <2>4 DEF PacketizeSendTelemetry, StoreCurrentTm
    <3>2. Len(Append(tm_buffer, requests + 1)) = Len(tm_buffer) + 1
          /\ Len(tm_buffer) \in Nat
      BY <1>1, AppendProperties DEF TypeOK
    <3> QED BY <1>2, <3>1, <3>2
  <2> QED BY <1>1, <2>2, <2>3, <2>4
<1>3. CASE tm_buffer' # tm_buffer
  <2>1. /\ current_tm_fullf = 0 /\ current_tm_fullf' = 0
        /\ tm_buffer' = Append(tm_buffer, requests + 1)
        /\ stored' = Append(stored, requests + 1)
    BY <1>1, <1>3 DEF PacketizeSendTelemetry, StoreCurrentTm
  <2>2. InHand' = InHand
    BY <1>1 DEF InHand
  <2>3. InHand \in Seq(Requests) /\ tm_buffer \in Seq(Requests)
    BY PendingType DEF InHand, TypeOK
  <2>4. InHand \o Append(tm_buffer, requests + 1)
          = Append(InHand \o tm_buffer, requests + 1)
    BY <1>1, <2>3, Regrouped
  <2>5. Pending' = Append(Pending, requests + 1)
    BY <2>1, <2>2, <2>4 DEF Pending
  <2> QED BY <1>1, <2>1, <2>5
<1> QED BY <1>2, <1>3

(* A verdict retires the packet in hand or nothing.                           *)
LEMMA PendingByVerdict ==
  ASSUME TypeOK, CheckResponse
  PROVE  \/ Pending' = Pending /\ sent' = sent
         \/ /\ tm_transfer_completef = "ok" /\ tm_down_fullf = 1
            /\ Pending # <<>> /\ Head(Pending) = tm_to_downlink
            /\ Pending' = Tail(Pending) /\ sent' = Append(sent, tm_to_downlink)
<1>1. tm_down_fullf = 1 /\ UNCHANGED <<tm_to_downlink, tm_buffer>>
  BY DEF CheckResponse, TypeOK, buffers
<1>2. CASE tm_transfer_completef = "ok"
  <2>1. tm_down_fullf' = 0 /\ sent' = Append(sent, tm_to_downlink)
    BY <1>2 DEF CheckResponse
  <2>2. Pending' = <<>> \o tm_buffer
    BY <1>1, <2>1 DEF Pending, InHand
  <2>3. <<>> \o tm_buffer = tm_buffer
    BY ConcatEmptySeq DEF TypeOK
  <2> QED BY <1>1, <1>2, <2>1, <2>2, <2>3, PendingType
<1>3. CASE tm_transfer_completef # "ok"
  BY <1>1, <1>3 DEF CheckResponse, Pending, InHand
<1> QED BY <1>2, <1>3

(* Nothing is on board at the start.                                          *)
LEMMA BoardInit == Init => BoardInv
BY DEF Init, BoardInv, NumbersUsed, HeldIsStored, NothingLostOnBoard, Pending, InHand,
       Held

(* No step but these two changes what was made, is pending or is retired.     *)
LEMMA BoardQuiet ==
  ASSUME TypeOK, TypeOK', [Next]_vars, ~PacketizeSendTelemetry, ~CheckResponse
  PROVE  Pending' = Pending /\ UNCHANGED <<current_tm_fullf, stored, sent, requests>>
<1>1. CASE PickPacket
  BY <1>1, PendingByPick DEF PickPacket
<1>2. CASE ~PickPacket
  <2>1. UNCHANGED <<tm_buffer, tm_down_fullf, tm_to_downlink, current_tm_fullf,
                    stored, sent, requests>>
    BY <1>2 DEF Next, Router, vars, buffers, hand, Deliver, LoseAnswer, NothingToSend,
                StartTcPacket, ReceiveTcMsg, ServeTurn, ExecDone,
                BeginTransfer, AskAgain, AskTimeout, StartSending, SendChunk,
                WaitForResponse, WaitTimeout, Settle
  <2> QED BY <2>1 DEF Pending, InHand
<1> QED BY <1>1, <1>2

(* A packet that is made is stored, or reported as lost.                      *)
LEMMA BoardByMaking ==
  ASSUME TypeOK, HeldIsStored, NothingLostOnBoard, PacketizeSendTelemetry
  PROVE  HeldIsStored' /\ NothingLostOnBoard'
<1> DEFINE n == requests + 1
<1>1. /\ sent \in Seq(Requests) /\ stored \in Seq(Requests) /\ sent' = sent
      /\ Pending \in Seq(Requests) /\ n \in Requests
      /\ sent \o Pending \in Seq(Requests)
  <2>1. sent \in Seq(Requests) /\ stored \in Seq(Requests) /\ sent' = sent
    BY DEF TypeOK, PacketizeSendTelemetry
  <2>2. Pending \in Seq(Requests) /\ n \in Requests
    BY PendingType, PendingByMaking
  <2> QED BY <2>1, <2>2, ConcatProperties
<1>2. CASE Pending' = Pending /\ UNCHANGED <<current_tm_fullf, stored>>
  BY <1>1, <1>2 DEF HeldIsStored, NothingLostOnBoard, Held
<1>3. CASE current_tm_fullf = 0 /\ stored' = Append(stored, n)
  <2>1. sent \o Pending = stored
    BY <1>1, <1>3, ConcatEmptySeq DEF NothingLostOnBoard, Held
  <2>2. stored' \in Seq(Requests) /\ stored' # <<>> /\ stored'[Len(stored')] = n
        /\ stored' = stored \o <<n>>
    BY <1>1, <1>3, AppendProperties, AppendIsConcat
  <2>3. CASE current_tm_fullf' = 1 /\ Pending' = Pending
    <3>1. Held' = <<n>>
      BY <2>2, <2>3 DEF Held
    <3> QED BY <1>1, <2>1, <2>2, <2>3, <3>1 DEF HeldIsStored, NothingLostOnBoard
  <2>4. CASE current_tm_fullf' = 0 /\ Pending' = Append(Pending, n)
    <3>1. Held' = <<>>
      BY <2>4 DEF Held
    <3>2. sent' \o Pending' = stored'
      BY <1>1, <1>3, <2>1, <2>4, Regrouped
    <3>3. stored' \o <<>> = stored'
      BY <2>2, ConcatEmptySeq
    <3>4. (sent' \o Pending') \o Held' = stored'
      BY <3>1, <3>2, <3>3
    <3>5. NothingLostOnBoard'
      BY <3>4 DEF NothingLostOnBoard
    <3> QED BY <2>4, <3>5 DEF HeldIsStored
  <2> QED BY <1>3, <2>3, <2>4, PendingByMaking
<1> QED BY <1>2, <1>3, PendingByMaking

(* A packet is dropped when COMS has it, or is given up on.                   *)
LEMMA BoardByVerdict ==
  ASSUME TypeOK, HeldIsStored, NothingLostOnBoard, CheckResponse
  PROVE  HeldIsStored' /\ NothingLostOnBoard'
<1>1. UNCHANGED <<current_tm_fullf, stored>> /\ Held' = Held
  BY DEF CheckResponse, buffers, Held
<1>2. CASE Pending' = Pending /\ sent' = sent
  BY <1>1, <1>2 DEF HeldIsStored, NothingLostOnBoard
<1>3. CASE ~(Pending' = Pending /\ sent' = sent)
  <2>1. /\ Pending # <<>> /\ Head(Pending) = tm_to_downlink
        /\ Pending' = Tail(Pending) /\ sent' = Append(sent, tm_to_downlink)
    BY <1>3, PendingByVerdict
  <2>2. sent \in Seq(Requests) /\ Pending \in Seq(Requests)
    BY PendingType DEF TypeOK
  <2>3. /\ tm_to_downlink \in Requests /\ Pending' \in Seq(Requests)
        /\ <<tm_to_downlink>> \o Pending' = Pending
    BY <2>1, <2>2, HeadAndTail
  <2>4. sent' \o Pending' = sent \o Pending
    BY <2>1, <2>2, <2>3, Regrouped
  <2> QED BY <1>1, <2>4 DEF HeldIsStored, NothingLostOnBoard
<1> QED BY <1>2, <1>3

(* The requests counted so far bound every number in use.                     *)
LEMMA NumbersNext ==
  ASSUME TypeOK, TypeOK', NumbersUsed, LinkInv, [Next]_vars
  PROVE  NumbersUsed'
<1>1. requests \in Nat /\ requests' \in Nat /\ requests <= requests'
  <2>1. requests' \in {requests, requests + 1}
    BY DEF Next, Router, vars, buffers, Deliver, LoseAnswer, PacketizeSendTelemetry,
           PickPacket, NothingToSend,
           StartTcPacket, ReceiveTcMsg, ServeTurn, ExecDone,
           BeginTransfer, AskAgain, AskTimeout, StartSending,
           SendChunk, WaitForResponse, WaitTimeout, CheckResponse, Settle
  <2> QED BY <2>1, ConstantsOK DEF TypeOK
<1>2. /\ tm_buffer \in Seq(Requests) /\ tm_buffer' \in Seq(Requests)
      /\ received \in Seq(Requests) /\ tm_down_fullf \in 0 .. 1
  BY DEF TypeOK, LinkInv, WholeReceived
<1>3. /\ \A k \in DOMAIN tm_buffer : tm_buffer[k] \in Nat /\ tm_buffer[k] <= requests
      /\ \A k \in DOMAIN received : received[k] \in Nat /\ received[k] <= requests
      /\ tm_down_fullf = 1 => tm_to_downlink \in Nat /\ tm_to_downlink \in 1 .. requests
  <2>1. /\ \A k \in DOMAIN tm_buffer : tm_buffer[k] \in Requests
        /\ \A k \in DOMAIN received : received[k] \in Requests
    BY <1>2
  <2>2. \A n \in Requests : n \in Nat
    BY DEF Requests
  <2> QED BY <1>1, <2>1, <2>2 DEF NumbersUsed
<1>4. CASE PacketizeSendTelemetry
  <2>1. /\ requests' = requests + 1
        /\ UNCHANGED <<tm_down_fullf, tm_to_downlink, received>>
        /\ tm_buffer' \in {tm_buffer, Append(tm_buffer, requests + 1)}
        /\ requests + 1 \in Requests
    BY <1>4, PendingByMaking DEF PacketizeSendTelemetry, StoreCurrentTm, hand, link
  <2>2. \A k \in DOMAIN tm_buffer' :
          tm_buffer'[k] \in Nat /\ tm_buffer'[k] <= requests + 1
    <3>1. CASE tm_buffer' = tm_buffer
      BY <1>1, <1>3, <3>1
    <3>2. CASE tm_buffer' = Append(tm_buffer, requests + 1)
      <4>1. \A k \in DOMAIN tm_buffer' :
              \/ k \in DOMAIN tm_buffer /\ tm_buffer'[k] = tm_buffer[k]
              \/ tm_buffer'[k] = requests + 1
        BY <1>2, <2>1, <3>2, AppendProperties
      <4> QED BY <1>1, <1>3, <4>1
    <3> QED BY <2>1, <3>1, <3>2
  <2> QED BY <1>1, <1>3, <2>1, <2>2 DEF NumbersUsed
<1>5. CASE PickPacket
  <2>1. UNCHANGED <<requests, received>>
    BY <1>5 DEF PickPacket, link
  <2>2. CASE tm_down_fullf = 1
    BY <1>5, <2>1, <2>2 DEF PickPacket, hand, NumbersUsed
  <2>3. CASE tm_down_fullf # 1
    <3>1. /\ tm_buffer # <<>> /\ tm_to_downlink' = Head(tm_buffer)
          /\ tm_buffer' = Tail(tm_buffer)
      BY <1>5, <2>3 DEF PickPacket
    <3>2. /\ Head(tm_buffer) = tm_buffer[1] /\ 1 \in DOMAIN tm_buffer
          /\ Head(tm_buffer) \in Requests
          /\ \A k \in DOMAIN tm_buffer' :
               k + 1 \in DOMAIN tm_buffer /\ tm_buffer'[k] = tm_buffer[k + 1]
      BY <1>2, <3>1, HeadTailProperties
    <3>3. Head(tm_buffer) \in 1 .. requests
      BY <1>1, <1>3, <3>2 DEF Requests
    <3> QED BY <1>3, <2>1, <3>1, <3>2, <3>3 DEF NumbersUsed
  <2> QED BY <2>2, <2>3
<1>6. CASE SendChunk
  <2>1. UNCHANGED <<requests, tm_buffer, tm_down_fullf, tm_to_downlink>>
        /\ pc = "send" /\ tm_down_fullf = 1
    BY <1>6 DEF SendChunk, buffers, hand, TypeOK
  <2>2. CASE UNCHANGED received
    BY <2>1, <2>2 DEF NumbersUsed
  <2>3. CASE ~UNCHANGED received
    <3>1. tm_to_downlink \in Requests /\ TakeChunk(i, tm_to_downlink)
      BY <1>6, <2>3, ChunkSent DEF SendChunk, link
    <3>2. received' = Append(received, WholePacket(Append(coms.parts, tm_to_downlink)))
      BY <2>3, <3>1, ChunkTaken DEF TypeOK
    <3>3. ~StaleParts
      BY <2>1 DEF LinkInv, StaleKeptSilent
    <3>4. received' = Append(received, tm_to_downlink)
      BY <3>1, <3>2, <3>3, WholeIsHand
    <3>5. \A k \in DOMAIN received' :
            \/ k \in DOMAIN received /\ received'[k] = received[k]
            \/ received'[k] = tm_to_downlink
      BY <1>2, <3>1, <3>4, ReceivedGrows
    <3> QED BY <1>1, <1>3, <2>1, <3>5 DEF NumbersUsed
  <2> QED BY <2>2, <2>3
<1>7. CASE ~PacketizeSendTelemetry /\ ~PickPacket /\ ~SendChunk
  <2>1. /\ UNCHANGED <<requests, tm_buffer, received, tm_to_downlink>>
        /\ tm_down_fullf' \in {0, tm_down_fullf}
    <3>1. CASE BeginTransfer \/ AskAgain
      <4>1. SendReady
        BY <3>1 DEF BeginTransfer, AskAgain
      <4> QED BY <3>1, <4>1, ReadySent DEF BeginTransfer, AskAgain, buffers, hand
    <3>2. CASE ~BeginTransfer /\ ~AskAgain
      BY <1>7, <3>2
      DEF Next, Router, vars, buffers, hand, link, Deliver, LoseAnswer, NothingToSend,
      StartTcPacket, ReceiveTcMsg, ServeTurn, ExecDone,
          AskTimeout, StartSending, WaitForResponse, WaitTimeout, CheckResponse, Settle
    <3> QED BY <3>1, <3>2
  <2> QED BY <2>1 DEF NumbersUsed
<1> QED BY <1>4, <1>5, <1>6, <1>7

(* Every step keeps what is held in store.                                    *)
LEMMA BoardNext ==
  ASSUME TypeOK, TypeOK', LinkInv, BoardInv, [Next]_vars
  PROVE  BoardInv'
<1>1. NumbersUsed'
  BY NumbersNext DEF BoardInv
<1>2. HeldIsStored' /\ NothingLostOnBoard'
  <2>1. CASE PacketizeSendTelemetry
    BY <2>1, BoardByMaking DEF BoardInv
  <2>2. CASE CheckResponse
    BY <2>2, BoardByVerdict DEF BoardInv
  <2>3. CASE ~PacketizeSendTelemetry /\ ~CheckResponse
    <3>1. Pending' = Pending /\ UNCHANGED <<current_tm_fullf, stored, sent>>
      BY <2>3, BoardQuiet
    <3> QED BY <3>1 DEF BoardInv, HeldIsStored, NothingLostOnBoard, Held
  <2> QED BY <2>1, <2>2, <2>3
<1> QED BY <1>1, <1>2 DEF BoardInv

-----------------------------------------------------------------------------
(* The inductive invariant holds at the start.                                *)
LEMMA InvInit == Init => Inv
BY TypeInit, LinkInit, BoardInit DEF Inv

(* Every step keeps the inductive invariant.                                  *)
LEMMA InvNext == Inv /\ [Next]_vars => Inv'
<1> SUFFICES ASSUME Inv, [Next]_vars PROVE Inv'
  OBVIOUS
<1>1. TypeOK'
  BY TypeNext DEF Inv
<1>2. LinkInv' /\ SentWasReceived'
  BY LinkNext DEF Inv
<1>3. BoardInv'
  BY <1>1, BoardNext DEF Inv
<1> QED BY <1>1, <1>2, <1>3 DEF Inv

(* The inductive invariant holds in every reachable state.                    *)
THEOREM AlwaysInv == Spec => []Inv
BY InvInit, InvNext, PTL DEF Spec

(* What the router retires as delivered was received whole by COMS, and the   *)
(* state stays in its ranges (send_pus_packet_tm, the CAN1 interrupt).         *)
THEOREM DownlinkInvariant == Spec => []DownlinkInv
<1>1. Inv => DownlinkInv
  BY DEF Inv, DownlinkInv
<1> QED BY <1>1, AlwaysInv, PTL

(* The delivered packets, the one in hand, those in tm_buffer and the one kept *)
(* in current_tm are always the packets that were made, in their order         *)
(* (store_current_tm, the retry in service_requests).                          *)
THEOREM NothingIsLost == Spec => []NothingLostOnBoard
<1>1. Inv => NothingLostOnBoard
  BY DEF Inv, BoardInv
<1> QED BY <1>1, AlwaysInv, PTL

(* COMS never completes a packet put together from chunks of two, whatever is  *)
(* lost, repeated or late.                                                     *)
THEOREM NeverPatched == Spec => []WholeReceived
<1>1. Inv => WholeReceived
  BY DEF Inv, LinkInv
<1> QED BY <1>1, AlwaysInv, PTL

(* A packet once held in current_tm stays there, and none is made after it     *)
(* (packetize_send_telemetry).                                                 *)
THEOREM HeldStaysHeld == Spec => HeldForGood
<1>1. Inv /\ [Next]_vars =>
        [current_tm_fullf = 1 => current_tm_fullf' = 1 /\ stored' = stored]_vars
  <2> SUFFICES ASSUME Inv, [Next]_vars, current_tm_fullf = 1
               PROVE  current_tm_fullf' = 1 /\ stored' = stored
    OBVIOUS
  <2>1. TypeOK /\ TypeOK'
    BY InvNext DEF Inv
  <2>2. CASE PacketizeSendTelemetry
    BY <2>2 DEF PacketizeSendTelemetry
  <2>3. CASE CheckResponse
    BY <2>3 DEF CheckResponse, buffers
  <2> QED BY <2>1, <2>2, <2>3, BoardQuiet
<1> QED BY <1>1, AlwaysInv, PTL DEF Spec, HeldForGood

-----------------------------------------------------------------------------
(* The downlink implements TmService.                                        *)

(* Only a chunk makes COMS receive anything, and then the packet in hand.     *)
LEMMA ReceivedByChunk ==
  ASSUME Inv, [Next]_vars, received' # received
  PROVE  /\ SendChunk /\ tm_down_fullf = 1
         /\ received' = Append(received, tm_to_downlink)
<1>1. TypeOK /\ LinkInv
  BY DEF Inv
<1>2. CASE SendChunk
  <2>1. pc = "send" /\ tm_down_fullf = 1 /\ tm_to_downlink \in Requests
    BY <1>1, <1>2, PendingType DEF SendChunk, TypeOK
  <2>2. TakeChunk(i, tm_to_downlink)
    BY <1>2 DEF SendChunk, link
  <2>3. received' = Append(received, WholePacket(Append(coms.parts, tm_to_downlink)))
    BY <1>1, <2>1, <2>2, ChunkTaken DEF TypeOK
  <2>4. ~StaleParts
    BY <1>1, <2>1 DEF LinkInv, StaleKeptSilent
  <2> QED BY <1>1, <1>2, <2>1, <2>3, <2>4, WholeIsHand
<1>3. CASE ~SendChunk
  <2>1. CASE BeginTransfer \/ AskAgain
    <3>1. SendReady
      BY <2>1 DEF BeginTransfer, AskAgain
    <3> QED BY <1>1, <3>1, ReadySent
  <2>2. CASE ~BeginTransfer /\ ~AskAgain
    BY <1>3, <2>2
    DEF Next, Router, vars, link, Deliver, LoseAnswer, PacketizeSendTelemetry,
        PickPacket, NothingToSend,
        StartTcPacket, ReceiveTcMsg, ServeTurn, ExecDone,
        AskTimeout, StartSending, WaitForResponse,
        WaitTimeout, CheckResponse, Settle
  <2> QED BY <2>1, <2>2
<1> QED BY <1>2, <1>3

(* At the start nothing was handed over.                                      *)
LEMMA ServiceInit == Init => Service!Init
BY DEF Init, Service!Init, Pending, InHand

(* A step is one of the abstract service, or none.                            *)
LEMMA ServiceStep ==
  ASSUME Inv, Inv', [Next]_vars
  PROVE  [Service!Next]_<<Pending, received>>
<1>1. TypeOK /\ TypeOK' /\ LinkInv /\ NumbersUsed
  BY DEF Inv, BoardInv
<1>2. CASE PacketizeSendTelemetry
  <2>1. received' = received
    BY <1>2 DEF PacketizeSendTelemetry, link
  <2>2. CASE Pending' = Pending
    BY <2>1, <2>2
  <2>3. CASE Pending' # Pending
    <3>1. requests + 1 \in Requests /\ Pending' = Append(Pending, requests + 1)
      BY <1>1, <1>2, <2>3, PendingByMaking
    <3>2. /\ requests \in Nat /\ tm_buffer \in Seq(Requests)
          /\ received \in Seq(Requests)
          /\ \A n \in Requests : n \in Nat
      BY <1>1, ConstantsOK DEF TypeOK, LinkInv, WholeReceived, Requests
    <3>3. \A k \in DOMAIN received : received[k] < requests + 1
      <4>1. \A k \in DOMAIN received : received[k] \in Requests /\ received[k] <= requests
        BY <1>1, <3>2 DEF NumbersUsed
      <4> QED BY <3>2, <4>1
    <3>4. \A k \in DOMAIN tm_buffer : tm_buffer[k] < requests + 1
      <4>1. \A k \in DOMAIN tm_buffer :
              tm_buffer[k] \in Requests /\ tm_buffer[k] <= requests
        BY <1>1, <3>2 DEF NumbersUsed
      <4> QED BY <3>2, <4>1
    <3>5. \A k \in DOMAIN Pending : Pending[k] < requests + 1
      <4>1. CASE tm_down_fullf = 1
        <5>1. tm_to_downlink \in Requests /\ tm_to_downlink \in 1 .. requests
          BY <1>1, <4>1, PendingType DEF NumbersUsed
        <5>2. /\ Pending \in Seq(Requests) /\ Len(Pending) = Len(tm_buffer) + 1
              /\ \A k \in 1 .. Len(tm_buffer) + 1 :
                   Pending[k] = IF k = 1 THEN tm_to_downlink ELSE tm_buffer[k - 1]
          BY <1>1, <3>2, <4>1, <5>1, PendingType, HeadFirst
        <5>3. tm_to_downlink < requests + 1
          BY <3>2, <5>1
        <5>4. \A k \in 1 .. Len(tm_buffer) + 1 :
                k = 1 \/ k - 1 \in DOMAIN tm_buffer
          BY <3>2
        <5> QED BY <3>2, <3>4, <5>2, <5>3, <5>4
      <4>2. CASE tm_down_fullf # 1
        BY <1>1, <3>4, <4>2, PendingType
      <4> QED BY <4>1, <4>2
    <3>6. Service!Submit(requests + 1)
      BY <2>1, <3>1, <3>3, <3>5 DEF Service!Submit
    <3> QED BY <3>1, <3>6 DEF Service!Next
  <2> QED BY <2>2, <2>3
<1>3. CASE CheckResponse
  <2>1. received' = received
    BY <1>3 DEF CheckResponse, link
  <2>2. CASE Pending' = Pending
    BY <2>1, <2>2
  <2>3. CASE Pending' # Pending
    <3>1. /\ tm_transfer_completef = "ok" /\ tm_down_fullf = 1
          /\ Pending # <<>> /\ Head(Pending) = tm_to_downlink
          /\ Pending' = Tail(Pending)
      BY <1>1, <1>3, <2>3, PendingByVerdict
    <3>2. Received(tm_to_downlink)
      BY <1>1, <3>1 DEF LinkInv, OkIsOfHand, OkUnderWay
    <3>3. Service!Retire
      BY <2>1, <3>1, <3>2 DEF Service!Retire, Received
    <3> QED BY <3>3 DEF Service!Next
  <2> QED BY <2>2, <2>3
<1>4. CASE ~PacketizeSendTelemetry /\ ~CheckResponse
  <2>1. Pending' = Pending
    BY <1>1, <1>4, BoardQuiet
  <2>2. CASE received' = received
    BY <2>1, <2>2
  <2>3. CASE received' # received
    <3>1. tm_down_fullf = 1 /\ received' = Append(received, tm_to_downlink)
      BY <2>3, ReceivedByChunk
    <3>2. Pending # <<>> /\ Head(Pending) = tm_to_downlink
      BY <1>1, <3>1, PendingType
    <3>3. Service!Deliver
      BY <2>1, <3>1, <3>2 DEF Service!Deliver
    <3> QED BY <3>3 DEF Service!Next
  <2> QED BY <2>2, <2>3
<1> QED BY <1>2, <1>3, <1>4

(* The downlink delivers each packet at least once, whole and in order, and    *)
(* retires it only after that: every step is a step of TmService or none.      *)
THEOREM DownlinkImplementsService == Spec => DeliveredAtLeastOnce
<1>1. Inv /\ Inv' /\ [Next]_vars => [Service!Next]_<<Pending, received>>
  BY ServiceStep
<1> QED BY <1>1, ServiceInit, AlwaysInv, PTL DEF Spec, DeliveredAtLeastOnce, Service!Spec
=============================================================================

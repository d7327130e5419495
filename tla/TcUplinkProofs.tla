--------------------------- MODULE TcUplinkProofs ---------------------------
(***************************************************************************)
(* Proofs about TcUplink, for every packet length, every length of the two  *)
(* queues and any number of transfers.                                      *)
(***************************************************************************)
EXTENDS TcUplink, SequenceTheorems, TLAPS

-----------------------------------------------------------------------------
(* The inductive invariant, in four parts.                                   *)

(* Types, and the header register holds a word when it is looked at.         *)
TypeInv == TypeOK /\ (pc = "assemble" => new_tc_msg_high \in Words)

(* Holes: what has been counted has been written.                            *)
FullFrom1(p) == \A k \in Seqs \ {0} : p[k] # Blank

HolesInv ==
  /\ pc = "low" => low_received = 0
  /\ pc \in {"high", "assemble"} => low_received = 1
  /\ low_received = 1 => new_tc_msg_low # Blank
  /\ \A k \in 1 .. tc_sequence_count : current_tc[k] # Blank
  /\ pc = "store" => FullFrom1(current_tc)
  /\ \A n \in DOMAIN tc_buffer : FullFrom1(tc_buffer[n])
  /\ \A n \in DOMAIN executed : FullFrom1(executed[n].packet)

(* Accounts: what was acknowledged is decoded, queued or the last packet,     *)
(* and a packet waiting to be stored is marked by current_tc_fullf.          *)
InOrder ==
  /\ Len(acked) = Len(executed) + Len(tc_buffer) + current_tc_fullf
  /\ \A n \in 1 .. Len(executed) : acked[n] = executed[n].packet
  /\ \A n \in 1 .. Len(tc_buffer) : acked[Len(executed) + n] = tc_buffer[n]

AckInv ==
  /\ InOrder
  /\ current_tc_fullf = 1 => current_tc \in {acked[Len(acked)], AllBlank}
  /\ pc = "store" => current_tc = acked[Len(acked)]
  /\ pc \in {"store", "reset"} => current_tc_fullf = 1

(* Transfers: as long as no word was dropped, the words that the router has  *)
(* taken and those still in the queue form one chain, low word before its    *)
(* high word and chunks in order, which the next word of COMS continues.     *)
Follows(v, w) ==
  \/ w.att = v.att /\ w.seq = v.seq + 1
  \/ w.att > v.att /\ w.seq = 0

Adjacent(v, w) ==
  \/ v.half = "low" /\ w.half = "high" /\ w.att = v.att /\ w.seq = v.seq
  \/ v.half = "high" /\ w.half = "low" /\ Follows(v, w)

(* v may be the last word COMS has sent.                                     *)
Latest(v) ==
  /\ v.half = "high"
  /\ v.att <= com.att
  /\ com.state \in {"asking", "sending"} /\ com.next = 0 => v.att < com.att
  /\ com.state = "sending" /\ com.next # 0 =>
       v.att = com.att /\ v.seq = com.next - 1

LastTaken ==
  IF low_received = 1 /\ pc # "assemble" THEN new_tc_msg_low ELSE new_tc_msg_high

(* The first c + 1 slots of current_tc can be continued by transfer a.       *)
Consistent(a, c) ==
  /\ current_tc[0] \in {LowWord(a, 0), Blank}
  /\ \A k \in 1 .. c : current_tc[k] = LowWord(a, k)

Attempts == 1 .. MaxAttempts

ComInv ==
  /\ com.att <= MaxAttempts
  /\ com.state # "idle" => com.att >= 1
  /\ com.state = "asking" => com.next = 0

ChainInv ==
  /\ \A n \in 1 .. Len(tc_msg_fifo) : tc_msg_fifo[n].att \in Attempts
  /\ \A n \in 1 .. Len(tc_msg_fifo) - 1 : Adjacent(tc_msg_fifo[n], tc_msg_fifo[n + 1])
  /\ tc_msg_fifo # <<>> => Latest(tc_msg_fifo[Len(tc_msg_fifo)])
  /\ tc_msg_fifo # <<>> =>
       IF LastTaken = Blank THEN tc_msg_fifo[1].half = "low"
                            ELSE Adjacent(LastTaken, tc_msg_fifo[1])
  /\ tc_msg_fifo = <<>> /\ LastTaken # Blank => Latest(LastTaken)

RegisterInv ==
  /\ new_tc_msg_high # Blank =>
       new_tc_msg_high.half = "high" /\ new_tc_msg_high.att \in Attempts
  /\ low_received = 1 =>
       new_tc_msg_low.half = "low" /\ new_tc_msg_low.att \in Attempts
  /\ low_received = 1 /\ pc # "assemble" /\ new_tc_msg_high # Blank =>
       Follows(new_tc_msg_high, new_tc_msg_low)
  /\ pc = "assemble" =>
       new_tc_msg_low = LowWord(new_tc_msg_high.att, new_tc_msg_high.seq)

AssemblyInv ==
  /\ new_tc_msg_high = Blank => current_tc = AllBlank /\ tc_sequence_count = 0
  /\ pc = "assemble" /\ current_tc_fullf = 0
       /\ new_tc_msg_high.seq = tc_sequence_count + 1 =>
       Consistent(new_tc_msg_high.att, tc_sequence_count)
  /\ pc \in {"low", "high", "service"} /\ current_tc_fullf = 0
       /\ new_tc_msg_high # Blank /\ new_tc_msg_high.seq = tc_sequence_count =>
       Consistent(new_tc_msg_high.att, tc_sequence_count)
  /\ pc = "store" =>
       /\ SameTransfer(current_tc)
       /\ tc_sequence_count = 0
       /\ new_tc_msg_high # Blank /\ new_tc_msg_high.seq = Chunks - 1
  /\ \A n \in DOMAIN tc_buffer : SameTransfer(tc_buffer[n])
  /\ \A n \in DOMAIN executed : SameTransfer(executed[n].packet)

Linked == ChainInv /\ RegisterInv /\ AssemblyInv
TransferInv == ComInv /\ (lost = 0 => Linked)

Inv == TypeInv /\ HolesInv /\ AckInv /\ TransferInv
-----------------------------------------------------------------------------
(* Type correctness.                                                         *)

(* The two words of a chunk are words.                                        *)
LEMMA WordTypes ==
  ASSUME NEW a \in Nat, NEW k \in Seqs
  PROVE  LowWord(a, k) \in Words /\ HighWord(a, k) \in Words
BY DEF LowWord, HighWord, Words

(* The blank slots are a packet.                                              *)
LEMMA SlotTypes == AllBlank \in Packets
BY DEF AllBlank, Packets, Slots

(* A queue that is full keeps its length.                                     *)
LEMMA PushTypes ==
  ASSUME NEW fifo \in Seq(Words), Len(fifo) <= TcMsgFifoLength, NEW w \in Words
  PROVE  /\ PushFromISR(fifo, w) \in Seq(Words)
         /\ Len(PushFromISR(fifo, w)) <= TcMsgFifoLength
BY ConstantsOK DEF PushFromISR

(* What the sequence control accepts is the number of a chunk.               *)
LEMMA ExpectedIsSeq ==
  ASSUME tc_sequence_count \in 0 .. Chunks - 2, new_tc_msg_high \in Words,
         NEW s \in SeqCounts(new_tc_msg_high), Expected(s)
  PROVE  /\ s \in Seqs
         /\ s = Chunks - 1 \/ s \in 0 .. Chunks - 2
         /\ (s = 0 /\ tc_sequence_count = 0) \/ s = tc_sequence_count + 1
BY ConstantsOK DEF SeqCounts, Expected, Seqs, Words

(* The ranges hold at the start.                                              *)
LEMMA TypeInit == Init => TypeInv
BY ConstantsOK, SlotTypes DEF Init, TypeInv, TypeOK, Seqs, Slots, NoResp

(* Every step keeps the ranges.                                               *)
LEMMA TypeNext == TypeInv /\ [Next]_vars => TypeInv'
<1> SUFFICES ASSUME TypeInv, [Next]_vars PROVE TypeInv'
  OBVIOUS
<1> USE ConstantsOK DEF TypeInv
<1>1. ASSUME NEW a \in Nat, AskToStart(a) PROVE TypeInv'
  BY <1>1 DEF AskToStart, StartTcPacket, router, observers, TypeOK, NoResp, Seqs
<1>2. CASE ComsBegin
  BY <1>1, <1>2 DEF ComsBegin, TypeOK
<1>3. CASE ComsAskAgain
  BY <1>1, <1>3 DEF ComsAskAgain, TypeOK
<1>4. CASE ComsSendChunk
  <2>1. com.att \in Nat /\ com.next \in Seqs
    BY DEF TypeOK
  <2>2. tc_msg_fifo' \in Seq(Words) /\ Len(tc_msg_fifo') <= TcMsgFifoLength
    BY <1>4, <2>1, WordTypes, PushTypes DEF ComsSendChunk, SendTcFromISR, TypeOK
  <2>3. lost' \in 0 .. 1
    BY <1>4 DEF ComsSendChunk, SendTcFromISR, TypeOK
  <2>4. com' \in [state : {"idle", "asking", "sending", "sent"}, att : Nat,
                  next : Seqs, resp : {NoResp, RespOK, RespFailed}]
    <3>1. (com.next + 1) % Chunks \in Seqs
      BY <2>1 DEF Seqs
    <3> QED BY <1>4, <3>1 DEF ComsSendChunk, TypeOK
  <2> QED BY <1>4, <2>2, <2>3, <2>4 DEF ComsSendChunk, TypeOK, router
<1>5. CASE ComsFinish \/ ComsAbort
  <2>1. 0 \in Seqs
    BY DEF Seqs
  <2>2. com' \in [state : {"idle", "asking", "sending", "sent"}, att : Nat,
                  next : Seqs, resp : {NoResp, RespOK, RespFailed}]
    BY <1>5, <2>1 DEF ComsFinish, ComsAbort, TypeOK
  <2>3. UNCHANGED <<tc_msg_fifo, tc_buffer, receiving_tcf, current_tc_fullf,
                    router, observers>>
    BY <1>5 DEF ComsFinish, ComsAbort
  <2> QED BY <2>2, <2>3 DEF TypeOK, router, observers
<1>6. CASE ReceiveLow \/ ReceiveHigh
  <2>1. /\ tc_msg_fifo # <<>> /\ tc_msg_fifo \in Seq(Words)
        /\ Len(tc_msg_fifo) <= TcMsgFifoLength
    BY <1>6 DEF ReceiveLow, ReceiveHigh, TypeOK
  <2>2. /\ Head(tc_msg_fifo) \in Words
        /\ Tail(tc_msg_fifo) \in Seq(Words)
        /\ Len(Tail(tc_msg_fifo)) = Len(tc_msg_fifo) - 1
    BY <2>1, HeadTailProperties
  <2>3. tc_msg_fifo' \in Seq(Words) /\ Len(tc_msg_fifo') <= TcMsgFifoLength
    BY <1>6, <2>1, <2>2 DEF ReceiveLow, ReceiveHigh
  <2>4. CASE ReceiveLow
    BY <2>2, <2>3, <2>4 DEF ReceiveLow, TypeOK, Slots, observers
  <2>5. CASE ReceiveHigh
    BY <2>2, <2>3, <2>5 DEF ReceiveHigh, TypeOK, Slots, observers
  <2> QED BY <1>6, <2>4, <2>5
<1>7. CASE ReceiveTimeout
  BY <1>7 DEF ReceiveTimeout, TypeOK, observers
<1>8. CASE ReceiveTcMsg
  <2> SUFFICES ASSUME NEW s \in SeqCounts(new_tc_msg_high),
                      RejectChunk(s) \/ AcceptChunk(s) \/ AcceptLastChunk(s)
               PROVE  TypeInv'
    BY <1>8 DEF ReceiveTcMsg
  <2>1. /\ low_received' = 0
        /\ UNCHANGED <<tc_msg_fifo, tc_buffer, new_tc_msg_low, new_tc_msg_high,
                       executed, lost>>
    BY <1>8 DEF ReceiveTcMsg
  <2>2. CASE RejectChunk(s)
    <3>1. com' \in [state : {"idle", "asking", "sending", "sent"}, att : Nat,
                    next : Seqs, resp : {NoResp, RespOK, RespFailed}]
      BY <2>2 DEF RejectChunk, Respond, TypeOK
    <3>2. pc' \in {"reset", "resetAndClear"}
      BY <2>2 DEF RejectChunk
    <3> QED BY <2>1, <2>2, <3>1, <3>2 DEF RejectChunk, TypeOK
  <2>3. ASSUME StoreChunk(s) PROVE current_tc' \in Packets
    BY <2>3 DEF StoreChunk, TypeOK, Packets
  <2>4. CASE AcceptChunk(s)
    <3>1. tc_sequence_count \in 0 .. Chunks - 2 /\ new_tc_msg_high \in Words
      BY <1>8 DEF ReceiveTcMsg, TypeOK
    <3>2. tc_sequence_count' \in 0 .. Chunks - 2
      BY <2>4, <3>1, ExpectedIsSeq DEF AcceptChunk, IsLastChunk
    <3> QED BY <2>1, <2>3, <2>4, <3>2 DEF AcceptChunk, TypeOK
  <2>5. CASE AcceptLastChunk(s)
    <3>1. com' \in [state : {"idle", "asking", "sending", "sent"}, att : Nat,
                    next : Seqs, resp : {NoResp, RespOK, RespFailed}]
      BY <2>5 DEF AcceptLastChunk, Respond, TypeOK
    <3> QED BY <2>1, <2>3, <2>5, <3>1 DEF AcceptLastChunk, TypeOK
  <2> QED BY <2>2, <2>4, <2>5
<1>9. CASE ResetReception
  BY <1>9, SlotTypes DEF ResetReception, TypeOK, observers
<1>10. CASE StoreCurrentTc
  <2>1. tc_buffer' \in Seq(Packets) /\ Len(tc_buffer') <= TcBufferLength
    <3>1. /\ tc_buffer \in Seq(Packets) /\ current_tc \in Packets
          /\ Len(tc_buffer) <= TcBufferLength
      BY DEF TypeOK
    <3>2. /\ Append(tc_buffer, current_tc) \in Seq(Packets)
          /\ Len(Append(tc_buffer, current_tc)) = Len(tc_buffer) + 1
      BY <3>1
    <3> QED BY <1>10, <3>1, <3>2 DEF StoreCurrentTc
  <2> QED BY <1>10, <2>1 DEF StoreCurrentTc, TypeOK, observers
<1>11. CASE ServiceSkipped
  BY <1>11 DEF ServiceSkipped, TypeOK, LoopTop, observers
<1>12. CASE DecodeTelecommand
  <2>1. Head(tc_buffer) \in Packets /\ Tail(tc_buffer) \in Seq(Packets)
          /\ Len(Tail(tc_buffer)) = Len(tc_buffer) - 1
    BY <1>12, HeadTailProperties DEF DecodeTelecommand, TypeOK
  <2>2. VerifyTelecommand(Head(tc_buffer)) \in {"good", "failed inspection"}
    BY DEF VerifyTelecommand
  <2>3. tc_buffer' \in Seq(Packets) /\ Len(tc_buffer') <= TcBufferLength
    <3>1. Len(tc_buffer) \in Nat /\ Len(tc_buffer) <= TcBufferLength
      BY DEF TypeOK
    <3> QED BY <1>12, <2>1, <3>1 DEF DecodeTelecommand
  <2>4. executed' \in Seq(Decoded)
    <3>1. [packet |-> Head(tc_buffer), verdict |-> VerifyTelecommand(Head(tc_buffer))]
            \in Decoded
      BY <2>1, <2>2 DEF Decoded
    <3> QED BY <1>12, <3>1 DEF DecodeTelecommand, TypeOK
  <2> QED BY <1>12, <2>3, <2>4 DEF DecodeTelecommand, TypeOK, LoopTop
<1>13. CASE UNCHANGED vars
  BY <1>13 DEF vars, router, observers, TypeOK
<1> QED
  BY <1>2, <1>3, <1>4, <1>5, <1>6, <1>7, <1>8, <1>9, <1>10, <1>11, <1>12, <1>13
  DEF Next, Coms, Router

(* Type correctness: the queues never hold more than they can, the counter of *)
(* receive_tc_msg never runs past the packet, whatever the words that stand   *)
(* in for a header contain.                                                   *)
THEOREM TypeCorrect == Spec => []TypeOK
<1>1. TypeInv => TypeOK
  BY DEF TypeInv
<1> QED BY <1>1, TypeInit, TypeNext, PTL DEF Spec

-----------------------------------------------------------------------------
(* No holes.                                                                 *)

(* Nothing was received at the start.                                         *)
LEMMA HolesInit == Init => HolesInv
BY DEF Init, HolesInv

(* Every step keeps written what has been counted.                            *)
LEMMA HolesNext == TypeInv /\ HolesInv /\ [Next]_vars => HolesInv'
<1> SUFFICES ASSUME TypeInv, HolesInv, [Next]_vars PROVE HolesInv'
  OBVIOUS
<1> USE ConstantsOK
<1>1. CASE Coms \/ UNCHANGED vars
  <2>1. UNCHANGED <<router, tc_buffer, executed>>
    BY <1>1 DEF Coms, ComsBegin, ComsAskAgain, AskToStart, ComsSendChunk,
                ComsFinish, ComsAbort, vars, observers
  <2> QED BY <2>1 DEF HolesInv, FullFrom1, router
<1>2. CASE ReceiveLow
  <2>1. new_tc_msg_low' # Blank
    BY <1>2, HeadTailProperties DEF ReceiveLow, TypeInv, TypeOK
  <2> QED BY <1>2, <2>1 DEF ReceiveLow, HolesInv, FullFrom1, observers
<1>3. CASE ReceiveHigh \/ ReceiveTimeout
  BY <1>3 DEF ReceiveHigh, ReceiveTimeout, HolesInv, FullFrom1, observers
<1>4. CASE ReceiveTcMsg
  <2> SUFFICES ASSUME NEW s \in SeqCounts(new_tc_msg_high),
                      RejectChunk(s) \/ AcceptChunk(s) \/ AcceptLastChunk(s)
               PROVE  HolesInv'
    BY <1>4 DEF ReceiveTcMsg
  <2>1. /\ pc = "assemble" /\ low_received' = 0
        /\ UNCHANGED <<tc_buffer, new_tc_msg_low, executed>>
        /\ new_tc_msg_low # Blank
    BY <1>4 DEF ReceiveTcMsg, HolesInv
  <2>2. CASE RejectChunk(s)
    BY <2>1, <2>2 DEF RejectChunk, HolesInv, FullFrom1
  <2>3. /\ tc_sequence_count \in 0 .. Chunks - 2 /\ new_tc_msg_high \in Words
        /\ current_tc \in [Seqs -> Slots]
    BY <2>1 DEF TypeInv, TypeOK, Packets
  <2>4. ASSUME Expected(s), StoreChunk(s)
        PROVE  \A k \in 1 .. s : current_tc'[k] # Blank
    <3>1. /\ s \in Seqs
          /\ (s = 0 /\ tc_sequence_count = 0) \/ s = tc_sequence_count + 1
      BY <2>3, <2>4, ExpectedIsSeq
    <3>2. SUFFICES ASSUME NEW k \in 1 .. s PROVE current_tc'[k] # Blank
      OBVIOUS
    <3>3. k \in Seqs /\ (k = s \/ k \in 1 .. tc_sequence_count)
      BY <2>3, <3>1 DEF Seqs
    <3> QED BY <2>1, <2>3, <2>4, <3>1, <3>3 DEF StoreChunk, HolesInv
  <2>5. CASE AcceptChunk(s)
    BY <2>1, <2>4, <2>5 DEF AcceptChunk, HolesInv, FullFrom1
  <2>6. CASE AcceptLastChunk(s)
    <3>1. s = Chunks - 1
      BY <2>6 DEF AcceptLastChunk, IsLastChunk
    <3>2. \A k \in 1 .. Chunks - 1 : current_tc'[k] # Blank
      BY <2>4, <2>6, <3>1 DEF AcceptLastChunk
    <3>3. FullFrom1(current_tc')
      BY <3>2 DEF FullFrom1, Seqs
    <3>4. tc_sequence_count' = 0 /\ pc' = "store"
      BY <2>6 DEF AcceptLastChunk
    <3> QED BY <2>1, <3>3, <3>4 DEF HolesInv, FullFrom1
  <2> QED BY <2>2, <2>5, <2>6
<1>5. CASE ResetReception
  BY <1>5 DEF ResetReception, HolesInv, FullFrom1, observers
<1>6. CASE StoreCurrentTc
  <2>1. \A n \in DOMAIN tc_buffer' : FullFrom1(tc_buffer'[n])
    <3>1. tc_buffer \in Seq(Packets)
      BY DEF TypeInv, TypeOK
    <3>2. FullFrom1(current_tc) /\ \A n \in DOMAIN tc_buffer : FullFrom1(tc_buffer[n])
      BY <1>6 DEF HolesInv, StoreCurrentTc
    <3>3. tc_buffer' = tc_buffer \/ tc_buffer' = Append(tc_buffer, current_tc)
      BY <1>6 DEF StoreCurrentTc
    <3> QED BY <3>1, <3>2, <3>3
  <2>2. /\ pc' = "service"
        /\ UNCHANGED <<low_received, new_tc_msg_low, tc_sequence_count,
                       current_tc, executed>>
    BY <1>6 DEF StoreCurrentTc, observers
  <2> QED BY <2>1, <2>2 DEF HolesInv, FullFrom1
<1>7. CASE ServiceSkipped
  BY <1>7 DEF ServiceSkipped, LoopTop, HolesInv, FullFrom1, observers, TypeInv, TypeOK
<1>8. CASE DecodeTelecommand
  <2>1. /\ tc_buffer \in Seq(Packets) /\ tc_buffer # <<>>
        /\ executed \in Seq(Decoded) /\ low_received \in 0 .. 1
    BY <1>8 DEF TypeInv, TypeOK, DecodeTelecommand
  <2>2. /\ \A n \in DOMAIN tc_buffer : FullFrom1(tc_buffer[n])
        /\ \A n \in DOMAIN executed : FullFrom1(executed[n].packet)
    BY DEF HolesInv
  <2>3. \A n \in DOMAIN tc_buffer' : FullFrom1(tc_buffer'[n])
    BY <1>8, <2>1, <2>2, HeadTailProperties DEF DecodeTelecommand
  <2>4. \A n \in DOMAIN executed' : FullFrom1(executed'[n].packet)
    <3>1. FullFrom1(Head(tc_buffer))
      BY <2>1, <2>2
    <3> QED BY <1>8, <2>1, <2>2, <3>1 DEF DecodeTelecommand
  <2> QED BY <1>8, <2>1, <2>3, <2>4 DEF DecodeTelecommand, LoopTop, HolesInv, FullFrom1
<1> QED
  BY <1>1, <1>2, <1>3, <1>4, <1>5, <1>6, <1>7, <1>8 DEF Next, Router

(* Whatever words are dropped and whatever stands in for a header, a packet   *)
(* that the router queues or decodes had all its chunks but the first written *)
(* since current_tc was last cleared.                                         *)
THEOREM HolesNever == Spec => []NoHoles
<1>1. HolesInv => NoHoles
  BY DEF HolesInv, NoHoles, Reconstructed, FullFrom1
<1> QED BY <1>1, TypeInit, TypeNext, HolesInit, HolesNext, PTL DEF Spec

(* Both of these, as TLC checks them.                                        *)
THEOREM UplinkInvariant == Spec => []UplinkInv
BY TypeCorrect, HolesNever, PTL DEF UplinkInv

-----------------------------------------------------------------------------
(* Accounts.                                                                 *)

(* Nothing was acknowledged at the start.                                     *)
LEMMA AckInit == Init => AckInv
BY DEF Init, AckInv, InOrder

(* Every step keeps what was acknowledged accounted for.                      *)
LEMMA AckNext == TypeInv /\ AckInv /\ [Next]_vars => AckInv'
<1> SUFFICES ASSUME TypeInv, AckInv, [Next]_vars PROVE AckInv'
  OBVIOUS
<1>0. /\ tc_buffer \in Seq(Packets) /\ executed \in Seq(Decoded)
      /\ acked \in Seq(Packets) /\ current_tc_fullf \in 0 .. 1
      /\ current_tc \in Packets
  BY DEF TypeInv, TypeOK
<1>1. CASE Coms \/ UNCHANGED vars
  <2>1. UNCHANGED <<pc, current_tc_fullf, current_tc, tc_buffer, executed, acked>>
    BY <1>1 DEF Coms, ComsBegin, ComsAskAgain, AskToStart, ComsSendChunk,
                ComsFinish, ComsAbort, vars, router, observers
  <2> QED BY <2>1 DEF AckInv, InOrder
<1>2. CASE ReceiveLow \/ ReceiveHigh \/ ReceiveTimeout \/ ServiceSkipped
  <2>1. /\ UNCHANGED <<current_tc_fullf, current_tc, tc_buffer, executed, acked>>
        /\ pc' \notin {"store", "reset"}
    BY <1>2 DEF ReceiveLow, ReceiveHigh, ReceiveTimeout, ServiceSkipped, LoopTop,
                observers
  <2> QED BY <2>1 DEF AckInv, InOrder
<1>3. CASE ResetReception
  <2>1. /\ UNCHANGED <<current_tc_fullf, tc_buffer, executed, acked>>
        /\ pc' = "service" /\ current_tc' \in {current_tc, AllBlank}
    BY <1>3 DEF ResetReception, observers
  <2>2. AllBlank' = AllBlank
    BY DEF AllBlank
  <2> QED BY <2>1, <2>2 DEF AckInv, InOrder
<1>4. CASE ReceiveTcMsg
  <2> SUFFICES ASSUME NEW s \in SeqCounts(new_tc_msg_high),
                      RejectChunk(s) \/ AcceptChunk(s) \/ AcceptLastChunk(s)
               PROVE  AckInv'
    BY <1>4 DEF ReceiveTcMsg
  <2>1. UNCHANGED <<tc_buffer, executed>>
    BY <1>4 DEF ReceiveTcMsg
  <2>2. CASE RejectChunk(s)
    <3>1. /\ UNCHANGED <<current_tc_fullf, current_tc, acked>>
          /\ pc' = IF current_tc_fullf = 1 /\ ~TooFarAhead(s)
                     THEN "reset" ELSE "resetAndClear"
      BY <2>2 DEF RejectChunk
    <3> QED BY <2>1, <3>1 DEF AckInv, InOrder
  <2>3. CASE AcceptChunk(s)
    BY <2>1, <2>3 DEF AcceptChunk, AckInv, InOrder
  <2>4. CASE AcceptLastChunk(s)
    <3>1. /\ current_tc_fullf = 0 /\ current_tc_fullf' = 1 /\ StoreChunk(s)
          /\ acked' = Append(acked, current_tc')
      BY <2>4 DEF AcceptLastChunk
    <3>2. /\ Len(acked') = Len(acked) + 1 /\ acked'[Len(acked')] = current_tc'
          /\ \A n \in 1 .. Len(acked) : acked'[n] = acked[n]
      <4> DEFINE p == current_tc'
      <4>1. p \in Packets
        BY <1>0, <3>1 DEF StoreChunk, Packets, Slots, TypeInv, TypeOK
      <4> HIDE DEF p
      <4>2. acked' = Append(acked, p)
        BY <3>1 DEF p
      <4>3. Len(acked') = Len(acked) + 1 /\ acked'[Len(acked')] = p
            /\ \A n \in 1 .. Len(acked) : acked'[n] = acked[n]
        BY <1>0, <4>1, <4>2
      <4> QED BY <4>3 DEF p
    <3>3. Len(acked) = Len(executed) + Len(tc_buffer)
      BY <1>0, <3>1 DEF AckInv, InOrder
    <3>4. Len(executed) \in Nat /\ Len(tc_buffer) \in Nat
      BY <1>0
    <3>5. \A n \in 1 .. Len(executed) : n \in 1 .. Len(acked)
      BY <3>3, <3>4
    <3>6. \A n \in 1 .. Len(tc_buffer) : Len(executed) + n \in 1 .. Len(acked)
      BY <3>3, <3>4
    <3>7. InOrder'
      BY <2>1, <3>1, <3>2, <3>3, <3>4, <3>5, <3>6 DEF AckInv, InOrder
    <3> QED BY <3>1, <3>2, <3>7 DEF AckInv
  <2> QED BY <2>2, <2>3, <2>4
<1>5. CASE StoreCurrentTc
  <2>1. /\ pc = "store" /\ current_tc_fullf = 1 /\ pc' = "service"
        /\ current_tc = acked[Len(acked)]
        /\ UNCHANGED <<current_tc, executed, acked>>
    BY <1>5 DEF StoreCurrentTc, AckInv, observers
  <2>2. CASE Len(tc_buffer) < TcBufferLength
    <3>1. tc_buffer' = Append(tc_buffer, current_tc) /\ current_tc_fullf' = 0
      BY <1>5, <2>2 DEF StoreCurrentTc
    <3>2. /\ Len(tc_buffer') = Len(tc_buffer) + 1
          /\ \A n \in 1 .. Len(tc_buffer) : tc_buffer'[n] = tc_buffer[n]
          /\ tc_buffer'[Len(tc_buffer) + 1] = current_tc
          /\ Len(tc_buffer) \in Nat /\ Len(executed) \in Nat
      BY <1>0, <3>1
    <3>3. \A n \in 1 .. Len(tc_buffer') : n \in 1 .. Len(tc_buffer) \/ n = Len(tc_buffer) + 1
      BY <3>2
    <3>4. Len(acked) = Len(executed) + (Len(tc_buffer) + 1)
      BY <1>0, <2>1, <3>2 DEF AckInv, InOrder
    <3>5. InOrder'
      BY <2>1, <3>1, <3>2, <3>3, <3>4 DEF AckInv, InOrder
    <3> QED BY <2>1, <3>1, <3>5 DEF AckInv
  <2>3. CASE ~(Len(tc_buffer) < TcBufferLength)
    BY <1>5, <2>1, <2>3 DEF StoreCurrentTc, AckInv, InOrder
  <2> QED BY <2>2, <2>3
<1>6. CASE DecodeTelecommand
  <2> DEFINE d == [packet |-> Head(tc_buffer),
                   verdict |-> VerifyTelecommand(Head(tc_buffer))]
             e == Len(executed)
             b == Len(tc_buffer)
  <2>1. /\ tc_buffer # <<>> /\ tc_buffer' = Tail(tc_buffer)
        /\ executed' = Append(executed, d)
        /\ UNCHANGED <<current_tc_fullf, current_tc, acked>>
        /\ pc' \in {"low", "high"}
    BY <1>6 DEF DecodeTelecommand, LoopTop
  <2>2. /\ b \in Nat /\ b >= 1 /\ e \in Nat
        /\ Len(tc_buffer') = b - 1 /\ d.packet = tc_buffer[1]
        /\ \A n \in 1 .. b - 1 : tc_buffer'[n] = tc_buffer[n + 1]
    BY <1>0, <2>1, EmptySeq
  <2>3. /\ Len(executed') = e + 1 /\ executed'[e + 1] = d
        /\ \A n \in 1 .. e : executed'[n] = executed[n]
    <3> HIDE DEF d
    <3> QED BY <1>0, <2>1
  <2> HIDE DEF d, e, b
  <2>4. /\ Len(acked) = e + b + current_tc_fullf
        /\ \A n \in 1 .. e : acked[n] = executed[n].packet
        /\ \A n \in 1 .. b : acked[e + n] = tc_buffer[n]
    BY DEF AckInv, InOrder, e, b
  <2>5. \A n \in 1 .. e + 1 : acked[n] = executed'[n].packet
    <3>1. \A n \in 1 .. e + 1 : n \in 1 .. e \/ n = e + 1
      BY <2>2
    <3>2. acked[e + 1] = tc_buffer[1]
      BY <2>2, <2>4
    <3> QED BY <2>2, <2>3, <2>4, <3>1, <3>2
  <2>6. \A n \in 1 .. b - 1 : acked[e + 1 + n] = tc_buffer'[n]
    <3>1. \A n \in 1 .. b - 1 : n + 1 \in 1 .. b /\ e + 1 + n = e + (n + 1)
      BY <2>2
    <3> QED BY <2>2, <2>4, <3>1
  <2>7. Len(acked) = (e + 1) + (b - 1) + current_tc_fullf
    BY <1>0, <2>2, <2>4
  <2>8. InOrder'
    BY <2>1, <2>2, <2>3, <2>5, <2>6, <2>7 DEF InOrder
  <2> QED BY <2>1, <2>8 DEF AckInv, AllBlank
<1> QED
  BY <1>1, <1>2, <1>3, <1>4, <1>5, <1>6 DEF Next, Router

(* A packet that found tc_buffer full blocks reception for good.              *)
THEOREM FullBufferBlocks == Spec => BlockedForGood
<1> DEFINE Kept == /\ Blocked'
                   /\ acked' = acked
                   /\ com'.state = "sending" => com.state = "sending"
<1>1. TypeInv /\ [Next]_vars => [Blocked => Kept]_vars
  <2> SUFFICES ASSUME TypeInv, Next, Blocked PROVE Kept
    OBVIOUS
  <2>0. current_tc_fullf = 1 /\ pc # "store"
    BY DEF Blocked
  <2>1. ASSUME NEW a, AskToStart(a) PROVE Kept
    BY <2>0, <2>1 DEF AskToStart, StartTcPacket, Blocked, router, observers
  <2>2. CASE ComsBegin \/ ComsAskAgain
    BY <2>1, <2>2 DEF ComsBegin, ComsAskAgain
  <2>3. CASE ComsSendChunk
    BY <2>0, <2>3 DEF ComsSendChunk, Blocked, router
  <2>4. CASE ComsFinish \/ ComsAbort
    <3>1. com'.state = "idle"
      BY <2>4 DEF ComsFinish, ComsAbort, TypeInv, TypeOK
    <3>2. UNCHANGED <<current_tc_fullf, pc, acked>>
      BY <2>4 DEF ComsFinish, ComsAbort, router, observers
    <3> QED BY <2>0, <3>1, <3>2 DEF Blocked
  <2>5. CASE ReceiveLow \/ ReceiveHigh \/ ReceiveTimeout \/ ResetReception
    BY <2>0, <2>5 DEF ReceiveLow, ReceiveHigh, ReceiveTimeout, ResetReception,
                      Blocked, observers
  <2>6. CASE ReceiveTcMsg
    <3> SUFFICES ASSUME NEW s \in SeqCounts(new_tc_msg_high), RejectChunk(s)
                 PROVE  Kept
      BY <2>0, <2>6 DEF ReceiveTcMsg, AcceptChunk, AcceptLastChunk
    <3>1. /\ UNCHANGED <<current_tc_fullf, acked>>
          /\ pc' \in {"reset", "resetAndClear"}
      BY DEF RejectChunk
    <3>2. com'.state = com.state
      BY DEF RejectChunk, Respond, TypeInv, TypeOK
    <3> QED BY <2>0, <3>1, <3>2 DEF Blocked
  <2>7. CASE ServiceSkipped \/ DecodeTelecommand
    BY <2>0, <2>7 DEF ServiceSkipped, DecodeTelecommand, LoopTop, Blocked, observers
  <2>8. CASE StoreCurrentTc
    BY <2>0, <2>8 DEF StoreCurrentTc
  <2> QED
    BY <2>2, <2>3, <2>4, <2>5, <2>6, <2>7, <2>8 DEF Next, Coms, Router
<1> QED BY <1>1, TypeInit, TypeNext, PTL DEF Spec, BlockedForGood

-----------------------------------------------------------------------------
(* Transfers are never mixed.                                                *)

(* COMS has begun nothing at the start.                                       *)
LEMMA ComInit == Init => ComInv
BY ConstantsOK DEF Init, ComInv

(* Every step keeps COMS at a chunk of its transfer.                          *)
LEMMA ComNext == TypeInv /\ ComInv /\ [Next]_vars => ComInv'
<1> SUFFICES ASSUME TypeInv, ComInv, [Next]_vars PROVE ComInv'
  OBVIOUS
<1> USE ConstantsOK DEF ComInv
<1>0. com \in [state : {"idle", "asking", "sending", "sent"}, att : Nat,
               next : Seqs, resp : {NoResp, RespOK, RespFailed}]
  BY DEF TypeInv, TypeOK
<1>1. CASE ComsBegin \/ ComsAskAgain
  BY <1>0, <1>1 DEF ComsBegin, ComsAskAgain, AskToStart
<1>2. CASE ComsSendChunk \/ ComsFinish \/ ComsAbort
  BY <1>0, <1>2 DEF ComsSendChunk, ComsFinish, ComsAbort
<1>3. CASE ReceiveTcMsg
  <2>1. com' \in {com, [com EXCEPT !.resp = RespOK], [com EXCEPT !.resp = RespFailed]}
    BY <1>3 DEF ReceiveTcMsg, RejectChunk, AcceptChunk, AcceptLastChunk, Respond
  <2> QED BY <1>0, <2>1
<1>4. CASE UNCHANGED com
  BY <1>4
<1> QED
  BY <1>1, <1>2, <1>3, <1>4
  DEF Next, Coms, Router, ReceiveLow, ReceiveHigh, ReceiveTimeout, ResetReception,
      StoreCurrentTc, ServiceSkipped, DecodeTelecommand, vars

(* The last word COMS sent stays the last one as long as it sends no other.  *)
LEMMA LatestKept ==
  ASSUME TypeInv, ComInv, [Next]_vars, ~ComsSendChunk, NEW v \in Words, Latest(v)
  PROVE  Latest(v)'
<1> USE DEF Latest
<1>0. /\ com \in [state : {"idle", "asking", "sending", "sent"}, att : Nat,
                  next : Seqs, resp : {NoResp, RespOK, RespFailed}]
      /\ v.att \in Nat
  BY DEF TypeInv, TypeOK, Words
<1>1. CASE ComsBegin \/ ComsAskAgain
  BY <1>0, <1>1 DEF ComsBegin, ComsAskAgain, AskToStart, ComInv
<1>2. CASE ComsFinish \/ ComsAbort
  BY <1>0, <1>2 DEF ComsFinish, ComsAbort
<1>3. CASE ReceiveTcMsg
  <2>1. com' \in {com, [com EXCEPT !.resp = RespOK], [com EXCEPT !.resp = RespFailed]}
    BY <1>3 DEF ReceiveTcMsg, RejectChunk, AcceptChunk, AcceptLastChunk, Respond
  <2> QED BY <1>0, <2>1
<1>4. CASE UNCHANGED com
  BY <1>4
<1> QED
  BY <1>1, <1>2, <1>3, <1>4
  DEF Next, Coms, Router, ReceiveLow, ReceiveHigh, ReceiveTimeout, ResetReception,
      StoreCurrentTc, ServiceSkipped, DecodeTelecommand, vars

(* There is no word at the start.                                             *)
LEMMA TransferInit == Init => TransferInv
<1> SUFFICES ASSUME Init PROVE TransferInv
  OBVIOUS
<1>1. ComInv
  BY ComInit
<1>2. ChainInv
  BY DEF Init, ChainInv, LastTaken
<1>3. RegisterInv /\ AssemblyInv
  BY DEF Init, RegisterInv, AssemblyInv
<1> QED BY <1>1, <1>2, <1>3 DEF TransferInv, Linked

(* The types that the steps below need.                                      *)
LEMMA LinkTypes ==
  ASSUME TypeInv
  PROVE  /\ tc_msg_fifo \in Seq(Words)
         /\ \A n \in 1 .. Len(tc_msg_fifo) : tc_msg_fifo[n] \in Words
         /\ new_tc_msg_low \in Words \cup {Blank}
         /\ new_tc_msg_high \in Words \cup {Blank}
         /\ Blank \notin Words
         /\ current_tc \in [Seqs -> Slots]
         /\ tc_sequence_count \in 0 .. Chunks - 2
         /\ tc_buffer \in Seq(Packets) /\ executed \in Seq(Decoded)
BY ConstantsOK DEF TypeInv, TypeOK, Packets, Slots

(* The ends of the chain when nothing is put in or taken out.                *)
LEMMA ChainKept ==
  ASSUME TypeInv, ComInv, ChainInv, [Next]_vars, ~ComsSendChunk,
         UNCHANGED tc_msg_fifo, LastTaken' = LastTaken
  PROVE  ChainInv'
<1>1. \A v \in Words : Latest(v) => Latest(v)'
  BY LatestKept
<1>2. LastTaken \in Words \cup {Blank}
  BY LinkTypes DEF LastTaken
<1>3. tc_msg_fifo # <<>> => Latest(tc_msg_fifo[Len(tc_msg_fifo)])'
  <2>1. tc_msg_fifo # <<>> => tc_msg_fifo[Len(tc_msg_fifo)] \in Words
    BY LinkTypes
  <2> QED BY <1>1, <2>1 DEF ChainInv, Latest
<1>4. tc_msg_fifo = <<>> /\ LastTaken # Blank => Latest(LastTaken)'
  BY <1>1, <1>2 DEF ChainInv, Latest
<1> QED BY <1>3, <1>4 DEF ChainInv, Adjacent, Follows

(* What COMS does on its own leaves the packets linked to the transfers.      *)
LEMMA LinkedByComs ==
  ASSUME TypeInv, ComInv, Linked, [Next]_vars, ~ComsSendChunk,
         UNCHANGED <<tc_msg_fifo, current_tc_fullf, router, tc_buffer, executed>>
  PROVE  Linked'
<1>1. ChainInv'
  BY ChainKept DEF Linked, LastTaken, router
<1>2. RegisterInv' /\ AssemblyInv'
  BY DEF Linked, RegisterInv, AssemblyInv, router, Consistent, Follows, SameTransfer
<1> QED BY <1>1, <1>2 DEF Linked

(* So does a chunk that is put on the bus without loss.                       *)
LEMMA LinkedBySend ==
  ASSUME TypeInv, ComInv, Linked, ComsSendChunk, lost' = 0
  PROVE  Linked'
<1> DEFINE low == LowWord(com.att, com.next)
           high == HighWord(com.att, com.next)
           n == Len(tc_msg_fifo)
<1>0. /\ com.state = "sending" /\ com.att \in Attempts /\ com.next \in Seqs
      /\ com.att \in Nat
  BY DEF ComsSendChunk, TypeInv, TypeOK, ComInv, Attempts
<1>1. low \in Words /\ high \in Words /\ n \in Nat
  BY <1>0, WordTypes, LinkTypes
<1>2. tc_msg_fifo' = Append(Append(tc_msg_fifo, low), high)
  <2>1. n + 2 <= TcMsgFifoLength
    BY <1>1, ConstantsOK DEF ComsSendChunk, SendTcFromISR
  <2>2. PushFromISR(tc_msg_fifo, low) = Append(tc_msg_fifo, low)
    BY <1>1, <2>1, ConstantsOK DEF PushFromISR
  <2>3. Len(Append(tc_msg_fifo, low)) = n + 1
    BY <1>1, LinkTypes
  <2> QED BY <1>1, <2>1, <2>2, <2>3, ConstantsOK DEF PushFromISR, ComsSendChunk, SendTcFromISR
<1>3. /\ tc_msg_fifo' # <<>> /\ Len(tc_msg_fifo') = n + 2
      /\ \A j \in 1 .. n : tc_msg_fifo'[j] = tc_msg_fifo[j]
      /\ tc_msg_fifo'[n + 1] = low /\ tc_msg_fifo'[n + 2] = high
  BY <1>1, <1>2, LinkTypes
<1>4. ASSUME NEW v \in Words, Latest(v) PROVE Adjacent(v, low)
  BY <1>0, <1>4 DEF Latest, Adjacent, Follows, LowWord, Words, Seqs
<1>5. Adjacent(low, high) /\ low.half = "low" /\ low.att \in Attempts /\ high.att \in Attempts
  BY <1>0 DEF Adjacent, LowWord, HighWord
<1>6. \A v \in Words : v = high => Latest(v)'
  <2>1. /\ com'.att = com.att /\ com'.next = (com.next + 1) % Chunks
        /\ com'.state = IF com.next = Chunks - 1 THEN "sent" ELSE com.state
    BY DEF ComsSendChunk, TypeInv, TypeOK
  <2>2. com.next # Chunks - 1 => (com.next + 1) % Chunks = com.next + 1
    BY <1>0, ConstantsOK DEF Seqs
  <2> QED BY <1>0, <2>1, <2>2 DEF Latest, HighWord, Seqs
<1>7. LastTaken' = LastTaken /\ LastTaken \in Words \cup {Blank}
  BY LinkTypes DEF LastTaken, ComsSendChunk, router
<1>8. ChainInv'
  <2>1. \A j \in 1 .. Len(tc_msg_fifo') : tc_msg_fifo'[j].att \in Attempts
    BY <1>1, <1>3, <1>5 DEF Linked, ChainInv
  <2>2. ASSUME NEW j \in 1 .. Len(tc_msg_fifo') - 1
        PROVE  Adjacent(tc_msg_fifo'[j], tc_msg_fifo'[j + 1])
    <3>1. CASE j \in 1 .. n - 1
      BY <1>1, <1>3, <3>1 DEF Linked, ChainInv
    <3>2. CASE j = n
      <4>1. tc_msg_fifo[n] \in Words /\ Latest(tc_msg_fifo[n])
        BY <1>1, <2>2, <3>2, LinkTypes DEF Linked, ChainInv
      <4> QED BY <1>1, <1>3, <1>4, <2>2, <3>2, <4>1
    <3>3. CASE j = n + 1
      BY <1>1, <1>3, <1>5, <3>3
    <3> QED BY <1>1, <1>3, <2>2, <3>1, <3>2, <3>3
  <2>3. IF LastTaken = Blank THEN tc_msg_fifo'[1].half = "low"
                             ELSE Adjacent(LastTaken, tc_msg_fifo'[1])
    <3>1. CASE n = 0
      <4>1. tc_msg_fifo = <<>> /\ tc_msg_fifo'[1] = low
        BY <1>3, <3>1, LinkTypes
      <4> QED BY <1>4, <1>5, <1>7, <4>1 DEF Linked, ChainInv
    <3>2. CASE n # 0
      BY <1>1, <1>3, <3>2, LinkTypes DEF Linked, ChainInv
    <3> QED BY <3>1, <3>2
  <2>4. Latest(tc_msg_fifo[Len(tc_msg_fifo)])'
    BY <1>1, <1>3, <1>6 DEF Latest
  <2>5. \A j \in 1 .. Len(tc_msg_fifo') - 1 :
          Adjacent(tc_msg_fifo[j], tc_msg_fifo[j + 1])'
    BY <2>2 DEF Adjacent, Follows
  <2>6. IF LastTaken' = Blank THEN tc_msg_fifo'[1].half = "low"
                              ELSE Adjacent(LastTaken, tc_msg_fifo[1])'
    BY <1>7, <2>3 DEF Adjacent, Follows
  <2> QED BY <1>3, <2>1, <2>4, <2>5, <2>6 DEF ChainInv
<1>9. RegisterInv' /\ AssemblyInv'
  BY DEF ComsSendChunk, Linked, RegisterInv, AssemblyInv, router, Consistent,
         Follows, SameTransfer
<1> QED BY <1>8, <1>9 DEF Linked

(* The word at the head of the queue moves into a register.                  *)
LEMMA ChainTaken ==
  ASSUME TypeInv, ComInv, ChainInv, [Next]_vars, ~ComsSendChunk,
         tc_msg_fifo # <<>>, tc_msg_fifo' = Tail(tc_msg_fifo),
         LastTaken' = Head(tc_msg_fifo)
  PROVE  ChainInv'
<1> DEFINE n == Len(tc_msg_fifo)
<1>0. /\ n \in Nat \ {0}
      /\ \A j \in 1 .. n : tc_msg_fifo[j] \in Words
  BY LinkTypes
<1>1. /\ Len(tc_msg_fifo') = n - 1
      /\ \A j \in 1 .. n - 1 : tc_msg_fifo'[j] = tc_msg_fifo[j + 1]
      /\ LastTaken' = tc_msg_fifo[1] /\ LastTaken' # Blank
      /\ tc_msg_fifo' = <<>> <=> n = 1
  <2>1. tc_msg_fifo \in Seq(Words) /\ Blank \notin Words
    BY LinkTypes
  <2>2. /\ tc_msg_fifo' \in Seq(Words) /\ Len(tc_msg_fifo') = n - 1
        /\ \A j \in 1 .. n - 1 : tc_msg_fifo'[j] = tc_msg_fifo[j + 1]
    BY <2>1
  <2>3. LastTaken' = tc_msg_fifo[1] /\ LastTaken' # Blank
    BY <1>0, <2>1
  <2>4. tc_msg_fifo' = <<>> <=> Len(tc_msg_fifo') = 0
    BY <2>2, EmptySeq
  <2> QED BY <1>0, <2>2, <2>3, <2>4
<1>2. Latest(tc_msg_fifo[n]) /\ tc_msg_fifo[n] \in Words
  BY <1>0 DEF ChainInv
<1>3. \A v \in Words : Latest(v) => Latest(v)'
  BY LatestKept
<1>4. n # 1 => Latest(tc_msg_fifo[Len(tc_msg_fifo)])'
  BY <1>0, <1>1, <1>2, <1>3 DEF Latest
<1>5. n = 1 => Latest(LastTaken)'
  BY <1>0, <1>1, <1>2, <1>3 DEF Latest
<1>6. n # 1 => Adjacent(LastTaken, tc_msg_fifo[1])'
  BY <1>0, <1>1 DEF ChainInv, Adjacent, Follows
<1>7. \A j \in 1 .. Len(tc_msg_fifo') : tc_msg_fifo'[j].att \in Attempts
  BY <1>0, <1>1 DEF ChainInv
<1>8. \A j \in 1 .. Len(tc_msg_fifo') - 1 : Adjacent(tc_msg_fifo[j], tc_msg_fifo[j + 1])'
  BY <1>0, <1>1 DEF ChainInv, Adjacent, Follows
<1> QED BY <1>1, <1>4, <1>5, <1>6, <1>7, <1>8 DEF ChainInv

(* So does the arrival of a low word.                                         *)
LEMMA LinkedByReceiveLow ==
  ASSUME TypeInv, HolesInv, ComInv, Linked, ReceiveLow
  PROVE  Linked'
<1>1. /\ pc = "low" /\ low_received = 0 /\ tc_msg_fifo # <<>>
      /\ LastTaken = new_tc_msg_high
      /\ tc_msg_fifo[1] \in Words /\ Head(tc_msg_fifo) = tc_msg_fifo[1]
  BY LinkTypes DEF ReceiveLow, HolesInv, LastTaken
<1>2. /\ pc' = "high" /\ low_received' = 1
      /\ new_tc_msg_low' = tc_msg_fifo[1] /\ LastTaken' = Head(tc_msg_fifo)
      /\ UNCHANGED <<new_tc_msg_high, current_tc_fullf, tc_sequence_count,
                     current_tc, tc_buffer, executed>>
  BY <1>1 DEF ReceiveLow, LastTaken, observers
<1>3. [Next]_vars /\ ~ComsSendChunk
  BY DEF Next, Router, ReceiveLow, ComsSendChunk, router
<1>4. ChainInv'
  BY <1>1, <1>2, <1>3, ChainTaken DEF ReceiveLow, Linked
<1>5. /\ tc_msg_fifo[1].half = "low" /\ tc_msg_fifo[1].att \in Attempts
      /\ new_tc_msg_high # Blank => Follows(new_tc_msg_high, tc_msg_fifo[1])
  BY <1>1, LinkTypes DEF Linked, ChainInv, RegisterInv, Adjacent
<1>6. RegisterInv'
  BY <1>2, <1>5 DEF Linked, RegisterInv, Follows
<1>7. AssemblyInv'
  BY <1>1, <1>2 DEF Linked, AssemblyInv, Consistent, SameTransfer
<1> QED BY <1>4, <1>6, <1>7 DEF Linked

(* So does the arrival of a high word.                                        *)
LEMMA LinkedByReceiveHigh ==
  ASSUME TypeInv, HolesInv, ComInv, Linked, ReceiveHigh
  PROVE  Linked'
<1> DEFINE w == tc_msg_fifo[1]
<1>1. /\ pc = "high" /\ low_received = 1 /\ tc_msg_fifo # <<>>
      /\ LastTaken = new_tc_msg_low /\ new_tc_msg_low \in Words
      /\ w \in Words /\ Head(tc_msg_fifo) = w
  BY LinkTypes DEF ReceiveHigh, HolesInv, LastTaken
<1>2. /\ pc' = "assemble" /\ new_tc_msg_high' = w /\ LastTaken' = Head(tc_msg_fifo)
      /\ UNCHANGED <<low_received, new_tc_msg_low, current_tc_fullf,
                     tc_sequence_count, current_tc, tc_buffer, executed>>
  BY <1>1 DEF ReceiveHigh, LastTaken, observers
<1>3. [Next]_vars /\ ~ComsSendChunk
  BY DEF Next, Router, ReceiveHigh, ComsSendChunk, router
<1>4. ChainInv'
  BY <1>1, <1>2, <1>3, ChainTaken DEF ReceiveHigh, Linked
<1>5. /\ new_tc_msg_low.half = "low" /\ new_tc_msg_low.att \in Attempts
      /\ new_tc_msg_high # Blank => Follows(new_tc_msg_high, new_tc_msg_low)
  BY <1>1 DEF Linked, RegisterInv
<1>6. Adjacent(new_tc_msg_low, w)
  BY <1>1, LinkTypes DEF Linked, ChainInv
<1>7. /\ w.half = "high" /\ w.att = new_tc_msg_low.att /\ w.seq = new_tc_msg_low.seq
      /\ new_tc_msg_low = LowWord(w.att, w.seq)
  BY <1>1, <1>5, <1>6 DEF Adjacent, LowWord, Words
<1>8. RegisterInv'
  BY <1>1, <1>2, <1>5, <1>7, LinkTypes DEF RegisterInv, LowWord
<1>9. current_tc_fullf = 0 /\ w.seq = tc_sequence_count + 1 =>
        Consistent(w.att, tc_sequence_count)
  <2> SUFFICES ASSUME current_tc_fullf = 0, w.seq = tc_sequence_count + 1
               PROVE  Consistent(w.att, tc_sequence_count)
    OBVIOUS
  <2>1. CASE new_tc_msg_high = Blank
    BY <2>1, ConstantsOK DEF Linked, AssemblyInv, Consistent, AllBlank, Seqs
  <2>2. CASE new_tc_msg_high # Blank
    <3>1. new_tc_msg_high \in Words /\ tc_sequence_count \in Nat
      BY <2>2, LinkTypes
    <3>2. new_tc_msg_high.att = w.att /\ new_tc_msg_high.seq = tc_sequence_count
      BY <1>5, <1>7, <2>2, <3>1 DEF Follows, Words, Seqs
    <3> QED BY <1>1, <2>2, <3>2 DEF Linked, AssemblyInv
  <2> QED BY <2>1, <2>2
<1>10. AssemblyInv'
  BY <1>1, <1>2, <1>9, LinkTypes DEF Linked, AssemblyInv, Consistent, SameTransfer
<1> QED BY <1>4, <1>8, <1>10 DEF Linked

(* So does a timeout, or a service that finds nothing.                        *)
LEMMA LinkedByTimeout ==
  ASSUME TypeInv, HolesInv, ComInv, Linked, ReceiveTimeout \/ ServiceSkipped
  PROVE  Linked'
<1>1. /\ pc \in {"low", "high", "service"} /\ pc' \in {"low", "high", "service"}
      /\ UNCHANGED <<tc_msg_fifo, low_received, new_tc_msg_low, new_tc_msg_high,
                     current_tc_fullf, tc_sequence_count, current_tc, tc_buffer,
                     executed, com>>
  BY DEF ReceiveTimeout, ServiceSkipped, LoopTop, observers
<1>2. ChainInv'
  BY <1>1 DEF Linked, ChainInv, LastTaken, Latest, Adjacent, Follows
<1>3. RegisterInv' /\ AssemblyInv'
  BY <1>1 DEF Linked, RegisterInv, AssemblyInv, Consistent, Follows, SameTransfer
<1> QED BY <1>2, <1>3 DEF Linked

(* receive_tc_msg with words in step: the number looked at is the number of  *)
(* the chunk that the low word belongs to.                                   *)
LEMMA LinkedByReceiveTcMsg ==
  ASSUME TypeInv, HolesInv, ComInv, Linked, ReceiveTcMsg
  PROVE  Linked'
<1> DEFINE h == new_tc_msg_high
<1>1. /\ pc = "assemble" /\ low_received' = 0 /\ h \in Words
      /\ UNCHANGED <<tc_msg_fifo, tc_buffer, new_tc_msg_low, new_tc_msg_high, executed>>
  BY DEF ReceiveTcMsg, TypeInv
<1>2. /\ h.half = "high" /\ h.att \in Attempts /\ h.seq \in Seqs /\ h # Blank
      /\ new_tc_msg_low = LowWord(h.att, h.seq)
  BY <1>1, LinkTypes DEF Linked, RegisterInv, Words
<1>3. PICK s \in SeqCounts(h) : RejectChunk(s) \/ AcceptChunk(s) \/ AcceptLastChunk(s)
  BY DEF ReceiveTcMsg
<1>4. s = h.seq
  BY <1>2, <1>3 DEF SeqCounts
<1>5. [Next]_vars /\ ~ComsSendChunk
  <2>1. pc' # pc
    BY <1>1, <1>3 DEF RejectChunk, AcceptChunk, AcceptLastChunk
  <2> QED BY <2>1 DEF Next, Router, ComsSendChunk, router
<1>6. ChainInv'
  BY <1>1, <1>5, ChainKept DEF LastTaken, Linked
<1>7. pc' # "assemble" /\ RegisterInv'
  <2>1. pc' # "assemble"
    BY <1>3 DEF RejectChunk, AcceptChunk, AcceptLastChunk
  <2> QED BY <1>1, <2>1 DEF Linked, RegisterInv
<1>8. /\ \A n \in DOMAIN tc_buffer : SameTransfer(tc_buffer[n])
      /\ \A n \in DOMAIN executed : SameTransfer(executed[n].packet)
  BY DEF Linked, AssemblyInv
<1>9. ASSUME Expected(s), StoreChunk(s), current_tc_fullf = 0
      PROVE  /\ current_tc'[0] \in {LowWord(h.att, 0), Blank}
             /\ \A k \in 1 .. s : current_tc'[k] = LowWord(h.att, k)
  <2>1. /\ tc_sequence_count \in 0 .. Chunks - 2 /\ current_tc \in [Seqs -> Slots]
        /\ 0 \in Seqs /\ s \in Seqs
    BY <1>2, <1>4, LinkTypes, ConstantsOK DEF Seqs
  <2>2. current_tc' = [current_tc EXCEPT ![s] = LowWord(h.att, s)]
    BY <1>2, <1>4, <1>9 DEF StoreChunk
  <2>3. CASE s = 0
    BY <2>1, <2>2, <2>3
  <2>4. CASE s = tc_sequence_count + 1
    <3>1. Consistent(h.att, tc_sequence_count)
      BY <1>1, <1>4, <1>9, <2>4 DEF Linked, AssemblyInv
    <3>2. current_tc'[0] \in {LowWord(h.att, 0), Blank}
      BY <2>1, <2>2, <2>4, <3>1 DEF Consistent
    <3>3. ASSUME NEW k \in 1 .. s PROVE current_tc'[k] = LowWord(h.att, k)
      <4>1. k \in Seqs /\ (k = s \/ (k # s /\ k \in 1 .. tc_sequence_count))
        BY <2>1, <2>4, ConstantsOK DEF Seqs
      <4> QED BY <2>1, <2>2, <3>1, <4>1 DEF Consistent
    <3> QED BY <3>2, <3>3
  <2> QED BY <1>9, <2>3, <2>4 DEF Expected
<1>10. CASE RejectChunk(s)
  <2>1. /\ pc' \in {"reset", "resetAndClear"}
        /\ UNCHANGED <<tc_sequence_count, current_tc>>
    BY <1>10 DEF RejectChunk
  <2>2. AssemblyInv'
    BY <1>1, <1>2, <1>8, <2>1 DEF AssemblyInv, SameTransfer
  <2> QED BY <1>6, <1>7, <2>2 DEF Linked
<1>11. CASE AcceptChunk(s)
  <2>1. /\ pc' = "service" /\ current_tc_fullf = 0 /\ tc_sequence_count' = s
        /\ Expected(s) /\ StoreChunk(s)
    BY <1>11 DEF AcceptChunk
  <2>2. /\ current_tc'[0] \in {LowWord(h.att, 0), Blank}
        /\ \A k \in 1 .. tc_sequence_count' : current_tc'[k] = LowWord(h.att, k)
    BY <1>9, <2>1
  <2>3. AssemblyInv'
    BY <1>1, <1>2, <1>8, <2>1, <2>2 DEF AssemblyInv, SameTransfer, Consistent
  <2> QED BY <1>6, <1>7, <2>3 DEF Linked
<1>12. CASE AcceptLastChunk(s)
  <2>1. /\ pc' = "store" /\ current_tc_fullf = 0 /\ tc_sequence_count' = 0
        /\ Expected(s) /\ StoreChunk(s) /\ s = Chunks - 1
    BY <1>12 DEF AcceptLastChunk, IsLastChunk
  <2>2. SameTransfer(current_tc)'
    <3>1. /\ current_tc'[0] \in {LowWord(h.att, 0), Blank}
          /\ \A k \in 1 .. Chunks - 1 : current_tc'[k] = LowWord(h.att, k)
      BY <1>9, <2>1
    <3>2. \A k \in Seqs \ {0} : current_tc'[k] = LowWord(h.att, k)
      BY <3>1, ConstantsOK DEF Seqs
    <3> QED BY <1>2, <3>1, <3>2 DEF SameTransfer, Attempts
  <2>3. AssemblyInv'
    BY <1>1, <1>2, <1>4, <1>8, <2>1, <2>2 DEF AssemblyInv, SameTransfer
  <2> QED BY <1>6, <1>7, <2>3 DEF Linked
<1> QED BY <1>3, <1>10, <1>11, <1>12

(* So does the reset of the reception.                                        *)
LEMMA LinkedByReset ==
  ASSUME TypeInv, HolesInv, AckInv, ComInv, Linked, ResetReception
  PROVE  Linked'
<1>1. /\ pc \in {"reset", "resetAndClear"} /\ pc' = "service"
      /\ tc_sequence_count' = 0
      /\ current_tc' = IF pc = "resetAndClear" THEN AllBlank ELSE current_tc
      /\ UNCHANGED <<tc_msg_fifo, low_received, new_tc_msg_low, new_tc_msg_high,
                     current_tc_fullf, tc_buffer, executed, com>>
  BY DEF ResetReception, observers
<1>2. ChainInv'
  BY <1>1 DEF Linked, ChainInv, LastTaken, Latest, Adjacent, Follows
<1>3. RegisterInv'
  BY <1>1 DEF Linked, RegisterInv, Follows
<1>4. current_tc_fullf = 0 => \A a : Consistent(a, 0)'
  BY <1>1, ConstantsOK DEF AckInv, Consistent, AllBlank, Seqs
<1>5. AssemblyInv'
  BY <1>1, <1>4 DEF Linked, AssemblyInv, SameTransfer, Consistent
<1> QED BY <1>2, <1>3, <1>5 DEF Linked

(* So does the store of a packet that is complete.                            *)
LEMMA LinkedByStore ==
  ASSUME TypeInv, HolesInv, ComInv, Linked, StoreCurrentTc
  PROVE  Linked'
<1>1. /\ pc = "store" /\ pc' = "service"
      /\ UNCHANGED <<tc_msg_fifo, low_received, new_tc_msg_low, new_tc_msg_high,
                     tc_sequence_count, current_tc, executed, com>>
      /\ tc_buffer' = tc_buffer \/ tc_buffer' = Append(tc_buffer, current_tc)
  BY DEF StoreCurrentTc, observers
<1>2. ChainInv'
  BY <1>1 DEF Linked, ChainInv, LastTaken, Latest, Adjacent, Follows
<1>3. RegisterInv'
  BY <1>1 DEF Linked, RegisterInv, Follows
<1>4. /\ SameTransfer(current_tc) /\ tc_sequence_count = 0
      /\ new_tc_msg_high # Blank /\ new_tc_msg_high.seq = Chunks - 1
      /\ Chunks - 1 # 0
  BY <1>1, ConstantsOK DEF Linked, AssemblyInv
<1>5. \A n \in DOMAIN tc_buffer' : SameTransfer(tc_buffer'[n])
  <2>1. tc_buffer \in Seq(Packets) /\ \A n \in DOMAIN tc_buffer : SameTransfer(tc_buffer[n])
    BY LinkTypes DEF Linked, AssemblyInv
  <2> QED BY <1>1, <1>4, <2>1
<1>6. AssemblyInv'
  BY <1>1, <1>4, <1>5 DEF Linked, AssemblyInv, SameTransfer
<1> QED BY <1>2, <1>3, <1>6 DEF Linked

(* So does the decoding of a packet.                                          *)
LEMMA LinkedByDecode ==
  ASSUME TypeInv, HolesInv, ComInv, Linked, DecodeTelecommand
  PROVE  Linked'
<1>1. /\ pc = "service" /\ pc' \in {"low", "high"}
      /\ pc' = "low" <=> low_received # 1
      /\ tc_buffer # <<>> /\ tc_buffer' = Tail(tc_buffer)
      /\ UNCHANGED <<tc_msg_fifo, low_received, new_tc_msg_low, new_tc_msg_high,
                     current_tc_fullf, tc_sequence_count, current_tc, com>>
  BY DEF DecodeTelecommand, LoopTop
<1>2. ChainInv'
  BY <1>1 DEF Linked, ChainInv, LastTaken, Latest, Adjacent, Follows
<1>3. RegisterInv'
  BY <1>1 DEF Linked, RegisterInv, Follows
<1>4. /\ tc_buffer \in Seq(Packets) /\ executed \in Seq(Decoded)
      /\ \A n \in DOMAIN tc_buffer : SameTransfer(tc_buffer[n])
      /\ \A n \in DOMAIN executed : SameTransfer(executed[n].packet)
  BY LinkTypes DEF Linked, AssemblyInv
<1>5. \A n \in DOMAIN tc_buffer' : SameTransfer(tc_buffer'[n])
  BY <1>1, <1>4, HeadTailProperties
<1>6. \A n \in DOMAIN executed' : SameTransfer(executed'[n].packet)
  <2>1. SameTransfer(Head(tc_buffer))
    BY <1>1, <1>4
  <2> QED BY <1>4, <2>1 DEF DecodeTelecommand
<1>7. AssemblyInv'
  BY <1>1, <1>5, <1>6 DEF Linked, AssemblyInv, SameTransfer, Consistent
<1> QED BY <1>2, <1>3, <1>7 DEF Linked

(* Every step keeps the words in one chain while no word was dropped.         *)
LEMMA TransferNext ==
  TypeInv /\ HolesInv /\ AckInv /\ TransferInv /\ [Next]_vars => TransferInv'
<1> SUFFICES ASSUME TypeInv, HolesInv, AckInv, ComInv, lost = 0 => Linked,
                    [Next]_vars, lost' = 0
             PROVE  Linked'
  BY ComNext DEF TransferInv
<1>1. lost = 0
  BY DEF Next, Coms, Router, ComsBegin, ComsAskAgain, AskToStart, ComsSendChunk,
         SendTcFromISR, ComsFinish, ComsAbort, ReceiveLow, ReceiveHigh,
         ReceiveTimeout, ReceiveTcMsg, ResetReception, StoreCurrentTc,
         ServiceSkipped, DecodeTelecommand, observers, vars
<1>2. Linked
  BY <1>1
<1>3. CASE ComsSendChunk
  BY <1>2, <1>3, LinkedBySend
<1>4. CASE ~ComsSendChunk /\ (Coms \/ UNCHANGED vars)
  <2>1. UNCHANGED <<tc_msg_fifo, current_tc_fullf, router, tc_buffer, executed>>
    BY <1>4 DEF Coms, ComsBegin, ComsAskAgain, AskToStart, ComsFinish, ComsAbort,
                vars, observers
  <2> QED BY <1>2, <1>4, <2>1, LinkedByComs
<1>5. CASE Router
  BY <1>2, <1>5, LinkedByReceiveLow, LinkedByReceiveHigh, LinkedByTimeout,
     LinkedByReceiveTcMsg, LinkedByReset, LinkedByStore, LinkedByDecode DEF Router
<1> QED BY <1>3, <1>4, <1>5 DEF Next

(* The sequence control never builds a packet out of two transfers, whatever  *)
(* COMS abandons and begins again, as long as tc_msg_fifo drops no word.      *)
THEOREM TransfersNeverMixed == Spec => []NeverMixed
<1>1. TransferInv => NeverMixed
  BY DEF TransferInv, Linked, AssemblyInv, NeverMixed, Reconstructed
<1> QED
  BY <1>1, TypeInit, TypeNext, HolesInit, HolesNext, AckInit, AckNext,
     TransferInit, TransferNext, PTL DEF Spec

-----------------------------------------------------------------------------
(* The refinement of TcService.  What it rests on: words leave the queue in   *)
(* the order of their transfers, and the low word that closed a packet is at   *)
(* least as late as every packet before it, drops or not.                     *)

Ascending(fifo, a, b) ==
  /\ \A n \in 1 .. Len(fifo) : fifo[n].att \in a .. b
  /\ \A n, m \in 1 .. Len(fifo) : n <= m => fifo[n].att <= fifo[m].att

(* The transfer the last low word came from, 1 before there is one.           *)
Floor == IF new_tc_msg_low = Blank THEN 1 ELSE new_tc_msg_low.att

OrderedInv ==
  /\ new_tc_msg_low # Blank => new_tc_msg_low.att \in 1 .. com.att
  /\ Ascending(tc_msg_fifo, Floor, com.att)
  /\ pc = "store" => /\ new_tc_msg_low # Blank
                     /\ current_tc[Chunks - 1] = new_tc_msg_low
  /\ \A p \in Reconstructed :
       new_tc_msg_low # Blank /\ TransferOf(p) \in 1 .. new_tc_msg_low.att

(* The transfer that packet p stands for has no chunk left to be stored.      *)
Finished(p) ==
  /\ new_tc_msg_high # Blank
  /\ \/ TransferOf(p) < new_tc_msg_high.att
     \/ /\ TransferOf(p) = new_tc_msg_high.att /\ new_tc_msg_high.seq = Chunks - 1
        /\ pc \notin {"assemble", "store"}

OnceInv ==
  lost = 0 => /\ pc = "store" => new_tc_msg_low.att = new_tc_msg_high.att
              /\ \A p \in Reconstructed : Finished(p)

(* A word of the latest transfer may be added at the end.                     *)
LEMMA AscendingPush ==
  ASSUME NEW fifo \in Seq(Words), NEW a \in Nat, NEW b \in Nat, a <= b,
         Ascending(fifo, a, b), NEW w \in Words, w.att = b
  PROVE  Ascending(PushFromISR(fifo, w), a, b)
<1>1. CASE PushFromISR(fifo, w) = fifo
  BY <1>1
<1>2. CASE PushFromISR(fifo, w) = Append(fifo, w)
  <2> DEFINE f == Append(fifo, w)
             k == Len(fifo) + 1
  <2>1. /\ Len(fifo) \in Nat /\ Len(f) = k
        /\ \A n \in 1 .. Len(fifo) : f[n] = fifo[n]
        /\ f[k] = w
    OBVIOUS
  <2> HIDE DEF f
  <2>2. \A n \in 1 .. k : n = k \/ n \in 1 .. Len(fifo)
    BY <2>1
  <2>3. \A n \in 1 .. k : f[n].att \in a .. b
    BY <2>1, <2>2 DEF Ascending
  <2>4. ASSUME NEW n \in 1 .. k, NEW m \in 1 .. k, n <= m
        PROVE  f[n].att <= f[m].att
    <3>1. CASE m = k
      <4>1. f[m].att = b /\ f[n].att \in a .. b
        BY <2>1, <2>3, <3>1
      <4> QED BY <4>1
    <3>2. CASE m # k
      <4>1. n \in 1 .. Len(fifo) /\ m \in 1 .. Len(fifo)
        BY <2>1, <2>4, <3>2
      <4> QED BY <2>1, <2>4, <4>1 DEF Ascending
    <3> QED BY <3>1, <3>2
  <2>5. Ascending(f, a, b)
    BY <2>1, <2>3, <2>4 DEF Ascending
  <2> QED BY <1>2, <2>5 DEF f
<1> QED BY <1>1, <1>2 DEF PushFromISR

(* What is left when the head was taken is no earlier than the head.          *)
LEMMA AscendingTail ==
  ASSUME NEW fifo \in Seq(Words), fifo # <<>>, NEW a \in Nat, NEW b \in Nat,
         Ascending(fifo, a, b)
  PROVE  /\ Head(fifo) \in Words /\ Head(fifo).att \in a .. b
         /\ Ascending(Tail(fifo), Head(fifo).att, b)
         /\ Ascending(Tail(fifo), a, b)
<1> DEFINE f == Tail(fifo)
           k == Len(fifo)
<1>1. /\ k \in Nat /\ k >= 1 /\ Len(f) = k - 1 /\ Head(fifo) = fifo[1]
      /\ \A n \in 1 .. k - 1 : f[n] = fifo[n + 1]
      /\ \A n \in 1 .. k : fifo[n] \in Words
  BY EmptySeq
<1> HIDE DEF f
<1>2. \A n \in 1 .. k - 1 : n + 1 \in 1 .. k /\ 1 <= n + 1
  BY <1>1
<1>3. fifo[1] \in Words /\ fifo[1].att \in a .. b /\ 1 \in 1 .. k
  BY <1>1 DEF Ascending
<1>4. ASSUME NEW n \in 1 .. k - 1
      PROVE  f[n].att \in fifo[1].att .. b /\ f[n].att \in a .. b
  <2>1. fifo[n + 1].att \in a .. b /\ fifo[1].att <= fifo[n + 1].att
    BY <1>2, <1>3 DEF Ascending
  <2> QED BY <1>1, <1>3, <2>1
<1>5. ASSUME NEW n \in 1 .. k - 1, NEW m \in 1 .. k - 1, n <= m
      PROVE  f[n].att <= f[m].att
  <2>1. n + 1 <= m + 1
    BY <1>1, <1>5
  <2> QED BY <1>1, <1>2, <2>1 DEF Ascending
<1>6. Ascending(f, fifo[1].att, b) /\ Ascending(f, a, b)
  BY <1>1, <1>4, <1>5 DEF Ascending
<1> QED BY <1>1, <1>3, <1>6 DEF f

(* A later bound is a bound.                                                  *)
LEMMA AscendingWider ==
  ASSUME NEW fifo, NEW a \in Nat, NEW b \in Nat, NEW c \in Nat, b <= c,
         Ascending(fifo, a, b)
  PROVE  Ascending(fifo, a, c)
<1>1. \A x \in a .. b : x \in a .. c
  OBVIOUS
<1> QED BY <1>1 DEF Ascending

(* Which packets a step adds to the reconstructed ones.                       *)
LEMMA ReconstructedByStore ==
  ASSUME TypeInv, StoreCurrentTc, NEW p \in Reconstructed'
  PROVE  p \in Reconstructed \/ p = current_tc
<1>1. tc_buffer \in Seq(Packets) /\ current_tc \in Packets
  BY DEF TypeInv, TypeOK
<1>2. executed' = executed /\ tc_buffer' \in {tc_buffer, Append(tc_buffer, current_tc)}
  BY DEF StoreCurrentTc, observers
<1>3. \A n \in DOMAIN Append(tc_buffer, current_tc) :
        \/ n \in DOMAIN tc_buffer /\ Append(tc_buffer, current_tc)[n] = tc_buffer[n]
        \/ Append(tc_buffer, current_tc)[n] = current_tc
  BY <1>1
<1> QED BY <1>2, <1>3 DEF Reconstructed

(* Decoding reconstructs nothing.                                             *)
LEMMA ReconstructedByDecode ==
  ASSUME TypeInv, DecodeTelecommand, NEW p \in Reconstructed'
  PROVE  p \in Reconstructed
<1>1. /\ tc_buffer \in Seq(Packets) /\ tc_buffer # <<>> /\ executed \in Seq(Decoded)
      /\ tc_buffer' = Tail(tc_buffer)
  BY DEF TypeInv, TypeOK, DecodeTelecommand
<1>2. \E x : executed' = Append(executed, x) /\ x.packet = Head(tc_buffer)
  BY DEF DecodeTelecommand
<1>3. /\ 1 \in DOMAIN tc_buffer /\ Head(tc_buffer) = tc_buffer[1]
      /\ \A n \in DOMAIN tc_buffer' :
           n + 1 \in DOMAIN tc_buffer /\ tc_buffer'[n] = tc_buffer[n + 1]
  BY <1>1, EmptySeq
<1>4. \A n \in DOMAIN executed' :
        \/ n \in DOMAIN executed /\ executed'[n] = executed[n]
        \/ executed'[n].packet = tc_buffer[1]
  BY <1>1, <1>2, <1>3
<1> QED BY <1>3, <1>4 DEF Reconstructed

(* Every other step leaves the reconstructed packets alone.                   *)
LEMMA ReconstructedKept ==
  ASSUME [Next]_vars, ~StoreCurrentTc, ~DecodeTelecommand
  PROVE  UNCHANGED <<tc_buffer, executed>> /\ Reconstructed' = Reconstructed
<1>1. UNCHANGED <<tc_buffer, executed>>
  BY DEF Next, Coms, Router, ComsBegin, ComsAskAgain, AskToStart, ComsSendChunk,
         ComsFinish, ComsAbort, ReceiveLow, ReceiveHigh, ReceiveTimeout,
         ReceiveTcMsg, ResetReception, ServiceSkipped, observers, vars
<1> QED BY <1>1 DEF Reconstructed

(* COMS never goes back to an earlier transfer.                               *)
LEMMA AttemptsGrow ==
  ASSUME TypeInv, [Next]_vars
  PROVE  com.att \in Nat /\ com'.att \in Nat /\ com.att <= com'.att
<1>0. com \in [state : {"idle", "asking", "sending", "sent"}, att : Nat,
               next : Seqs, resp : {NoResp, RespOK, RespFailed}]
  BY DEF TypeInv, TypeOK
<1>1. CASE ComsBegin \/ ComsAskAgain
  BY <1>0, <1>1 DEF ComsBegin, ComsAskAgain, AskToStart
<1>2. CASE ComsSendChunk \/ ComsFinish \/ ComsAbort
  <2>1. com'.att = com.att
    BY <1>0, <1>2 DEF ComsSendChunk, ComsFinish, ComsAbort
  <2> QED BY <1>0, <2>1
<1>3. CASE ReceiveTcMsg
  <2>1. com' \in {com, [com EXCEPT !.resp = RespOK], [com EXCEPT !.resp = RespFailed]}
    BY <1>3 DEF ReceiveTcMsg, RejectChunk, AcceptChunk, AcceptLastChunk, Respond
  <2> QED BY <1>0, <2>1
<1>4. CASE UNCHANGED com
  BY <1>0, <1>4
<1> QED
  BY <1>1, <1>2, <1>3, <1>4
  DEF Next, Coms, Router, ReceiveLow, ReceiveHigh, ReceiveTimeout, ResetReception,
      StoreCurrentTc, ServiceSkipped, DecodeTelecommand, vars

(* No packet is there at the start.                                           *)
LEMMA OrderedInit == Init => OrderedInv
BY DEF Init, OrderedInv, Ascending, Floor, Reconstructed

(* Every step keeps the packets in the order of their transfers.              *)
LEMMA OrderedNext ==
  ASSUME TypeInv, HolesInv, ComInv, OrderedInv, [Next]_vars
  PROVE  OrderedInv'
<1> DEFINE low == new_tc_msg_low
<1>1. /\ tc_msg_fifo \in Seq(Words) /\ low \in Words \cup {Blank} /\ Blank \notin Words
      /\ com.att \in Nat /\ com'.att \in Nat /\ com.att <= com'.att
  BY LinkTypes, AttemptsGrow
<1>2. Floor \in Nat /\ Floor >= 1 /\ (low # Blank => Floor = low.att /\ Floor \in 1 .. com.att)
  BY <1>1 DEF OrderedInv, Floor
<1>3. Ascending(tc_msg_fifo, Floor, com'.att) /\ Ascending(tc_msg_fifo, Floor, com.att)
  BY <1>1, <1>2, AscendingWider DEF OrderedInv
(* Steps that take no word, complete no packet and store none.                *)
<1>4. ASSUME UNCHANGED <<tc_msg_fifo, low>>, pc' # "store" \/ UNCHANGED <<pc, current_tc>>,
             \A p \in Reconstructed' : p \in Reconstructed
      PROVE  OrderedInv'
  <2>1. Floor' = Floor
    BY <1>4 DEF Floor
  <2>2. Ascending(tc_msg_fifo, Floor, com.att)'
    BY <1>3, <1>4, <2>1 DEF Ascending
  <2>3. low' # Blank => low'.att \in 1 .. com'.att
    BY <1>1, <1>2, <1>4
  <2> QED BY <1>4, <2>2, <2>3 DEF OrderedInv, TransferOf
<1>5. CASE ComsSendChunk
  <2> DEFINE w1 == LowWord(com.att, com.next)
             w2 == HighWord(com.att, com.next)
             f1 == PushFromISR(tc_msg_fifo, w1)
             f2 == PushFromISR(f1, w2)
  <2>1. /\ com.att >= 1 /\ com.next \in Seqs /\ com'.att = com.att
        /\ tc_msg_fifo' = f2
        /\ UNCHANGED <<low, pc, current_tc, tc_buffer, executed>>
    BY <1>5 DEF ComsSendChunk, SendTcFromISR, TypeInv, TypeOK, ComInv, router
  <2>2. w1 \in Words /\ w2 \in Words /\ w1.att = com.att /\ w2.att = com.att
    BY <1>1, <2>1, WordTypes DEF LowWord, HighWord
  <2>3. f1 \in Seq(Words)
    BY <1>1, <2>2, PushTypes DEF TypeInv, TypeOK
  <2>4. Floor <= com.att
    BY <1>2, <2>1 DEF Floor
  <2> HIDE DEF w1, w2
  <2>5. Ascending(f1, Floor, com.att)
    BY <1>1, <1>2, <1>3, <2>2, <2>4, AscendingPush
  <2> HIDE DEF f1
  <2>6. Ascending(f2, Floor, com.att)
    BY <1>1, <1>2, <2>2, <2>3, <2>4, <2>5, AscendingPush
  <2> HIDE DEF f2
  <2>7. Floor' = Floor
    BY <2>1 DEF Floor
  <2>8. Ascending(tc_msg_fifo, Floor, com.att)'
    BY <2>1, <2>6, <2>7 DEF Ascending
  <2>9. Reconstructed' = Reconstructed
    BY <2>1 DEF Reconstructed
  <2> QED BY <2>1, <2>8, <2>9 DEF OrderedInv, TransferOf
<1>6. CASE ReceiveLow \/ ReceiveHigh
  <2>1. /\ tc_msg_fifo # <<>> /\ tc_msg_fifo' = Tail(tc_msg_fifo) /\ com' = com
        /\ pc' # "store" /\ UNCHANGED <<current_tc, tc_buffer, executed>>
    BY <1>6 DEF ReceiveLow, ReceiveHigh, observers
  <2>2. /\ Head(tc_msg_fifo) \in Words /\ Head(tc_msg_fifo).att \in Floor .. com.att
        /\ Ascending(tc_msg_fifo', Head(tc_msg_fifo).att, com.att)
        /\ Ascending(tc_msg_fifo', Floor, com.att)
    BY <1>1, <1>2, <1>3, <2>1, AscendingTail
  <2>3. Reconstructed' = Reconstructed
    BY <2>1 DEF Reconstructed
  <2>4. CASE ReceiveLow
    <3>1. low' = Head(tc_msg_fifo) /\ low' # Blank
      BY <1>1, <2>2, <2>4 DEF ReceiveLow
    <3>2. Floor' = Head(tc_msg_fifo).att
      BY <3>1 DEF Floor
    <3>3. Ascending(tc_msg_fifo, Floor, com.att)'
      BY <2>1, <2>2, <3>2 DEF Ascending
    <3>4. low'.att \in Floor .. com.att
      BY <2>2, <3>1
    <3>5. low'.att \in 1 .. com'.att
      BY <1>2, <2>1, <3>4
    <3>6. \A p \in Reconstructed' : TransferOf(p) \in 1 .. low'.att
      <4> SUFFICES ASSUME NEW p \in Reconstructed PROVE TransferOf(p) \in 1 .. low'.att
        BY <2>3
      <4>1. TransferOf(p) \in 1 .. Floor
        BY <1>2 DEF OrderedInv
      <4> QED BY <1>1, <1>2, <3>4, <4>1
    <3> QED BY <2>1, <3>1, <3>3, <3>5, <3>6 DEF OrderedInv, TransferOf
  <2>5. CASE ReceiveHigh
    <3>1. low' = low
      BY <2>5 DEF ReceiveHigh
    <3>2. Floor' = Floor
      BY <3>1 DEF Floor
    <3>3. Ascending(tc_msg_fifo, Floor, com.att)'
      BY <2>1, <2>2, <3>2 DEF Ascending
    <3> QED BY <2>1, <2>3, <3>1, <3>3 DEF OrderedInv, TransferOf
  <2> QED BY <1>6, <2>4, <2>5
<1>7. CASE ReceiveTcMsg
  <2>1. /\ pc = "assemble" /\ Reconstructed' = Reconstructed
        /\ UNCHANGED <<tc_msg_fifo, low>>
    BY <1>7 DEF ReceiveTcMsg, Reconstructed
  <2>2. PICK s \in SeqCounts(new_tc_msg_high) :
               RejectChunk(s) \/ AcceptChunk(s) \/ AcceptLastChunk(s)
    BY <1>7 DEF ReceiveTcMsg
  <2>3. CASE RejectChunk(s) \/ AcceptChunk(s)
    BY <1>4, <2>1, <2>3 DEF RejectChunk, AcceptChunk
  <2>4. CASE AcceptLastChunk(s)
    <3>1. low # Blank
      BY <2>1 DEF HolesInv
    <3>2. current_tc'[Chunks - 1] = low
      <4>1. current_tc \in [Seqs -> Slots] /\ Chunks - 1 \in Seqs
        BY LinkTypes, ConstantsOK DEF Seqs
      <4> QED BY <2>4, <4>1 DEF AcceptLastChunk, IsLastChunk, StoreChunk
    <3>3. Floor' = Floor
      BY <2>1 DEF Floor
    <3>4. Ascending(tc_msg_fifo, Floor, com.att)'
      BY <1>3, <2>1, <3>3 DEF Ascending
    <3>5. low'.att \in 1 .. com'.att
      BY <1>1, <1>2, <2>1, <3>1
    <3> QED BY <2>1, <3>1, <3>2, <3>4, <3>5 DEF OrderedInv, TransferOf
  <2> QED BY <2>2, <2>3, <2>4
<1>8. CASE StoreCurrentTc
  <2>1. /\ pc = "store" /\ pc' = "service"
        /\ UNCHANGED <<tc_msg_fifo, low, com, current_tc>>
    BY <1>8 DEF StoreCurrentTc
  <2>2. low # Blank /\ TransferOf(current_tc) = low.att /\ low.att \in 1 .. com.att
    BY <2>1 DEF OrderedInv, TransferOf
  <2>3. \A p \in Reconstructed' : TransferOf(p) \in 1 .. low.att
    <3> SUFFICES ASSUME NEW p \in Reconstructed' PROVE TransferOf(p) \in 1 .. low.att
      OBVIOUS
    <3>1. p \in Reconstructed \/ p = current_tc
      BY <1>8, ReconstructedByStore
    <3>2. p \in Reconstructed => TransferOf(p) \in 1 .. low.att
      BY DEF OrderedInv
    <3>3. low.att \in 1 .. low.att
      BY <2>2
    <3> QED BY <2>2, <3>1, <3>2, <3>3
  <2>4. Floor' = Floor
    BY <2>1 DEF Floor
  <2>5. Ascending(tc_msg_fifo, Floor, com.att)'
    BY <1>3, <2>1, <2>4 DEF Ascending
  <2> QED BY <2>1, <2>2, <2>3, <2>5 DEF OrderedInv, TransferOf
<1>9. CASE DecodeTelecommand
  BY <1>4, <1>9, ReconstructedByDecode DEF DecodeTelecommand, LoopTop
<1>10. CASE \/ ComsBegin \/ ComsAskAgain \/ ComsFinish \/ ComsAbort
            \/ ReceiveTimeout \/ ResetReception \/ ServiceSkipped \/ UNCHANGED vars
  <2>1. UNCHANGED <<tc_msg_fifo, low, tc_buffer, executed>>
    BY <1>10 DEF ComsBegin, ComsAskAgain, AskToStart, ComsFinish, ComsAbort,
                 ReceiveTimeout, ResetReception, ServiceSkipped, router, observers, vars
  <2>2. pc' # "store" \/ UNCHANGED <<pc, current_tc>>
    BY <1>10 DEF ComsBegin, ComsAskAgain, AskToStart, ComsFinish, ComsAbort,
                 ReceiveTimeout, ResetReception, ServiceSkipped, LoopTop, router, vars
  <2>3. Reconstructed' = Reconstructed
    BY <2>1 DEF Reconstructed
  <2> QED BY <1>4, <2>1, <2>2, <2>3
<1> QED
  BY <1>5, <1>6, <1>7, <1>8, <1>9, <1>10 DEF Next, Coms, Router

(* No transfer is finished at the start.                                      *)
LEMMA OnceInit == Init => OnceInv
BY DEF Init, OnceInv, Reconstructed

(* While no word is lost, a transfer makes one packet.                        *)
LEMMA OnceNext ==
  ASSUME TypeInv, HolesInv, ComInv, lost = 0 => Linked, OrderedInv, OnceInv, [Next]_vars
  PROVE  OnceInv'
<1> DEFINE low == new_tc_msg_low
           high == new_tc_msg_high
<1> SUFFICES ASSUME lost' = 0
             PROVE  /\ pc' = "store" => low'.att = high'.att
                    /\ \A p \in Reconstructed' : Finished(p)'
  BY DEF OnceInv
<1>1. lost = 0
  BY DEF Next, Coms, Router, ComsBegin, ComsAskAgain, AskToStart, ComsSendChunk,
         SendTcFromISR, ComsFinish, ComsAbort, ReceiveLow, ReceiveHigh,
         ReceiveTimeout, ReceiveTcMsg, ResetReception, StoreCurrentTc,
         ServiceSkipped, DecodeTelecommand, observers, vars
<1>2. /\ Linked
      /\ pc = "store" => low.att = high.att
      /\ \A p \in Reconstructed : Finished(p)
  BY <1>1 DEF OnceInv
<1>3. low \in Words \cup {Blank} /\ high \in Words \cup {Blank} /\ Blank \notin Words
  BY LinkTypes
<1>4. \A p \in Reconstructed : TransferOf(p) \in Nat
  BY DEF OrderedInv
(* Steps that leave the high word alone and are not in the middle of a pair.  *)
<1>5. ASSUME UNCHANGED high, pc' \notin {"assemble", "store"},
             \A p \in Reconstructed' : p \in Reconstructed
      PROVE  \A p \in Reconstructed' : Finished(p)'
  BY <1>2, <1>5 DEF Finished, TransferOf
<1>6. CASE Coms \/ UNCHANGED vars
  <2>1. UNCHANGED <<pc, low, high, tc_buffer, executed>>
    BY <1>6 DEF Coms, ComsBegin, ComsAskAgain, AskToStart, ComsSendChunk,
                ComsFinish, ComsAbort, router, observers, vars
  <2>2. Reconstructed' = Reconstructed
    BY <2>1 DEF Reconstructed
  <2> QED BY <1>2, <2>1, <2>2 DEF Finished, TransferOf
<1>7. CASE ReceiveLow \/ ReceiveTimeout \/ ResetReception \/ ServiceSkipped
  <2>1. /\ UNCHANGED <<high, tc_buffer, executed>>
        /\ pc' \in {"low", "high", "service"}
    BY <1>7 DEF ReceiveLow, ReceiveTimeout, ResetReception, ServiceSkipped,
                LoopTop, observers
  <2>2. Reconstructed' = Reconstructed
    BY <2>1 DEF Reconstructed
  <2> QED BY <1>5, <2>1, <2>2
<1>8. CASE ReceiveHigh
  <2> DEFINE w == tc_msg_fifo[1]
  <2>1. /\ pc = "high" /\ low_received = 1 /\ tc_msg_fifo # <<>>
        /\ LastTaken = low /\ low \in Words
        /\ w \in Words /\ Head(tc_msg_fifo) = w
    BY <1>8, LinkTypes DEF ReceiveHigh, HolesInv, LastTaken
  <2>2. high' = w /\ pc' = "assemble" /\ UNCHANGED <<tc_buffer, executed>>
    BY <1>8, <2>1 DEF ReceiveHigh, observers
  <2>3. Adjacent(low, w)
    BY <1>2, <1>3, <2>1 DEF Linked, ChainInv
  <2>4. low.half = "low" /\ (high # Blank => Follows(high, low))
    BY <1>2, <2>1 DEF Linked, RegisterInv
  <2>5. w.att = low.att
    BY <2>3, <2>4 DEF Adjacent
  <2>6. Reconstructed' = Reconstructed
    BY <2>2 DEF Reconstructed
  <2>7. ASSUME NEW p \in Reconstructed
        PROVE  TransferOf(p) < w.att
    <3>1. Finished(p) /\ high # Blank /\ high \in Words /\ TransferOf(p) \in Nat
      BY <1>2, <1>3, <1>4 DEF Finished
    <3>2. Follows(high, low) /\ high.att \in Nat /\ low.att \in Nat
          /\ high.seq \in Seqs /\ low.seq \in Seqs
      BY <2>1, <2>4, <3>1 DEF Words
    <3>3. CASE TransferOf(p) < high.att
      <4>1. high.att <= low.att
        BY <3>2 DEF Follows
      <4> QED BY <2>5, <3>1, <3>2, <3>3, <4>1
    <3>4. CASE TransferOf(p) = high.att /\ high.seq = Chunks - 1
      <4>1. low.seq # high.seq + 1
        BY <3>2, <3>4, ConstantsOK DEF Seqs
      <4>2. high.att < low.att
        BY <3>2, <4>1 DEF Follows
      <4> QED BY <2>5, <3>4, <4>2
    <3> QED BY <3>1, <3>3, <3>4 DEF Finished
  <2>8. w # Blank
    BY <1>3, <2>1
  <2> QED BY <2>2, <2>6, <2>7, <2>8 DEF Finished, TransferOf
<1>9. CASE ReceiveTcMsg
  <2>1. pc = "assemble" /\ UNCHANGED <<low, high>> /\ Reconstructed' = Reconstructed
    BY <1>9 DEF ReceiveTcMsg, Reconstructed
  <2>2. low.att = high.att
    BY <1>2, <2>1 DEF Linked, RegisterInv, LowWord
  <2>3. \A p \in Reconstructed : high # Blank /\ TransferOf(p) < high.att
    BY <1>2, <2>1 DEF Finished
  <2> QED BY <2>1, <2>2, <2>3 DEF Finished, TransferOf
<1>10. CASE StoreCurrentTc
  <2>1. pc = "store" /\ pc' = "service" /\ UNCHANGED <<low, high>>
    BY <1>10 DEF StoreCurrentTc
  <2>2. high # Blank /\ high.seq = Chunks - 1 /\ TransferOf(current_tc) = high.att
    BY <1>2, <2>1 DEF Linked, AssemblyInv, OrderedInv, TransferOf
  <2>3. ASSUME NEW p \in Reconstructed'
        PROVE  Finished(p)'
    <3>1. p \in Reconstructed \/ p = current_tc
      BY <1>10, <2>3, ReconstructedByStore
    <3>2. TransferOf(p) < high.att \/ TransferOf(p) = high.att
      BY <1>2, <2>2, <3>1 DEF Finished
    <3> QED BY <2>1, <2>2, <3>2 DEF Finished, TransferOf
  <2> QED BY <2>1, <2>3
<1>11. CASE DecodeTelecommand
  <2>1. UNCHANGED high /\ pc' \in {"low", "high"}
    BY <1>11 DEF DecodeTelecommand, LoopTop
  <2> QED BY <1>5, <1>11, <2>1, ReconstructedByDecode
<1> QED
  BY <1>6, <1>7, <1>8, <1>9, <1>10, <1>11 DEF Next, Router

-----------------------------------------------------------------------------
(* The packet that did not fit into tc_buffer.                               *)

(* While no word was dropped, the words that come after that packet belong to *)
(* later transfers.                                                          *)
HeldFrom(a) ==
  /\ a \in Nat /\ new_tc_msg_high # Blank /\ new_tc_msg_high.att <= com.att
  /\ \/ new_tc_msg_high.att > a
     \/ /\ new_tc_msg_high.att = a /\ new_tc_msg_high.seq = Chunks - 1
        /\ pc \notin {"assemble", "reset", "resetAndClear"}
  /\ current_tc = AllBlank => com.att > a

HeldInv ==
  lost = 0 /\ current_tc_fullf = 1 => HeldFrom(TransferOf(acked[Len(acked)]))

(* Nothing is held at the start.                                              *)
LEMMA HeldInit == Init => HeldInv
BY DEF Init, HeldInv

(* Every step keeps the words that follow later than the packet held.         *)
LEMMA HeldNext ==
  ASSUME TypeInv, HolesInv, ComInv, lost = 0 => Linked, OrderedInv, HeldInv,
         [Next]_vars
  PROVE  HeldInv'
<1> DEFINE low == new_tc_msg_low
           high == new_tc_msg_high
           a == TransferOf(acked[Len(acked)])
<1> SUFFICES ASSUME lost' = 0, current_tc_fullf' = 1
             PROVE  HeldFrom(a)'
  BY DEF HeldInv
<1>1. lost = 0
  BY DEF Next, Coms, Router, ComsBegin, ComsAskAgain, AskToStart, ComsSendChunk,
         SendTcFromISR, ComsFinish, ComsAbort, ReceiveLow, ReceiveHigh,
         ReceiveTimeout, ReceiveTcMsg, ResetReception, StoreCurrentTc,
         ServiceSkipped, DecodeTelecommand, observers, vars
<1>2. /\ Linked
      /\ current_tc_fullf = 1 => HeldFrom(a)
  BY <1>1 DEF HeldInv
<1>3. /\ low \in Words \cup {Blank} /\ high \in Words \cup {Blank}
      /\ Blank \notin Words /\ com.att \in Nat /\ com'.att \in Nat
      /\ com.att <= com'.att
  BY LinkTypes, AttemptsGrow
<1>4. \A w \in Words : w.att \in Nat /\ w.seq \in Seqs
  BY DEF Words
(* Steps that read no high word and leave the packet held.                    *)
<1>5. ASSUME UNCHANGED <<high, acked, current_tc_fullf, current_tc>>,
             pc' \notin {"assemble", "reset", "resetAndClear"} \/ pc' = pc
      PROVE  HeldFrom(a)'
  <2>1. HeldFrom(a)
    BY <1>2, <1>5
  <2>2. a' = a /\ AllBlank' = AllBlank
    BY <1>5 DEF TransferOf, AllBlank
  <2>3. high.att \in Nat
    BY <1>3, <1>4, <2>1 DEF HeldFrom
  <2> HIDE DEF a
  <2> QED BY <1>3, <1>5, <2>1, <2>2, <2>3 DEF HeldFrom
<1>6. CASE Coms \/ UNCHANGED vars
  <2>1. UNCHANGED <<pc, high, acked, current_tc_fullf, current_tc>>
    BY <1>6 DEF Coms, ComsBegin, ComsAskAgain, AskToStart, ComsSendChunk,
                ComsFinish, ComsAbort, router, observers, vars
  <2> QED BY <1>5, <2>1
<1>7. CASE ReceiveLow \/ ReceiveTimeout \/ ServiceSkipped \/ DecodeTelecommand
  <2>1. /\ UNCHANGED <<high, acked, current_tc_fullf, current_tc>>
        /\ pc' \in {"low", "high", "service"}
    BY <1>7 DEF ReceiveLow, ReceiveTimeout, ServiceSkipped, DecodeTelecommand,
                LoopTop, observers
  <2> QED BY <1>5, <2>1
<1>8. CASE StoreCurrentTc
  <2>1. /\ UNCHANGED <<high, acked, current_tc_fullf, current_tc>>
        /\ pc' = "service"
    BY <1>8 DEF StoreCurrentTc, observers
  <2> QED BY <1>5, <2>1
<1>9. CASE ReceiveHigh
  <2> DEFINE w == tc_msg_fifo[1]
  <2>1. /\ pc = "high" /\ low_received = 1 /\ tc_msg_fifo # <<>>
        /\ LastTaken = low /\ low \in Words
        /\ w \in Words /\ Head(tc_msg_fifo) = w
    BY <1>9, LinkTypes DEF ReceiveHigh, HolesInv, LastTaken
  <2>2. /\ high' = w /\ pc' = "assemble"
        /\ UNCHANGED <<com, acked, current_tc_fullf, current_tc>>
    BY <1>9, <2>1 DEF ReceiveHigh, observers
  <2>3. Adjacent(low, w)
    BY <1>2, <1>3, <2>1 DEF Linked, ChainInv
  <2>4. HeldFrom(a)
    BY <1>2, <2>2
  <2>5. low.half = "low" /\ Follows(high, low) /\ high \in Words
    BY <1>2, <1>3, <2>1, <2>4 DEF Linked, RegisterInv, HeldFrom
  <2>6. w.att = low.att
    BY <2>3, <2>5 DEF Adjacent
  <2>7. low.att <= com.att
    BY <1>3, <2>1 DEF OrderedInv
  <2>8. /\ high.att \in Nat /\ high.seq \in Seqs
        /\ low.att \in Nat /\ low.seq \in Seqs
    BY <1>4, <2>1, <2>5
  <2> HIDE DEF a, w
  <2>9. low.att > a
    <3>1. CASE high.att > a
      BY <2>4, <2>5, <2>8, <3>1 DEF Follows, HeldFrom
    <3>2. CASE high.att = a /\ high.seq = Chunks - 1
      <4>1. low.seq # high.seq + 1
        BY <2>8, <3>2, ConstantsOK DEF Seqs
      <4> QED BY <2>5, <2>8, <3>2, <4>1 DEF Follows
    <3> QED BY <2>4, <3>1, <3>2 DEF HeldFrom
  <2>10. a' = a /\ AllBlank' = AllBlank
    BY <2>2 DEF a, TransferOf, AllBlank
  <2>11. w # Blank
    BY <1>3, <2>1
  <2> QED
    BY <2>2, <2>4, <2>6, <2>7, <2>9, <2>10, <2>11 DEF HeldFrom
<1>10. CASE ResetReception
  <2>1. /\ pc \in {"reset", "resetAndClear"} /\ pc' = "service"
        /\ UNCHANGED <<high, com, acked, current_tc_fullf>>
    BY <1>10 DEF ResetReception, observers
  <2>2. HeldFrom(a) /\ a' = a
    BY <1>2, <2>1 DEF TransferOf
  <2>3. high.att \in Nat
    BY <1>3, <1>4, <2>2 DEF HeldFrom
  <2> HIDE DEF a
  <2>4. high.att > a /\ com.att > a
    BY <1>3, <2>1, <2>2, <2>3 DEF HeldFrom
  <2> QED BY <2>1, <2>2, <2>4 DEF HeldFrom
<1>11. CASE ReceiveTcMsg
  <2> SUFFICES ASSUME NEW s \in SeqCounts(high),
                      RejectChunk(s) \/ AcceptChunk(s) \/ AcceptLastChunk(s)
               PROVE  HeldFrom(a)'
    BY <1>11 DEF ReceiveTcMsg
  <2>1. pc = "assemble" /\ UNCHANGED <<low, high>>
    BY <1>11 DEF ReceiveTcMsg
  <2>2. /\ high \in Words /\ high.half = "high" /\ high.att \in Nat
        /\ low = LowWord(high.att, high.seq) /\ low.att = high.att /\ low # Blank
        /\ low.att <= com.att
    <3>1. high \in Words /\ high # Blank
      BY <1>3, <2>1 DEF TypeInv
    <3>2. high.half = "high" /\ low = LowWord(high.att, high.seq)
      BY <1>2, <2>1, <3>1 DEF Linked, RegisterInv
    <3>3. low \in Words /\ low # Blank
      BY <1>3, <1>4, <3>1, <3>2, WordTypes
    <3> QED BY <1>3, <1>4, <3>1, <3>2, <3>3 DEF OrderedInv, LowWord
  <2>3. s = high.seq
    BY <2>2 DEF SeqCounts
  <2>4. CASE RejectChunk(s)
    <3>1. UNCHANGED <<acked, current_tc_fullf, current_tc>>
      BY <2>4 DEF RejectChunk
    <3>2. HeldFrom(a) /\ a' = a /\ AllBlank' = AllBlank
      BY <1>2, <3>1 DEF TransferOf, AllBlank
    <3> HIDE DEF a
    <3>3. high.att > a
      BY <2>1, <3>2 DEF HeldFrom
    <3> QED BY <1>3, <2>1, <2>2, <3>1, <3>2, <3>3 DEF HeldFrom
  <2>5. CASE AcceptChunk(s)
    BY <2>5 DEF AcceptChunk
  <2>6. CASE AcceptLastChunk(s)
    <3>1. /\ s = Chunks - 1 /\ StoreChunk(s) /\ pc' = "store"
          /\ acked' = Append(acked, current_tc')
      BY <2>6 DEF AcceptLastChunk, IsLastChunk
    <3>2. current_tc \in [Seqs -> Slots] /\ acked \in Seq(Packets) /\ s \in Seqs
      BY <1>4, <2>2, <2>3 DEF TypeInv, TypeOK, Packets
    <3>3. current_tc'[Chunks - 1] = low
      BY <3>1, <3>2 DEF StoreChunk
    <3>4. acked'[Len(acked')] = current_tc'
      <4> DEFINE p == current_tc'
      <4>1. p \in Packets
        BY <2>2, <3>1, <3>2, <1>3 DEF StoreChunk, Packets, Slots
      <4> HIDE DEF p
      <4>2. acked' = Append(acked, p)
        BY <3>1 DEF p
      <4>3. acked'[Len(acked')] = p
        BY <3>2, <4>1, <4>2
      <4> QED BY <4>3 DEF p
    <3>5. a' = high.att
      BY <2>2, <3>3, <3>4 DEF TransferOf
    <3>6. current_tc' # AllBlank'
      BY <2>2, <3>1, <3>2, <3>3 DEF AllBlank
    <3>7. com'.att >= com.att
      BY <1>3
    <3> HIDE DEF a
    <3> QED BY <1>3, <2>1, <2>2, <2>3, <3>1, <3>5, <3>6, <3>7 DEF HeldFrom
  <2> QED BY <2>4, <2>5, <2>6
<1> QED
  BY <1>6, <1>7, <1>8, <1>9, <1>10, <1>11 DEF Next, Router

(* Every packet that COMS was told is complete is decoded, queued or held      *)
(* whole, in order and with its content, or was wiped out in current_tc, which *)
(* takes a next transfer of COMS or a dropped word.                          *)
THEOREM AckedAccounted == Spec => []AckedAccountedFor
<1> DEFINE AInv == /\ TypeInv /\ HolesInv /\ AckInv /\ TransferInv
                   /\ ComInv /\ OrderedInv /\ HeldInv
<1>1. Init => AInv
  BY TypeInit, HolesInit, AckInit, TransferInit, ComInit, OrderedInit, HeldInit
<1>2. AInv /\ [Next]_vars => AInv'
  BY TypeNext, HolesNext, AckNext, TransferNext, ComNext, OrderedNext, HeldNext
  DEF TransferInv
<1>3. AInv => AckedAccountedFor
  <2> SUFFICES ASSUME AckInv, HeldInv PROVE AckedAccountedFor
    OBVIOUS
  <2>1. Wiped /\ lost = 0 => com.att > TransferOf(acked[Len(acked)])
    <3>1. SUFFICES ASSUME Wiped, lost = 0
                   PROVE  com.att > TransferOf(acked[Len(acked)])
      OBVIOUS
    <3>2. HeldFrom(TransferOf(acked[Len(acked)]))
      BY <3>1 DEF HeldInv, Wiped
    <3> QED BY <3>1, <3>2 DEF HeldFrom, Wiped
  <2> QED BY <2>1 DEF AckInv, InOrder, AckedAccountedFor, Wiped
<1> HIDE DEF AInv
<1> QED BY <1>1, <1>2, <1>3, PTL DEF Spec

-----------------------------------------------------------------------------
(* Lists of packets seen as lists of transfers.                               *)
MapOf(f, s) == [i \in DOMAIN s |-> f[s[i]]]

IsMap(f, s, T) ==
  /\ MapOf(f, s) \in Seq(T) /\ Len(MapOf(f, s)) = Len(s)
  /\ \A i \in 1 .. Len(s) : MapOf(f, s)[i] = f[s[i]]

(* The images of the elements of a list are a list.                           *)
LEMMA MapIsSeq ==
  ASSUME NEW S, NEW T, NEW f \in [S -> T], NEW s \in Seq(S)
  PROVE  IsMap(f, s, T)
<1>1. DOMAIN s = 1 .. Len(s) /\ Len(s) \in Nat /\ \A i \in 1 .. Len(s) : s[i] \in S
  OBVIOUS
<1>2. MapOf(f, s) \in [1 .. Len(s) -> T]
  BY <1>1 DEF MapOf
<1>3. MapOf(f, s) \in Seq(T)
  BY <1>1, <1>2, SeqDef
<1> QED BY <1>1, <1>2, <1>3, LenProperties DEF MapOf, IsMap

(* The images of a list with one more element.                                *)
LEMMA MapAppend ==
  ASSUME NEW S, NEW T, NEW f \in [S -> T], NEW s \in Seq(S), NEW x \in S
  PROVE  MapOf(f, Append(s, x)) = Append(MapOf(f, s), f[x])
<1> DEFINE m == MapOf(f, s)
           sx == Append(s, x)
           mx == MapOf(f, sx)
           k == Len(s)
<1>1. /\ sx \in Seq(S) /\ k \in Nat /\ Len(sx) = k + 1 /\ sx[k + 1] = x
      /\ \A i \in 1 .. k : sx[i] = s[i]
  OBVIOUS
<1>2. m \in Seq(T) /\ Len(m) = k /\ \A i \in 1 .. k : m[i] = f[s[i]]
  <2>1. IsMap(f, s, T)
    BY MapIsSeq
  <2> QED BY <2>1 DEF IsMap
<1>3. mx \in Seq(T) /\ Len(mx) = k + 1 /\ \A i \in 1 .. k + 1 : mx[i] = f[sx[i]]
  <2>1. IsMap(f, sx, T)
    BY <1>1, MapIsSeq
  <2> QED BY <1>1, <2>1 DEF IsMap
<1>4. f[x] \in T
  OBVIOUS
<1> HIDE DEF m, mx, sx
<1>5. /\ Append(m, f[x]) \in Seq(T) /\ Len(Append(m, f[x])) = k + 1
      /\ Append(m, f[x])[k + 1] = f[x]
      /\ \A i \in 1 .. k : Append(m, f[x])[i] = m[i]
  BY <1>2, <1>4, AppendProperties
<1>6. \A i \in 1 .. k + 1 : i = k + 1 \/ i \in 1 .. k
  BY <1>1
<1>7. \A i \in 1 .. k + 1 : mx[i] = Append(m, f[x])[i]
  BY <1>1, <1>2, <1>3, <1>5, <1>6
<1>8. mx = Append(m, f[x])
  BY <1>3, <1>5, <1>7, SeqEqual
<1> QED BY <1>8 DEF m, mx, sx

MapsTail(f, s) ==
  /\ MapOf(f, s) # <<>> /\ Head(MapOf(f, s)) = f[Head(s)]
  /\ MapOf(f, Tail(s)) = Tail(MapOf(f, s))

(* The images of the rest of a list.                                          *)
LEMMA MapTail ==
  ASSUME NEW S, NEW T, NEW f \in [S -> T], NEW s \in Seq(S), s # <<>>
  PROVE  MapsTail(f, s)
<1> DEFINE m == MapOf(f, s)
           st == Tail(s)
           mt == MapOf(f, st)
           k == Len(s)
<1>1. /\ st \in Seq(S) /\ k \in Nat /\ k >= 1 /\ Len(st) = k - 1 /\ Head(s) = s[1]
      /\ \A i \in 1 .. k - 1 : st[i] = s[i + 1]
  BY EmptySeq
<1>2. m \in Seq(T) /\ Len(m) = k /\ \A i \in 1 .. k : m[i] = f[s[i]]
  <2>1. IsMap(f, s, T)
    BY MapIsSeq
  <2> QED BY <2>1 DEF IsMap
<1>3. mt \in Seq(T) /\ Len(mt) = k - 1 /\ \A i \in 1 .. k - 1 : mt[i] = f[st[i]]
  <2>1. IsMap(f, st, T)
    BY <1>1, MapIsSeq
  <2> QED BY <1>1, <2>1 DEF IsMap
<1> HIDE DEF m, mt, st
<1>4. m # <<>>
  BY <1>1, <1>2, EmptySeq
<1>5. /\ Tail(m) \in Seq(T) /\ Len(Tail(m)) = k - 1 /\ Head(m) = m[1]
      /\ \A i \in 1 .. k - 1 : Tail(m)[i] = m[i + 1]
  BY <1>1, <1>2, <1>4
<1>6. 1 \in 1 .. k /\ \A i \in 1 .. k - 1 : i + 1 \in 1 .. k
  BY <1>1
<1>7. \A i \in 1 .. k - 1 : mt[i] = Tail(m)[i]
  <2> SUFFICES ASSUME NEW i \in 1 .. k - 1 PROVE mt[i] = Tail(m)[i]
    OBVIOUS
  <2>1. mt[i] = f[st[i]] /\ st[i] = s[i + 1] /\ Tail(m)[i] = m[i + 1]
    BY <1>1, <1>3, <1>5
  <2>2. m[i + 1] = f[s[i + 1]]
    BY <1>2, <1>6
  <2> QED BY <2>1, <2>2
<1>8. mt = Tail(m)
  BY <1>3, <1>5, <1>7, SeqEqual
<1>9. Head(m) = f[Head(s)]
  BY <1>1, <1>2, <1>5, <1>6
<1> QED BY <1>4, <1>8, <1>9 DEF m, mt, st, MapsTail

TransferFun == [p \in Packets |-> TransferOf(p)]
PacketFun == [d \in Decoded |-> d.packet]
Transfer == {TransferOf(p) : p \in Packets}

(* From a packet to its transfer, and from a decoding to its packet.          *)
LEMMA ListFunctions ==
  /\ TransferFun \in [Packets -> Transfer]
  /\ PacketFun \in [Decoded -> Packets]
  /\ \A p \in Packets : TransferFun[p] = TransferOf(p)
  /\ \A d \in Decoded : PacketFun[d] = d.packet
BY DEF TransferFun, PacketFun, Transfer, Decoded

(* The transfers of a list of packets are its images.                         *)
LEMMA TransfersMapped ==
  ASSUME NEW ps \in Seq(Packets)
  PROVE  TransfersOf(ps) = MapOf(TransferFun, ps)
<1>1. \A i \in DOMAIN ps : ps[i] \in Packets
  OBVIOUS
<1>2. \A i \in DOMAIN ps : TransferFun[ps[i]] = TransferOf(ps[i])
  BY <1>1, ListFunctions
<1> QED BY <1>2 DEF TransfersOf, MapOf

(* The packets that were decoded are the images of the decodings.             *)
LEMMA PacketsMapped ==
  ASSUME TypeInv
  PROVE  /\ ExecutedPackets = MapOf(PacketFun, executed)
         /\ ExecutedPackets \in Seq(Packets)
<1>1. executed \in Seq(Decoded)
  BY DEF TypeInv, TypeOK
<1>2. \A i \in DOMAIN executed : executed[i] \in Decoded
  BY <1>1
<1>3. \A i \in DOMAIN executed : PacketFun[executed[i]] = executed[i].packet
  BY <1>2, ListFunctions
<1>4. ExecutedPackets = MapOf(PacketFun, executed)
  BY <1>3 DEF ExecutedPackets, MapOf
<1>5. IsMap(PacketFun, executed, Packets)
  BY <1>1, ListFunctions, MapIsSeq
<1> QED BY <1>4, <1>5 DEF IsMap

(* The transfers of a list of packets with one more.                          *)
LEMMA TransfersAppend ==
  ASSUME NEW ps \in Seq(Packets), NEW p \in Packets
  PROVE  TransfersOf(Append(ps, p)) = Append(TransfersOf(ps), TransferOf(p))
<1>1. Append(ps, p) \in Seq(Packets)
  OBVIOUS
<1>2. MapOf(TransferFun, Append(ps, p)) = Append(MapOf(TransferFun, ps), TransferFun[p])
  BY ListFunctions, MapAppend
<1> QED BY <1>1, <1>2, TransfersMapped, ListFunctions

(* The transfers of the rest of a list of packets.                            *)
LEMMA TransfersTail ==
  ASSUME NEW ps \in Seq(Packets), ps # <<>>
  PROVE  /\ TransfersOf(ps) # <<>> /\ Head(TransfersOf(ps)) = TransferOf(Head(ps))
         /\ TransfersOf(Tail(ps)) = Tail(TransfersOf(ps))
<1>1. Tail(ps) \in Seq(Packets) /\ Head(ps) \in Packets
  BY HeadTailProperties
<1>2. /\ MapOf(TransferFun, ps) # <<>>
      /\ Head(MapOf(TransferFun, ps)) = TransferFun[Head(ps)]
      /\ MapOf(TransferFun, Tail(ps)) = Tail(MapOf(TransferFun, ps))
  <2>1. MapsTail(TransferFun, ps)
    BY ListFunctions, MapTail
  <2> QED BY <2>1 DEF MapsTail
<1> QED BY <1>1, <1>2, TransfersMapped, ListFunctions

(* No packets have no transfers.                                              *)
LEMMA EmptyList == TransfersOf(<<>>) = <<>>
<1>1. <<>> \in Seq(Packets) /\ Len(<<>>) = 0
  BY EmptySeq
<1>2. IsMap(TransferFun, <<>>, Transfer)
  BY <1>1, ListFunctions, MapIsSeq
<1>3. MapOf(TransferFun, <<>>) \in Seq(Transfer) /\ Len(MapOf(TransferFun, <<>>)) = 0
  BY <1>1, <1>2 DEF IsMap
<1> QED BY <1>1, <1>3, EmptySeq, TransfersMapped

(* The initial state of reception is the initial state of the service.        *)
LEMMA ServiceInit == Init => Service!Init
<1> SUFFICES ASSUME Init PROVE Service!Init
  OBVIOUS
<1>1. tc_buffer = <<>> /\ executed = <<>> /\ lost = 0
  BY DEF Init
<1>2. ExecutedPackets = <<>>
  <2>1. TypeInv
    BY TypeInit
  <2>2. IsMap(PacketFun, executed, Packets) /\ ExecutedPackets = MapOf(PacketFun, executed)
    BY <2>1, ListFunctions, MapIsSeq, PacketsMapped DEF TypeInv, TypeOK
  <2>3. ExecutedPackets \in Seq(Packets) /\ Len(ExecutedPackets) = 0
    BY <1>1, <2>2, EmptySeq DEF IsMap
  <2> QED BY <2>3, EmptySeq
<1> QED BY <1>1, <1>2, EmptyList DEF Service!Init

(* store_current_tc with room in tc_buffer accepts a transfer.                *)
LEMMA StoreAccepts ==
  ASSUME TypeInv, ComInv, OrderedInv, OnceInv, StoreCurrentTc,
         tc_buffer' = Append(tc_buffer, current_tc)
  PROVE  \E t \in Attempts : Service!Accept(t)
<1> DEFINE t == TransferOf(current_tc)
<1>1. /\ pc = "store" /\ executed' = executed /\ lost' = lost
      /\ tc_buffer \in Seq(Packets) /\ current_tc \in Packets /\ lost \in 0 .. 1
  BY DEF StoreCurrentTc, observers, TypeInv, TypeOK
<1>2. /\ t = new_tc_msg_low.att /\ t \in 1 .. com.att /\ t \in Nat
      /\ \A p \in Reconstructed : TransferOf(p) \in 1 .. t
  BY <1>1 DEF OrderedInv, TransferOf
<1>3. lost = 0 => \A p \in Reconstructed : TransferOf(p) < t
  <2> SUFFICES ASSUME lost = 0, NEW p \in Reconstructed PROVE TransferOf(p) < t
    OBVIOUS
  <2>1. new_tc_msg_low.att = new_tc_msg_high.att /\ Finished(p)
    BY <1>1 DEF OnceInv
  <2>2. TransferOf(p) < new_tc_msg_high.att
    BY <1>1, <2>1 DEF Finished
  <2>3. t = new_tc_msg_high.att
    BY <1>2, <2>1
  <2> QED BY <1>2, <2>2, <2>3
<1>4. t \in Attempts
  <2>1. com.att \in Nat /\ com.att <= MaxAttempts /\ MaxAttempts \in Nat
    BY ConstantsOK DEF TypeInv, TypeOK, ComInv
  <2> HIDE DEF t
  <2> QED BY <1>2, <2>1 DEF Attempts
<1> HIDE DEF t
<1>5. \A p \in Reconstructed : Service!NotBefore(t, TransferOf(p))
  <2> SUFFICES ASSUME NEW p \in Reconstructed
               PROVE  TransferOf(p) < t \/ (TransferOf(p) = t /\ lost = 1)
    BY DEF Service!NotBefore
  <2>1. TransferOf(p) \in 1 .. t
    BY <1>2
  <2>2. lost = 0 \/ lost = 1
    BY <1>1
  <2> QED BY <1>2, <1>3, <2>1, <2>2
<1>6. \A i \in DOMAIN TransfersOf(tc_buffer) :
        Service!NotBefore(t, TransfersOf(tc_buffer)[i])
  <2>1. \A i \in DOMAIN tc_buffer : tc_buffer[i] \in Reconstructed
    BY DEF Reconstructed
  <2> QED BY <1>5, <2>1 DEF TransfersOf
<1>7. \A i \in DOMAIN TransfersOf(ExecutedPackets) :
        Service!NotBefore(t, TransfersOf(ExecutedPackets)[i])
  <2>1. \A i \in DOMAIN executed : executed[i].packet \in Reconstructed
    BY DEF Reconstructed
  <2> QED BY <1>5, <2>1 DEF TransfersOf, ExecutedPackets
<1>8. TransfersOf(tc_buffer)' = Append(TransfersOf(tc_buffer), t)
  <2>1. TransfersOf(tc_buffer)' = TransfersOf(Append(tc_buffer, current_tc))
    BY DEF TransfersOf, TransferOf
  <2> QED BY <1>1, <2>1, TransfersAppend DEF t
<1>9. TransfersOf(ExecutedPackets)' = TransfersOf(ExecutedPackets)
  BY <1>1 DEF TransfersOf, TransferOf, ExecutedPackets
<1>10. Service!Accept(t)
  BY <1>1, <1>6, <1>7, <1>8, <1>9 DEF Service!Accept
<1> QED BY <1>4, <1>10

(* decode_telecommand decodes the oldest accepted transfer.                   *)
LEMMA DecodeDecodes ==
  ASSUME TypeInv, TypeInv', DecodeTelecommand
  PROVE  Service!Decode
<1> DEFINE p == Head(tc_buffer)
           d == [packet |-> p, verdict |-> VerifyTelecommand(p)]
<1>1. /\ tc_buffer # <<>> /\ tc_buffer' = Tail(tc_buffer) /\ lost' = lost
      /\ executed' = Append(executed, d)
      /\ tc_buffer \in Seq(Packets) /\ executed \in Seq(Decoded)
  BY DEF DecodeTelecommand, TypeInv, TypeOK
<1>2. p \in Packets /\ d \in Decoded /\ d.packet = p
  <2>1. p \in Packets
    BY <1>1, HeadTailProperties
  <2> QED BY <2>1 DEF Decoded, VerifyTelecommand
<1> HIDE DEF p, d
<1>3. /\ TransfersOf(tc_buffer) # <<>> /\ Head(TransfersOf(tc_buffer)) = TransferOf(p)
      /\ TransfersOf(tc_buffer') = Tail(TransfersOf(tc_buffer))
  BY <1>1, TransfersTail DEF p
<1>4. TransfersOf(tc_buffer)' = Tail(TransfersOf(tc_buffer))
  BY <1>3 DEF TransfersOf, TransferOf
<1>5. ExecutedPackets' = Append(ExecutedPackets, p)
  <2>1. ExecutedPackets' = MapOf(PacketFun, executed')
    <3>1. \A i \in DOMAIN executed' : executed'[i] \in Decoded
      BY DEF TypeInv, TypeOK
    <3>2. \A i \in DOMAIN executed' : PacketFun[executed'[i]] = executed'[i].packet
      BY <3>1, ListFunctions
    <3> QED BY <3>2 DEF ExecutedPackets, MapOf
  <2>2. MapOf(PacketFun, Append(executed, d)) = Append(MapOf(PacketFun, executed), PacketFun[d])
    BY <1>1, <1>2, ListFunctions, MapAppend
  <2>3. PacketFun[d] = p
    BY <1>2, ListFunctions
  <2> QED BY <1>1, <2>1, <2>2, <2>3, PacketsMapped
<1>6. TransfersOf(ExecutedPackets)' = Append(TransfersOf(ExecutedPackets), TransferOf(p))
  <2>1. TransfersOf(Append(ExecutedPackets, p))
          = Append(TransfersOf(ExecutedPackets), TransferOf(p))
    BY <1>2, PacketsMapped, TransfersAppend
  <2>2. TransfersOf(ExecutedPackets)' = TransfersOf(ExecutedPackets')
    BY DEF TransfersOf, TransferOf
  <2> QED BY <1>5, <2>1, <2>2
<1> QED BY <1>1, <1>3, <1>4, <1>6 DEF Service!Decode

(* A dropped word is the service's Drop; every other step is none of its.      *)
LEMMA ServiceNext ==
  ASSUME TypeInv, TypeInv', ComInv, OrderedInv, OnceInv, [Next]_vars
  PROVE  [Service!Next]_<<TransfersOf(tc_buffer), TransfersOf(ExecutedPackets), lost>>
<1> DEFINE Same == UNCHANGED <<TransfersOf(tc_buffer), TransfersOf(ExecutedPackets)>>
<1>1. UNCHANGED <<tc_buffer, executed>> => Same
  BY DEF TransfersOf, TransferOf, ExecutedPackets
<1>2. CASE ComsSendChunk
  <2>1. UNCHANGED <<tc_buffer, executed>> /\ lost' \in {lost, 1} /\ lost \in 0 .. 1
    BY <1>2 DEF ComsSendChunk, SendTcFromISR, TypeInv, TypeOK
  <2>2. lost' = lost \/ (lost = 0 /\ lost' = 1)
    BY <2>1
  <2> QED BY <1>1, <2>1, <2>2 DEF Service!Next, Service!Drop
<1>3. CASE StoreCurrentTc
  <2>1. CASE tc_buffer' = Append(tc_buffer, current_tc)
    BY <1>3, <2>1, StoreAccepts DEF Service!Next, Attempts
  <2>2. CASE tc_buffer' = tc_buffer
    BY <1>1, <1>3, <2>2 DEF StoreCurrentTc, observers
  <2> QED BY <1>3, <2>1, <2>2 DEF StoreCurrentTc
<1>4. CASE DecodeTelecommand
  BY <1>4, DecodeDecodes DEF Service!Next
<1>5. CASE ~ComsSendChunk /\ ~StoreCurrentTc /\ ~DecodeTelecommand
  <2>1. UNCHANGED <<tc_buffer, executed, lost>>
    BY <1>5 DEF Next, Coms, Router, ComsBegin, ComsAskAgain, AskToStart, ComsFinish,
                ComsAbort, ReceiveLow, ReceiveHigh, ReceiveTimeout, ReceiveTcMsg,
                ResetReception, ServiceSkipped, observers, vars
  <2> QED BY <1>1, <2>1
<1> QED BY <1>2, <1>3, <1>4, <1>5

(* Reception implements TcService: commands are decoded in the order of the    *)
(* transfers that completed them, and once each unless a word was dropped.     *)
THEOREM ReceptionImplementsService == Spec => DecodedOnceInOrder
<1> DEFINE Once == ComInv /\ OrderedInv /\ OnceInv
           RInv == TypeInv /\ HolesInv /\ AckInv /\ TransferInv /\ Once
<1>1. Init => RInv
  BY TypeInit, HolesInit, AckInit, TransferInit, ComInit, OrderedInit, OnceInit
<1>2. RInv /\ [Next]_vars => RInv'
  BY TypeNext, HolesNext, AckNext, TransferNext, ComNext, OrderedNext, OnceNext
  DEF TransferInv
<1>3. RInv /\ RInv' /\ [Next]_vars =>
        [Service!Next]_<<TransfersOf(tc_buffer), TransfersOf(ExecutedPackets), lost>>
  BY ServiceNext
<1> HIDE DEF RInv
<1> QED
  BY <1>1, <1>2, <1>3, ServiceInit, PTL DEF Spec, DecodedOnceInOrder, Service!Spec
=============================================================================

------------------------------ MODULE TcUplink ------------------------------
(***************************************************************************)
(* Reception of telecommands.  The COMS SSM announces a packet            *)
(* (TC_PACKET_READY), waits for OK_START_TC_PACKET and then sends it as   *)
(* Chunks CAN messages (SEND_TC).  The CAN1 interrupt pushes the two       *)
(* words of every message into tc_msg_fifo; the OBC_PACKET_ROUTER task     *)
(* takes them out again, reassembles the packet in current_tc, queues it   *)
(* in tc_buffer and decodes it when no transfer is under way.              *)
(*                                                                         *)
(* The data of a chunk is abstracted to where it came from: a word is      *)
(* tagged with the transfer attempt and the chunk number it belongs to.    *)
(***************************************************************************)
EXTENDS Integers, Sequences

CONSTANTS
  Chunks,            \* PACKET_LENGTH / 4 (38 in the code)
  TcMsgFifoLength,   \* words tc_msg_fifo holds (152 in the code)
  TcBufferLength,    \* packets tc_buffer holds (10 in the code)
  MaxAttempts,       \* bound: transfers COMS may begin
  AbortStates,       \* where COMS may abandon a transfer on its own
  Blank              \* what clear_current_tc leaves in a chunk

Seqs == 0 .. Chunks - 1

(* tc_msg_fifo carries bare 32-bit words: the data word of a chunk (low)   *)
(* and its header word (high), whose low byte is the chunk number.         *)
Words == [half : {"low", "high"}, att : Nat, seq : Seqs]

ASSUME ConstantsOK ==
  /\ Chunks \in Nat /\ Chunks >= 2
  /\ TcMsgFifoLength \in Nat \ {0}
  /\ TcBufferLength \in Nat \ {0}
  /\ MaxAttempts \in Nat
  /\ AbortStates \subseteq {"asking", "sending"}
  /\ Blank \notin Words

VARIABLES
  tc_msg_fifo,       \* words pushed by the ISR, not yet taken by the router
  tc_buffer,         \* packets waiting to be decoded
  receiving_tcf,     \* set by the ISR and the router, cleared by the router
  current_tc_fullf,  \* written by the router, read by the ISR
  pc,                \* where the router is in its loop
  low_received, new_tc_msg_low, new_tc_msg_high,
  tc_sequence_count, current_tc,
  com,               \* the COMS SSM: state, attempt, next chunk, last response
  acked,             \* observer: packets completed and answered with 37, as they were
  executed,          \* observer: packets decoded, with the verification verdict
  lost               \* observer: the ISR found tc_msg_fifo full

router == <<pc, low_received, new_tc_msg_low, new_tc_msg_high,
            tc_sequence_count, current_tc>>
observers == <<acked, executed, lost>>
vars == <<tc_msg_fifo, tc_buffer, receiving_tcf, current_tc_fullf, router, com,
          observers>>

Slots == Words \cup {Blank}
Packets == [Seqs -> Slots]
Decoded == [packet : Packets, verdict : {"good", "failed inspection"}]
AllBlank == [k \in Seqs |-> Blank]

LowWord(a, k) == [half |-> "low", att |-> a, seq |-> k]
HighWord(a, k) == [half |-> "high", att |-> a, seq |-> k]

NoResp == "none"
RespOK == "complete"       \* code 37
RespFailed == "failed"     \* code 0xFF

Init ==
  /\ tc_msg_fifo = <<>>
  /\ tc_buffer = <<>>
  /\ receiving_tcf = 0
  /\ current_tc_fullf = 0
  /\ pc = "low"
  /\ low_received = 0
  /\ new_tc_msg_low = Blank
  /\ new_tc_msg_high = Blank
  /\ tc_sequence_count = 0
  /\ current_tc = AllBlank
  /\ com = [state |-> "idle", att |-> 0, next |-> 0, resp |-> NoResp]
  /\ acked = <<>>
  /\ executed = <<>>
  /\ lost = 0

-----------------------------------------------------------------------------
(* CAN1 interrupt: the two handlers of decode_can_command that telecommands  *)
(* use.  They run to completion with respect to the router.                  *)

PushFromISR(fifo, w) ==
  IF Len(fifo) < TcMsgFifoLength THEN Append(fifo, w) ELSE fifo

(* SEND_TC: the data word, then the header word; a word that finds the FIFO *)
(* full is dropped, and the results of the two calls are not looked at.      *)
SendTcFromISR(a, k) ==
  /\ tc_msg_fifo' = PushFromISR(PushFromISR(tc_msg_fifo, LowWord(a, k)),
                                HighWord(a, k))
  /\ lost' = IF Len(tc_msg_fifo) + 2 > TcMsgFifoLength THEN 1 ELSE lost

(* Faulty variant: OK_START without looking at current_tc_fullf.             *)
StartAlthoughFull(state) ==
  /\ state \in {"sending", "asking"}
  /\ receiving_tcf' = 1

(* TC_PACKET_READY: OK_START_TC_PACKET is sent unless current_tc is full;    *)
(* the send itself is dropped when Can0_Mutex is taken.  The state is what   *)
(* COMS makes of it.                                                         *)
StartTcPacket(state) ==
  /\ state = "asking" \/ (state = "sending" /\ current_tc_fullf = 0)
  /\ receiving_tcf' = 1

-----------------------------------------------------------------------------
(* The COMS SSM.  Nothing is assumed of it except that it sends the chunks  *)
(* of a packet in order and asks before it starts.                          *)

AskToStart(att) ==
  \E state \in {"sending", "asking"} :
    /\ StartTcPacket(state)
    /\ com' = [state |-> state, att |-> att, next |-> 0, resp |-> NoResp]
    /\ UNCHANGED <<tc_msg_fifo, tc_buffer, current_tc_fullf, router, observers>>

ComsBegin ==
  /\ com.state = "idle"
  /\ com.att < MaxAttempts
  /\ AskToStart(com.att + 1)

ComsAskAgain ==
  /\ com.state = "asking"
  /\ AskToStart(com.att)

ComsSendChunk ==
  /\ com.state = "sending"
  /\ SendTcFromISR(com.att, com.next)
  /\ com' = [com EXCEPT !.next = (@ + 1) % Chunks,
                        !.state = IF com.next = Chunks - 1 THEN "sent" ELSE @]
  /\ UNCHANGED <<tc_buffer, receiving_tcf, current_tc_fullf, router, acked,
                 executed>>

(* COMS has its answer or has waited long enough for it.                     *)
ComsFinish ==
  /\ com.state = "sent"
  /\ com' = [com EXCEPT !.state = "idle"]
  /\ UNCHANGED <<tc_msg_fifo, tc_buffer, receiving_tcf, current_tc_fullf,
                 router, observers>>

(* COMS abandons a transfer: because it was told to, or on its own.          *)
ComsAbort ==
  /\ com.state \in {"asking", "sending"}
  /\ com.state \in AbortStates \/ com.resp = RespFailed
  /\ com' = [com EXCEPT !.state = "idle", !.next = 0]
  /\ UNCHANGED <<tc_msg_fifo, tc_buffer, receiving_tcf, current_tc_fullf,
                 router, observers>>

Coms == ComsBegin \/ ComsAskAgain \/ ComsSendChunk \/ ComsFinish \/ ComsAbort

-----------------------------------------------------------------------------
(* The OBC_PACKET_ROUTER task.                                               *)

LoopTop == IF low_received = 1 THEN "high" ELSE "low"

ReceiveLow ==
  /\ pc = "low"
  /\ tc_msg_fifo # <<>>
  /\ new_tc_msg_low' = Head(tc_msg_fifo)
  /\ tc_msg_fifo' = Tail(tc_msg_fifo)
  /\ low_received' = 1
  /\ pc' = "high"
  /\ UNCHANGED <<tc_buffer, receiving_tcf, current_tc_fullf, new_tc_msg_high,
                 tc_sequence_count, current_tc, com, observers>>

ReceiveHigh ==
  /\ pc = "high"
  /\ tc_msg_fifo # <<>>
  /\ new_tc_msg_high' = Head(tc_msg_fifo)
  /\ tc_msg_fifo' = Tail(tc_msg_fifo)
  /\ pc' = "assemble"
  /\ UNCHANGED <<tc_buffer, receiving_tcf, current_tc_fullf, low_received,
                 new_tc_msg_low, tc_sequence_count, current_tc, com, observers>>

(* xQueueReceive gave up after xTimeToWait ticks.                            *)
ReceiveTimeout ==
  /\ pc \in {"low", "high"}
  /\ tc_msg_fifo = <<>>
  /\ pc' = "service"
  /\ UNCHANGED <<tc_msg_fifo, tc_buffer, receiving_tcf, current_tc_fullf,
                 low_received, new_tc_msg_low, new_tc_msg_high,
                 tc_sequence_count, current_tc, com, observers>>

(* ssm_seq_count is the low byte of whatever word was taken for the header.  *)
(* A data word in that place may hold any byte; Chunks stands for the values *)
(* past the last chunk.                                                      *)
SeqCounts(w) == IF w.half = "high" THEN {w.seq} ELSE 0 .. Chunks

TooFarAhead(s) == s > tc_sequence_count + 1
Expected(s) == (s = 0 /\ tc_sequence_count = 0) \/ s = tc_sequence_count + 1
IsLastChunk(s) == s = Chunks - 1

(* send_tc_transaction_response: lost when Can0_Mutex is busy.               *)
Respond(code) == com' \in {com, [com EXCEPT !.resp = code]}

(* The three error returns of receive_tc_msg: the answer goes out before the *)
(* state is reset, and COMS may react in between.                            *)
RejectChunk(s) ==
  /\ TooFarAhead(s) \/ current_tc_fullf = 1 \/ ~Expected(s)
  /\ Respond(RespFailed)
  /\ pc' = IF current_tc_fullf = 1 /\ ~TooFarAhead(s) THEN "reset" ELSE "resetAndClear"
  /\ UNCHANGED <<receiving_tcf, current_tc_fullf, tc_sequence_count, current_tc,
                 acked>>

StoreChunk(s) == current_tc' = [current_tc EXCEPT ![s] = new_tc_msg_low]

AcceptChunk(s) ==
  /\ ~TooFarAhead(s) /\ current_tc_fullf = 0 /\ Expected(s)
  /\ ~IsLastChunk(s)
  /\ StoreChunk(s)
  /\ tc_sequence_count' = s
  /\ receiving_tcf' = 1
  /\ pc' = "service"
  /\ UNCHANGED <<current_tc_fullf, com, acked>>

AcceptLastChunk(s) ==
  /\ ~TooFarAhead(s) /\ current_tc_fullf = 0 /\ Expected(s)
  /\ IsLastChunk(s)
  /\ StoreChunk(s)
  /\ tc_sequence_count' = 0
  /\ receiving_tcf' = 0
  /\ current_tc_fullf' = 1
  /\ Respond(RespOK)
  /\ acked' = Append(acked, current_tc')
  /\ pc' = "store"

ReceiveTcMsg ==
  /\ pc = "assemble"
  /\ low_received' = 0
  /\ \E s \in SeqCounts(new_tc_msg_high) :
       RejectChunk(s) \/ AcceptChunk(s) \/ AcceptLastChunk(s)
  /\ UNCHANGED <<tc_msg_fifo, tc_buffer, new_tc_msg_low, new_tc_msg_high,
                 executed, lost>>

(* Faulty variants: an error return that leaves current_tc as it is, and one *)
(* that leaves the sequence count as it is.                                  *)
ResetWithoutClear ==
  /\ pc \in {"reset", "resetAndClear"}
  /\ tc_sequence_count' = 0
  /\ receiving_tcf' = 0
  /\ pc' = "service"
  /\ UNCHANGED <<tc_msg_fifo, tc_buffer, current_tc_fullf, low_received,
                 new_tc_msg_low, new_tc_msg_high, current_tc, com, observers>>

ResetKeepsCount ==
  /\ pc \in {"reset", "resetAndClear"}
  /\ receiving_tcf' = 0
  /\ current_tc' = IF pc = "resetAndClear" THEN AllBlank ELSE current_tc
  /\ pc' = "service"
  /\ UNCHANGED <<tc_msg_fifo, tc_buffer, current_tc_fullf, low_received,
                 new_tc_msg_low, new_tc_msg_high, tc_sequence_count, com, observers>>

ResetReception ==
  /\ pc \in {"reset", "resetAndClear"}
  /\ tc_sequence_count' = 0
  /\ receiving_tcf' = 0
  /\ current_tc' = IF pc = "resetAndClear" THEN AllBlank ELSE current_tc
  /\ pc' = "service"
  /\ UNCHANGED <<tc_msg_fifo, tc_buffer, current_tc_fullf, low_received,
                 new_tc_msg_low, new_tc_msg_high, com, observers>>

(* Faulty variant: the packet counts as stored although tc_buffer was full.  *)
StoreRegardless ==
  /\ pc = "store"
  /\ tc_buffer' = IF Len(tc_buffer) < TcBufferLength
                    THEN Append(tc_buffer, current_tc) ELSE tc_buffer
  /\ current_tc_fullf' = 0
  /\ pc' = "service"
  /\ UNCHANGED <<tc_msg_fifo, receiving_tcf, low_received, new_tc_msg_low,
                 new_tc_msg_high, tc_sequence_count, current_tc, com, observers>>

(* store_current_tc: when tc_buffer is full, current_tc_fullf stays set.     *)
StoreCurrentTc ==
  /\ pc = "store"
  /\ IF Len(tc_buffer) < TcBufferLength
       THEN /\ tc_buffer' = Append(tc_buffer, current_tc)
            /\ current_tc_fullf' = 0
       ELSE UNCHANGED <<tc_buffer, current_tc_fullf>>
  /\ pc' = "service"
  /\ UNCHANGED <<tc_msg_fifo, receiving_tcf, low_received, new_tc_msg_low,
                 new_tc_msg_high, tc_sequence_count, current_tc, com, observers>>

(* The packet error control of a packet is in its first chunk: it matches    *)
(* when all chunks come from one transfer.                                   *)
Intact(p) == \E a \in 1 .. MaxAttempts : \A k \in Seqs : p[k] = LowWord(a, k)

VerifyTelecommand(p) == IF Intact(p) THEN "good" ELSE "failed inspection"

(* Faulty variant: tc_buffer is passed over although no transfer is under way. *)
SkipAlthoughIdle ==
  /\ pc = "service"
  /\ pc' = LoopTop
  /\ UNCHANGED <<tc_msg_fifo, tc_buffer, receiving_tcf, current_tc_fullf,
                 low_received, new_tc_msg_low, new_tc_msg_high,
                 tc_sequence_count, current_tc, com, observers>>

(* While a transfer is under way nothing else is served.                     *)
ServiceSkipped ==
  /\ pc = "service"
  /\ receiving_tcf = 1 \/ tc_buffer = <<>>
  /\ pc' = LoopTop
  /\ UNCHANGED <<tc_msg_fifo, tc_buffer, receiving_tcf, current_tc_fullf,
                 low_received, new_tc_msg_low, new_tc_msg_high,
                 tc_sequence_count, current_tc, com, observers>>

(* Faulty variant: the packet is looked at but stays in tc_buffer.           *)
DecodeWithoutTaking ==
  /\ pc = "service"
  /\ receiving_tcf = 0
  /\ tc_buffer # <<>>
  /\ Len(executed) < MaxAttempts
  /\ executed' = Append(executed, [packet |-> Head(tc_buffer),
                                   verdict |-> VerifyTelecommand(Head(tc_buffer))])
  /\ pc' = LoopTop
  /\ UNCHANGED <<tc_msg_fifo, tc_buffer, receiving_tcf, current_tc_fullf,
                 low_received, new_tc_msg_low, new_tc_msg_high,
                 tc_sequence_count, current_tc, com, acked, lost>>

(* decode_telecommand: the verdict is computed and reported, the command is  *)
(* carried out whatever it was.                                              *)
DecodeTelecommand ==
  /\ pc = "service"
  /\ receiving_tcf = 0
  /\ tc_buffer # <<>>
  /\ tc_buffer' = Tail(tc_buffer)
  /\ executed' = Append(executed, [packet |-> Head(tc_buffer),
                                   verdict |-> VerifyTelecommand(Head(tc_buffer))])
  /\ pc' = LoopTop
  /\ UNCHANGED <<tc_msg_fifo, receiving_tcf, current_tc_fullf, low_received,
                 new_tc_msg_low, new_tc_msg_high, tc_sequence_count, current_tc,
                 com, acked, lost>>

Router ==
  \/ ReceiveLow \/ ReceiveHigh \/ ReceiveTimeout
  \/ ReceiveTcMsg \/ ResetReception \/ StoreCurrentTc
  \/ ServiceSkipped \/ DecodeTelecommand

Next == Coms \/ Router

Spec == Init /\ [][Next]_vars

(* The router is a task of its own that never ends, so its loop keeps going. *)
(* COMS finishes what it started, and Can0_Mutex, held only for the length   *)
(* of one message by other tasks, does not block OK_START for ever.          *)
FairSpec ==
  /\ Spec
  /\ WF_vars(Router)
  /\ WF_vars(ComsSendChunk)
  /\ WF_vars(ComsFinish)
  /\ WF_vars(ComsAskAgain /\ com'.state = "sending")

-----------------------------------------------------------------------------
TypeOK ==
  /\ tc_msg_fifo \in Seq(Words) /\ Len(tc_msg_fifo) <= TcMsgFifoLength
  /\ tc_buffer \in Seq(Packets) /\ Len(tc_buffer) <= TcBufferLength
  /\ receiving_tcf \in 0 .. 1
  /\ current_tc_fullf \in 0 .. 1
  /\ pc \in {"low", "high", "assemble", "reset", "resetAndClear", "store", "service"}
  /\ low_received \in 0 .. 1
  /\ new_tc_msg_low \in Slots
  /\ new_tc_msg_high \in Slots
  /\ tc_sequence_count \in 0 .. Chunks - 2
  /\ current_tc \in Packets
  /\ com \in [state : {"idle", "asking", "sending", "sent"}, att : Nat,
              next : Seqs, resp : {NoResp, RespOK, RespFailed}]
  /\ acked \in Seq(Packets)
  /\ executed \in Seq(Decoded)
  /\ lost \in 0 .. 1

ExecutedPackets == [i \in DOMAIN executed |-> executed[i].packet]
Reconstructed == {executed[i].packet : i \in DOMAIN executed}
                   \cup {tc_buffer[i] : i \in DOMAIN tc_buffer}

(* No packet that was put together has a hole after its first chunk: every  *)
(* chunk 1 .. Chunks-1 was written since the last time current_tc was        *)
(* cleared, even when words were dropped and the word pairs are out of step. *)
NoHoles == \A p \in Reconstructed : \A k \in Seqs \ {0} : p[k] # Blank

(* The queues and registers keep their ranges, and no packet has a hole.      *)
UplinkInv == TypeOK /\ NoHoles

(* As long as tc_msg_fifo never overflowed, all chunks of a packet after the *)
(* first come from one transfer, and the first one does too or is blank:     *)
(* the sequence control never mixes two transfers (receive_tc_msg).          *)
SameTransfer(p) ==
  \E a \in 1 .. MaxAttempts :
    /\ \A k \in Seqs \ {0} : p[k] = LowWord(a, k)
    /\ p[0] \in {LowWord(a, 0), Blank}

NeverMixed == lost = 0 => \A p \in Reconstructed : SameTransfer(p)

(* The transfer that the last chunk of a packet came from.                   *)
TransferOf(p) == p[Chunks - 1].att

(* What becomes of the packets that COMS was told are complete: they are       *)
(* decoded or in tc_buffer, in their order and with their content, but for the *)
(* last one while current_tc_fullf is set.  That one is still whole in         *)
(* current_tc, or has been wiped out there: receive_tc_msg clears current_tc   *)
(* for a chunk that is too far ahead before it looks at current_tc_fullf.  The *)
(* wiped packet is lost for good, which takes a next transfer of COMS (that was *)
(* allowed to start before tc_buffer was found full) or a dropped word.       *)
Wiped == current_tc_fullf = 1 /\ current_tc = AllBlank
AckedAccountedFor ==
  LET decoded == Len(executed)
      last == acked[Len(acked)]
  IN /\ Len(acked) = decoded + Len(tc_buffer) + current_tc_fullf
     /\ \A n \in 1 .. decoded : acked[n] = executed[n].packet
     /\ \A n \in 1 .. Len(tc_buffer) : acked[decoded + n] = tc_buffer[n]
     /\ current_tc_fullf = 1 /\ ~Wiped => current_tc = last
     /\ Wiped /\ lost = 0 => com.att > TransferOf(last)

(* A packet that did not fit into tc_buffer blocks reception for good: after   *)
(* store_current_tc failed, no transfer is ever started or completed again.    *)
Blocked == current_tc_fullf = 1 /\ pc # "store"
BlockedForGood ==
  [][Blocked => /\ Blocked'
                /\ acked' = acked
                /\ com'.state = "sending" => com.state = "sending"]_vars

(* receiving_tcf is set and no chunk is coming that could clear it: COMS left   *)
(* in the middle of a transfer, or was refused the start (start_tc_packet sets  *)
(* the flag all the same).                                                     *)
Starved ==
  /\ receiving_tcf = 1 /\ tc_msg_fifo = <<>> /\ pc = "service"
  /\ com.state = "idle" \/ (com.state = "asking" /\ Blocked)

(* Every packet put into tc_buffer is decoded, unless the router starves       *)
(* (under FairSpec).                                                           *)
BufferedEventuallyDecoded ==
  \A n \in 1 .. MaxAttempts :
    (Len(executed) + Len(tc_buffer) >= n) ~> (Len(executed) >= n \/ Starved)

(* "After which it will decode the telecommand": every packet in tc_buffer is    *)
(* decoded in the end, when COMS completes each transfer it begins.              *)
AlwaysDecoded ==
  \A n \in 1 .. MaxAttempts :
    (Len(executed) + Len(tc_buffer) >= n) ~> (Len(executed) >= n)

(* Refinement.  A packet stands for the transfer its last chunk came from.    *)
TransfersOf(ps) == [i \in DOMAIN ps |-> TransferOf(ps[i])]

Service == INSTANCE TcService WITH
             Transfers <- 1 .. MaxAttempts,
             queue <- TransfersOf(tc_buffer),
             done <- TransfersOf(ExecutedPackets),
             dropped <- lost

(* Reception implements TcService: commands are decoded in the order of the     *)
(* transfers that completed them, whatever COMS aborts or repeats and whatever  *)
(* words are dropped, and once each as long as none was (receive_tc_msg,        *)
(* tc_buffer).                                                                  *)
DecodedOnceInOrder == Service!Spec
=============================================================================

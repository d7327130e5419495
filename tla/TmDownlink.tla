----------------------------- MODULE TmDownlink -----------------------------
(***************************************************************************)
(* Downlink of telemetry by the OBC_PACKET_ROUTER.  A packet is made in     *)
(* current_tm, queued in tm_buffer, taken into tm_to_downlink and sent to   *)
(* the COMS SSM in Chunks CAN messages, each with its number so that COMS   *)
(* can notice a missing one.  COMS answers through the CAN1 interrupt,      *)
(* which writes two flags that the router polls: an answer may arrive after *)
(* the router stopped waiting for it, in the next transfer.                 *)
(*                                                                         *)
(* The router serves telemetry only in a turn of its loop that finds        *)
(* receiving_tcf cleared.  TcUplink says why it is set and cleared; here    *)
(* the CAN1 interrupt may set it at any moment, a message of a telecommand  *)
(* leaves it either way, and nothing says that it is ever cleared.          *)
(*                                                                         *)
(* A packet is the number of the telemetry request it was made for.         *)
(***************************************************************************)
EXTENDS Integers, Sequences

CONSTANTS
  Chunks,            \* PACKET_LENGTH / 4 (38 in the code)
  TmBufferLength,    \* packets tm_buffer holds (10 in the code)
  MaxRequests,       \* bound: telemetry requests made
  MaxFaults,         \* bound: messages lost and waits that end too early
  MaxAir             \* bound: answers of COMS under way at a time

ASSUME ConstantsOK ==
  /\ Chunks \in Nat \ {0}
  /\ TmBufferLength \in Nat \ {0}
  /\ MaxRequests \in Nat
  /\ MaxFaults \in Nat
  /\ MaxAir \in Nat \ {0}

VARIABLES
  current_tm_fullf,       \* a packet is held in current_tm
  tm_buffer,
  tm_down_fullf, tm_to_downlink,
  receiving_tcf,          \* a telecommand is being received: no service
  pc, i,                  \* where the router is; next chunk to send
  start_tm_transferf,     \* set by the ISR on OK_START_TM_PACKET
  tm_transfer_completef,  \* set by the ISR on TM_TRANSACTION_RESP
  coms,                   \* the COMS SSM: idle or listening, chunks taken so far
  air,                    \* answers of COMS on their way to the ISR
  faults, requests,       \* counters behind the bounds
  received,               \* observer: what COMS took as complete packets
  stored, sent            \* observers: requests stored; packets retired

buffers == <<current_tm_fullf, tm_buffer, requests, stored>>
hand == <<tm_down_fullf, tm_to_downlink>>
flags == <<start_tm_transferf, tm_transfer_completef>>
link == <<coms, air, received>>
vars == <<buffers, hand, receiving_tcf, pc, i, flags, link, faults, sent>>

Requests == 1 .. MaxRequests
NoPacket == 0                \* nothing in tm_to_downlink yet
Garbled == MaxRequests + 1   \* chunks of different packets: PEC is wrong

Answers == {"start", "ok", "failed"}

Init ==
  /\ current_tm_fullf = 0 /\ tm_buffer = <<>>
  /\ tm_down_fullf = 0 /\ tm_to_downlink = NoPacket
  /\ receiving_tcf = 0
  /\ pc = "receive" /\ i = 0
  /\ start_tm_transferf = 0 /\ tm_transfer_completef = "none"
  /\ coms = [state |-> "idle", parts |-> <<>>]
  /\ air = <<>>
  /\ faults = 0 /\ requests = 0
  /\ received = <<>> /\ stored = <<>> /\ sent = <<>>

Fault == faults < MaxFaults /\ faults' = faults + 1
NoFault == UNCHANGED faults

-----------------------------------------------------------------------------
(* The COMS SSM (external).  It answers READY with OK_START and listens from *)
(* chunk 0 on; a chunk out of turn ends the transfer with a failure, the     *)
(* last one with a success.                                                  *)

Answer(a) == air' = IF Len(air) < MaxAir THEN Append(air, a) ELSE air

TakeReady ==
  /\ coms' = [state |-> "listening", parts |-> <<>>]
  /\ Answer("start")
  /\ UNCHANGED received

WholePacket(parts) ==
  IF \A j, k \in DOMAIN parts : parts[j] = parts[k] THEN parts[1] ELSE Garbled

TakeChunk(k, p) ==
  LET parts == Append(coms.parts, p) IN
  IF coms.state = "idle"
    THEN UNCHANGED link
  ELSE IF k # Len(coms.parts)
    THEN /\ coms' = [state |-> "idle", parts |-> <<>>]
         /\ Answer("failed")
         /\ UNCHANGED received
  ELSE IF Len(parts) < Chunks
    THEN /\ coms' = [coms EXCEPT !.parts = parts]
         /\ UNCHANGED <<air, received>>
  ELSE /\ coms' = [state |-> "idle", parts |-> <<>>]
       /\ received' = Append(received, WholePacket(parts))
       /\ Answer("ok")

(* CAN1 interrupt: TM_TRANSACTION_RESP and OK_START_TM_PACKET.               *)
Deliver ==
  /\ air # <<>>
  /\ air' = Tail(air)
  /\ IF Head(air) = "start"
       THEN start_tm_transferf' = 1 /\ UNCHANGED tm_transfer_completef
       ELSE tm_transfer_completef' = Head(air) /\ UNCHANGED start_tm_transferf
  /\ UNCHANGED <<receiving_tcf, buffers, hand, pc, i, coms, received, faults,
                 sent>>

LoseAnswer ==
  /\ air # <<>>
  /\ Fault
  /\ air' = Tail(air)
  /\ UNCHANGED <<receiving_tcf, buffers, hand, pc, i, flags, coms, received,
                 sent>>

-----------------------------------------------------------------------------
(* The loop.  TC_PACKET_READY sets receiving_tcf from the interrupt, whether  *)
(* or not the transfer is then allowed to start (start_tc_packet).           *)
StartTcPacket ==
  /\ receiving_tcf' = 1
  /\ UNCHANGED <<buffers, hand, pc, i, flags, link, faults, sent>>

(* receive_tc_msg with a message of COMS: an accepted chunk leaves the flag   *)
(* set, the last one and every refused one leave it cleared.                  *)
ReceiveTcMsg ==
  /\ pc = "receive"
  /\ receiving_tcf' \in 0 .. 1
  /\ pc' = IF receiving_tcf' = 0 THEN "serve" ELSE "receive"
  /\ UNCHANGED <<buffers, hand, i, flags, link, faults, sent>>

(* A turn without a message goes on to serve unless the flag is set.          *)
ServeTurn ==
  /\ pc = "receive"
  /\ receiving_tcf = 0
  /\ pc' = "serve"
  /\ UNCHANGED <<buffers, hand, receiving_tcf, i, flags, link, faults, sent>>

(* exec_commands, which ends the turn, has made what it had to make.          *)
ExecDone ==
  /\ pc = "exec"
  /\ pc' = "receive"
  /\ UNCHANGED <<buffers, hand, receiving_tcf, i, flags, link, faults, sent>>

-----------------------------------------------------------------------------
(* exec_commands and decode_telecommand make packets: verifications, event   *)
(* reports, housekeeping and time reports.                                   *)

(* Faulty variant: the flag is cleared whether or not there was room.        *)
StoreRegardless(n) ==
  /\ tm_buffer' = IF Len(tm_buffer) < TmBufferLength
                    THEN Append(tm_buffer, n) ELSE tm_buffer
  /\ current_tm_fullf' = 0

(* store_current_tm: current_tm_fullf stays set when tm_buffer is full.      *)
StoreCurrentTm(n) ==
  IF Len(tm_buffer) < TmBufferLength
    THEN /\ tm_buffer' = Append(tm_buffer, n)
         /\ current_tm_fullf' = 0
    ELSE /\ current_tm_fullf' = 1
         /\ UNCHANGED tm_buffer

(* Faulty variant: current_tm is overwritten although it is full.            *)
PacketizeOverwriting ==
  /\ pc \in {"serve", "exec"}
  /\ requests < MaxRequests
  /\ requests' = requests + 1
  /\ StoreCurrentTm(requests + 1)
  /\ stored' = Append(stored, requests + 1)
  /\ UNCHANGED <<receiving_tcf, hand, pc, i, flags, link, faults, sent>>

(* packetize_send_telemetry for one packet: refused when current_tm is full. *)
PacketizeSendTelemetry ==
  /\ pc \in {"serve", "exec"}
  /\ requests < MaxRequests
  /\ requests' = requests + 1
  /\ IF current_tm_fullf = 1
       THEN UNCHANGED <<current_tm_fullf, tm_buffer, stored>>
       ELSE StoreCurrentTm(requests + 1) /\ stored' = Append(stored, requests + 1)
  /\ UNCHANGED <<receiving_tcf, hand, pc, i, flags, link, faults, sent>>

(* Faulty variant: the packet taken is not marked as the one to repeat.      *)
PickUnmarked ==
  /\ pc = "serve"
  /\ tm_down_fullf = 1 \/ tm_buffer # <<>>
  /\ IF tm_down_fullf = 1
       THEN UNCHANGED <<hand, tm_buffer>>
       ELSE /\ tm_to_downlink' = Head(tm_buffer)
            /\ tm_buffer' = Tail(tm_buffer)
            /\ UNCHANGED tm_down_fullf
  /\ pc' = "begin"
  /\ UNCHANGED <<receiving_tcf, current_tm_fullf, requests, stored, i, flags,
                 link, faults, sent>>

(* A packet still in hand is sent again before the next one is taken.        *)
PickPacket ==
  /\ pc = "serve"
  /\ tm_down_fullf = 1 \/ tm_buffer # <<>>
  /\ IF tm_down_fullf = 1
       THEN UNCHANGED <<hand, tm_buffer>>
       ELSE /\ tm_to_downlink' = Head(tm_buffer)
            /\ tm_buffer' = Tail(tm_buffer)
            /\ tm_down_fullf' = 1
  /\ pc' = "begin"
  /\ UNCHANGED <<receiving_tcf, current_tm_fullf, requests, stored, i, flags,
                 link, faults, sent>>

NothingToSend ==
  /\ pc = "serve"
  /\ tm_down_fullf = 0 /\ tm_buffer = <<>>
  /\ pc' = "settle"
  /\ UNCHANGED <<receiving_tcf, buffers, hand, i, flags, link, faults, sent>>

-----------------------------------------------------------------------------
(* send_pus_packet_tm.  A message is lost when Can0_Mutex is busy: the       *)
(* result of send_tc_can_command is not looked at.                           *)

SendReady ==
  \/ NoFault /\ TakeReady
  \/ Fault /\ UNCHANGED link

BeginTransfer ==
  /\ pc = "begin"
  /\ tm_transfer_completef' = "none"
  /\ start_tm_transferf' = 0
  /\ SendReady
  /\ pc' = "ask"
  /\ UNCHANGED <<receiving_tcf, buffers, hand, i, sent>>

AskAgain ==
  /\ pc = "ask"
  /\ start_tm_transferf = 0
  /\ SendReady
  /\ UNCHANGED <<receiving_tcf, buffers, hand, pc, i, flags, sent>>

(* A wait ends without its answer when none is coming, or too early.         *)
GiveUpOn(answers) ==
  IF \E k \in DOMAIN air : air[k] \in answers THEN Fault ELSE NoFault

AskTimeout ==
  /\ pc = "ask"
  /\ start_tm_transferf = 0
  /\ GiveUpOn({"start"})
  /\ pc' = "settle"
  /\ UNCHANGED <<receiving_tcf, buffers, hand, i, flags, link, sent>>

StartSending ==
  /\ pc = "ask"
  /\ start_tm_transferf = 1
  /\ start_tm_transferf' = 0
  /\ i' = 0
  /\ pc' = "send"
  /\ UNCHANGED <<receiving_tcf, buffers, hand, tm_transfer_completef, link,
                 faults, sent>>

(* One turn of the chunk loop.                                               *)
SendChunk ==
  /\ pc = "send"
  /\ IF tm_transfer_completef = "failed"
       THEN pc' = "settle" /\ NoFault /\ UNCHANGED <<i, link>>
       ELSE /\ \/ NoFault /\ TakeChunk(i, tm_to_downlink)
               \/ Fault /\ UNCHANGED link
            /\ i' = (i + 1) % Chunks
            /\ pc' = IF i = Chunks - 1 THEN "wait" ELSE "send"
  /\ UNCHANGED <<receiving_tcf, buffers, hand, flags, sent>>

WaitForResponse ==
  /\ pc = "wait"
  /\ tm_transfer_completef # "none"
  /\ pc' = "verdict"
  /\ UNCHANGED <<receiving_tcf, buffers, hand, i, flags, link, faults, sent>>

WaitTimeout ==
  /\ pc = "wait"
  /\ tm_transfer_completef = "none"
  /\ GiveUpOn({"ok", "failed"})
  /\ pc' = "settle"
  /\ UNCHANGED <<receiving_tcf, buffers, hand, i, flags, link, sent>>

(* Faulty variant: any response counts as success.                           *)
AnyResponseWillDo ==
  /\ pc = "verdict"
  /\ tm_transfer_completef' = "settled"
  /\ tm_down_fullf' = 0
  /\ sent' = Append(sent, tm_to_downlink)
  /\ pc' = "settle"
  /\ UNCHANGED <<receiving_tcf, buffers, tm_to_downlink, i, start_tm_transferf,
                 link, faults>>

(* Only the number of the last chunk says that the packet was received.      *)
CheckResponse ==
  /\ pc = "verdict"
  /\ IF tm_transfer_completef = "ok"
       THEN /\ tm_transfer_completef' = "settled"
            /\ tm_down_fullf' = 0
            /\ sent' = Append(sent, tm_to_downlink)
       ELSE /\ tm_transfer_completef' = "none"
            /\ UNCHANGED <<tm_down_fullf, sent>>
  /\ pc' = "settle"
  /\ UNCHANGED <<receiving_tcf, buffers, tm_to_downlink, i, start_tm_transferf,
                 link, faults>>

(* Faulty variant: the router does not sleep after a transfer.               *)
SettleAtOnce ==
  /\ pc = "settle"
  /\ tm_transfer_completef' = "none"
  /\ pc' = "exec"
  /\ UNCHANGED <<receiving_tcf, buffers, hand, i, start_tm_transferf, link,
                 faults, sent>>

(* With the completion flag set the router sleeps for 3000 ticks and clears  *)
(* it: whatever answer is still under way arrives in that time.              *)
Settle ==
  /\ pc = "settle"
  /\ tm_transfer_completef # "none" => air = <<>>
  /\ tm_transfer_completef' = "none"
  /\ pc' = "exec"
  /\ UNCHANGED <<receiving_tcf, buffers, hand, i, start_tm_transferf, link,
                 faults, sent>>

Router ==
  \/ ServeTurn \/ ExecDone
  \/ PickPacket \/ NothingToSend
  \/ BeginTransfer \/ AskAgain \/ AskTimeout \/ StartSending
  \/ SendChunk \/ WaitForResponse \/ WaitTimeout \/ CheckResponse \/ Settle

Next ==
  \/ Deliver \/ LoseAnswer \/ StartTcPacket \/ ReceiveTcMsg
  \/ PacketizeSendTelemetry \/ Router

Spec == Init /\ [][Next]_vars

(* The router never stops and an answer that is not lost arrives.  The waits  *)
(* are long enough for an answer unless the fault budget says otherwise.      *)
(* Nothing is assumed of the messages that clear receiving_tcf.               *)
FairSpec == Spec /\ WF_vars(Router) /\ WF_vars(Deliver)

-----------------------------------------------------------------------------
InHand == IF tm_down_fullf = 1 THEN <<tm_to_downlink>> ELSE <<>>
Pending == InHand \o tm_buffer

TypeOK ==
  /\ current_tm_fullf \in 0 .. 1
  /\ tm_buffer \in Seq(Requests) /\ Len(tm_buffer) <= TmBufferLength
  /\ tm_down_fullf \in 0 .. 1
  /\ tm_to_downlink \in Requests \cup {NoPacket}
  /\ receiving_tcf \in 0 .. 1
  /\ pc \in {"receive", "serve", "begin", "ask", "send", "wait", "verdict",
             "settle", "exec"}
  /\ i \in 0 .. Chunks - 1
  /\ start_tm_transferf \in 0 .. 1
  /\ tm_transfer_completef \in {"none", "ok", "failed", "settled"}
  /\ coms \in [state : {"idle", "listening"}, parts : Seq(Requests)]
  /\ Len(coms.parts) < Chunks
  /\ air \in Seq(Answers) /\ Len(air) <= MaxAir
  /\ faults \in 0 .. MaxFaults
  /\ requests \in 0 .. MaxRequests
  /\ received \in Seq(Requests \cup {Garbled})
  /\ stored \in Seq(Requests) /\ sent \in Seq(Requests)
  /\ pc \notin {"receive", "serve", "exec", "settle"} => tm_down_fullf = 1
  /\ tm_down_fullf = 1 => tm_to_downlink # NoPacket

(* A packet the router takes for delivered was received whole by COMS,        *)
(* although messages get lost, waits end too early and answers arrive in a    *)
(* later transfer than the one they belong to (send_pus_packet_tm).           *)
SentWasReceived ==
  \A k \in DOMAIN sent : \E j \in DOMAIN received : received[j] = sent[k]

(* The state of the downlink stays in its ranges, a transfer always has its   *)
(* packet in hand, and what is retired was received.                          *)
DownlinkInv == TypeOK /\ SentWasReceived

(* No packet is lost or reordered between its making and its delivery: the    *)
(* delivered ones, the one in hand, those in tm_buffer and the one kept in    *)
(* current_tm are the packets that were made, in their order.                 *)
Held == IF current_tm_fullf = 1 THEN <<stored[Len(stored)]>> ELSE <<>>
NothingLostOnBoard == sent \o Pending \o Held = stored

(* Once a packet did not fit into tm_buffer, current_tm stays full and no     *)
(* telemetry is ever made again, even when tm_buffer has room                 *)
(* (packetize_send_telemetry, store_current_tm).                              *)
HeldForGood == [][current_tm_fullf = 1 => current_tm_fullf' = 1 /\ stored' = stored]_vars

(* Every packet that reaches tm_buffer is delivered in the end, after the     *)
(* faults stop (FairSpec), unless receiving_tcf stays set for ever: then the  *)
(* loop never gets to tm_buffer again (obc_packet_router.c:298).              *)
StoredEventuallySent ==
  \A n \in Requests :
    \/ <>[](receiving_tcf = 1)
    \/ (\E k \in DOMAIN tm_buffer : tm_buffer[k] = n)
         ~> (\E k \in DOMAIN sent : sent[k] = n)

Service == INSTANCE TmService WITH
             Numbers <- Requests, pending <- Pending, got <- received

(* The downlink implements TmService: COMS receives the packets whole and in   *)
(* order, each at least once, and none is dropped before it was received.      *)
DeliveredAtLeastOnce == Service!Spec
=============================================================================

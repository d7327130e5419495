---------------------------- MODULE AntennaDeploy ----------------------------
(***************************************************************************)
(* The deployment of the antenna: an EPS message asks for it in the CAN      *)
(* interrupt (can_func.c: ALERT_DEPLOY), the router switches the burn on     *)
(* once in every turn of its loop and off when DEPLOY_TIMEOUT has passed     *)
(* (obc_packet_router.c:286-296), and ground may order it with a             *)
(* telecommand (DEPLOY_ANTENNA).  Requests carry no count and commands are   *)
(* not answered; a command that finds Can0_Mutex taken for more than a tick, *)
(* as request_sensor_data holds it, is not sent, and nobody looks.           *)
(*                                                                         *)
(* Time is measured from time_of_deploy.  A turn of the loop takes at most   *)
(* MaxPass: its receives, a telecommand, the transfer of a telemetry packet. *)
(***************************************************************************)
EXTENDS Naturals

CONSTANTS DEPLOY_TIMEOUT,   \* 60000 ticks in the code
          MaxPass           \* bound: ticks from one test of the flag to the next

ASSUME DeployAssumption ==
  /\ DEPLOY_TIMEOUT \in Nat
  /\ MaxPass \in Nat \ {0}

VARIABLES
  antenna_deploy,
  since,        \* ticks since time_of_deploy, as far as they matter
  place,        \* where the router is in a turn of its loop
  held,         \* age of the tick count it has read, or the difference to the
                \*   time_of_deploy it has read
  pass,         \* ticks since it tested the flag
  burn,         \* EPS, external: the wire is heated
  raced,        \* observer: a request came after this turn read the time
  offFailed,    \* observer: DEP_ANT_OFF was not sent
  byGround      \* observer: ground ordered a burn while the flag was not set

antennaVars == <<antenna_deploy, since, place, held, pass, burn, raced, offFailed, byGround>>

Enough == DEPLOY_TIMEOUT + 2 * MaxPass + 1

AntennaInit ==
  /\ antenna_deploy = 0 /\ since = Enough
  /\ place = "serve" /\ held = 0 /\ pass = 0
  /\ burn = 0
  /\ raced = 0 /\ offFailed = 0 /\ byGround = 0

-----------------------------------------------------------------------------
(* Between the two reads of the difference xTaskGetTickCount() -              *)
(* time_of_deploy, whose order C leaves open.                                *)
Subtracting == {"ticks", "time"}

Tick ==
  /\ pass < MaxPass /\ pass' = pass + 1
  /\ since' = IF since < Enough THEN since + 1 ELSE since
  /\ held' = IF place \in Subtracting THEN held + 1 ELSE held
  /\ UNCHANGED <<antenna_deploy, place, burn, raced, offFailed, byGround>>

(* From the reading of the time to the clearing of the flag. *)
Deciding == Subtracting \cup {"off", "clear"}

(* ALERT_DEPLOY in the interrupt. *)
Alert ==
  /\ antenna_deploy' = 1 /\ since' = 0
  /\ raced' = IF place \in Deciding THEN 1 ELSE raced
  /\ UNCHANGED <<place, held, pass, burn, offFailed, byGround>>

-----------------------------------------------------------------------------
(* The router *)

Goto(from, to) == place = from /\ place' = to

(* Faulty variant: the flag is looked at between two telecommands only. *)
TestUnlessReceiving ==
  /\ \/ Goto("test", "deploy") /\ antenna_deploy = 1
     \/ Goto("test", "serve")
  /\ pass' = 0 /\ raced' = 0
  /\ UNCHANGED <<antenna_deploy, since, held, burn, offFailed, byGround>>

TestFlag ==
  /\ Goto("test", IF antenna_deploy = 1 THEN "deploy" ELSE "serve")
  /\ pass' = 0 /\ raced' = 0
  /\ UNCHANGED <<antenna_deploy, since, held, burn, offFailed, byGround>>

(* Faulty variant: the time is taken anew with every command. *)
SendDeployTimed ==
  /\ Goto("deploy", "read")
  /\ burn' \in {burn, 1} /\ since' = 0
  /\ UNCHANGED <<antenna_deploy, held, pass, raced, offFailed, byGround>>

(* DEP_ANT_COMMAND, sent or not. *)
SendDeploy ==
  /\ Goto("deploy", "read")
  /\ burn' \in {burn, 1}
  /\ UNCHANGED <<antenna_deploy, since, held, pass, raced, offFailed, byGround>>

ReadTicks ==
  /\ Goto("read", "ticks") /\ held' = 0
  /\ UNCHANGED <<antenna_deploy, since, pass, burn, raced, offFailed, byGround>>

ReadTime ==
  /\ Goto("read", "time") /\ held' = since
  /\ UNCHANGED <<antenna_deploy, since, pass, burn, raced, offFailed, byGround>>

(* Faulty variant: off by one. *)
PassedOrEqual(ticks) == ticks >= DEPLOY_TIMEOUT

Passed(ticks) == ticks > DEPLOY_TIMEOUT

(* An old tick count less a new time_of_deploy is a large unsigned number. *)
SubtractTime ==
  /\ Goto("ticks", IF since < held \/ Passed(since - held) THEN "off" ELSE "serve")
  /\ held' = 0
  /\ UNCHANGED <<antenna_deploy, since, pass, burn, raced, offFailed, byGround>>

SubtractFromTicks ==
  /\ Goto("time", IF Passed(held) THEN "off" ELSE "serve")
  /\ held' = 0
  /\ UNCHANGED <<antenna_deploy, since, pass, burn, raced, offFailed, byGround>>

(* Faulty variant: the flag is cleared and the command forgotten. *)
SkipOff ==
  /\ Goto("off", "clear")
  /\ UNCHANGED <<antenna_deploy, since, held, pass, burn, raced, offFailed, byGround>>

(* DEP_ANT_OFF, sent or not. *)
SendOff ==
  /\ Goto("off", "clear")
  /\ \/ burn' = 0 /\ offFailed' = 0 /\ byGround' = 0
     \/ offFailed' = 1 /\ UNCHANGED <<burn, byGround>>
  /\ UNCHANGED <<antenna_deploy, since, held, pass, raced>>

ClearFlag ==
  /\ Goto("clear", "serve") /\ antenna_deploy' = 0
  /\ UNCHANGED <<since, held, pass, burn, raced, offFailed, byGround>>

(* DEPLOY_ANTENNA, among the telecommands of this turn: the command, sent or  *)
(* not, and time_of_deploy, but not the flag.                                *)
GroundDeploy ==
  /\ place = "serve"
  /\ since' = 0
  /\ \/ burn' = 1 /\ byGround' = (IF antenna_deploy = 0 THEN 1 ELSE byGround)
     \/ UNCHANGED <<burn, byGround>>
  /\ UNCHANGED <<antenna_deploy, place, held, pass, raced, offFailed>>

(* The rest of the loop, and the receives at its top. *)
NextTurn ==
  /\ Goto("serve", "test")
  /\ UNCHANGED <<antenna_deploy, since, held, pass, burn, raced, offFailed, byGround>>

RouterTurn ==
  \/ TestFlag \/ SendDeploy \/ ReadTicks \/ ReadTime \/ SubtractTime
  \/ SubtractFromTicks \/ SendOff \/ ClearFlag \/ NextTurn

AntennaNext == Tick \/ Alert \/ RouterTurn \/ GroundDeploy

AntennaSpec == AntennaInit /\ [][AntennaNext]_antennaVars

(* Time passes and the router, which never waits without a timeout, runs. *)
AntennaFairSpec == AntennaSpec /\ WF_antennaVars(Tick) /\ WF_antennaVars(RouterTurn)

-----------------------------------------------------------------------------
AntennaTypeOK ==
  /\ antenna_deploy \in 0..1 /\ burn \in 0..1
  /\ place \in {"serve", "test", "deploy", "read"} \cup Deciding
  /\ since \in 0..Enough /\ held \in 0..Enough /\ pass \in 0..MaxPass
  /\ raced \in 0..1 /\ offFailed \in 0..1 /\ byGround \in 0..1

(* A burn that the router watches over ends in time: it lasts DEPLOY_TIMEOUT  *)
(* after the last request, and at most two turns of the loop longer.         *)
BurnBounded ==
  burn = 1 /\ antenna_deploy = 1 => since <= DEPLOY_TIMEOUT + 2 * MaxPass

(* The times keep their ranges, and a watched burn is bounded.                *)
AntennaInv == AntennaTypeOK /\ BurnBounded

(* The wire is heated without the router watching, and so without end unless  *)
(* a new message asks for it, only after one of two things: DEP_ANT_OFF could  *)
(* not be sent, or ground ordered the burn.                                  *)
UnattendedBurn ==
  burn = 1 /\ antenna_deploy = 0 => offFailed = 1 \/ byGround = 1

(* Unless a message comes in while the router compares the times or switches  *)
(* the burn off, no burn is ended and no request forgotten before            *)
(* DEPLOY_TIMEOUT has passed since the last request.                         *)
NotCutShort ==
  [][(burn = 1 /\ burn' = 0) \/ (antenna_deploy = 1 /\ antenna_deploy' = 0)
       => since > DEPLOY_TIMEOUT \/ raced = 1]_antennaVars

(* The router stops burning for good, unless requests keep coming.           *)
DeploymentEnds ==
  []<><<Alert>>_antennaVars \/ []<><<GroundDeploy>>_antennaVars \/ <>[](antenna_deploy = 0)
=============================================================================

----------------------------- MODULE CarControl ------------------------------
(***************************************************************************)
(* The firmware of a vehicle: ControlTask's state machine (car/src/main.cpp) *)
(* with what it receives from the MQTT callback and from the camera.        *)
(*                                                                         *)
(* A period of ControlTask is two steps, Look (obstacles) and Run (the      *)
(* switch over the states); commands are obeyed before a period.  A command *)
(* that comes within a period, or waits in g_cmdQ, is obeyed before the     *)
(* next one, and one that finds g_cmdQ full never comes.  Time and distance *)
(* are choices: whenever the code compares a tick or an encoder count with  *)
(* a limit, both outcomes are possible, except right after a reset.         *)
(***************************************************************************)
EXTENDS Naturals, Sequences

CONSTANTS
  CarId,       \* CAR_ID, 1 or 2
  Commands,    \* [kind, arg]: the commands that reach mqttCallback
  Kinds,       \* obstacle labels the camera may report
  RoadNums,    \* the numbers of roads in CNT commands
  Photos,      \* turns of a photo session (5 in the code)
  MaxCount     \* bound: where roadCount stops counting

ASSUME CarIdAssumption == CarId \in {1, 2}
ASSUME CountAssumption == MaxCount \in Nat /\ \A n \in RoadNums : n \in Nat /\ n + 1 < MaxCount
Directions == {"STRAIGHT", "LEFT", "RIGHT", "UTURN", "ARRIVED"}

ASSUME CommandsAssumption ==
  \A cmd \in Commands : \/ cmd.kind = "ORIENT" /\ cmd.arg \in Directions
                        \/ cmd.kind = "ACTION" /\ cmd.arg \in {"PAUSE", "PROCESS", "UTURN"}
                        \/ cmd.kind \in {"CNT", "CAPTURE"}
ASSUME PhotosAssumption == Photos \in Nat \ {0}

VARIABLES
  ctx,      \* Ctrl ctx, with the motors and the reports of the last step
  phase,    \* what ControlTask does next: "look" or "run"
  frame,    \* visionData: the latest frame, kept until another one comes
  capMode,  \* g_capMode: VisionTask is suspended
  fresh     \* at a junction: did a direction come since its ARRIVE?

vars == <<ctx, phase, frame, capMode, fresh>>

-----------------------------------------------------------------------------
Temporary == {"dog", "cat", "people"}

(* A label stands for an obstacle on the own road (no x coordinate, or one   *)
(* within it), "aside" for any obstacle beside it.  The empty label that     *)
(* visionData starts with comes with the coordinate 0, which is aside.       *)
Frames == [node : {0, 1}, type : Kinds \cup {"none", "aside"}]
FirstFrame == [node |-> 0, type |-> "aside"]

(* orient is "NONE" unless gotOrient, obsWait the obstacle kept (obsType) or *)
(* "none"; neither orient nor obsType is used otherwise.  back: bkE1 or bkE2 *)
(* is not 0.                                                               *)
Init ==
  /\ ctx = [state |-> "IDLE", orient |-> "NONE", roadNum |-> 0, roadCount |-> 0,
            lastNd |-> 0, junc |-> "NONE", obsSent |-> FALSE, tempStop |-> FALSE,
            slaveStop |-> FALSE, slaveSent |-> FALSE, obsWait |-> "none",
            back |-> FALSE, backing |-> FALSE, ncnt |-> 0, atJunc |-> FALSE,
            capSt |-> "IN", capCnt |-> 0, capWait |-> FALSE, fromCap |-> FALSE,
            preState |-> "IDLE", preCapSt |-> "NONE", motor |-> "off", sent |-> <<>>]
  /\ phase = "look" /\ frame = FirstFrame /\ capMode = FALSE /\ fresh = FALSE

Say(c, event) == [c EXCEPT !.sent = Append(@, event)]
SayIf(cond, c, event) == IF cond THEN Say(c, event) ELSE c

-----------------------------------------------------------------------------
(* The helpers of ControlTask.                                             *)
RstJunc(c) == [c EXCEPT !.junc = "NONE", !.orient = "NONE", !.obsWait = "none"]
RstBack(c) == [c EXCEPT !.backing = FALSE, !.back = FALSE]

Counted(c) == [c EXCEPT !.roadCount = IF @ < MaxCount THEN @ + 1 ELSE @]

MutOnJunc(c) ==
  Say(Counted([c EXCEPT !.junc = "IN", !.obsWait = "none", !.obsSent = FALSE]), "ARRIVE")

OnJunc(c) ==
  Say(Counted([RstJunc(c) EXCEPT !.junc = "IN", !.obsSent = FALSE]), "ARRIVE")

MutStartCap(c) ==
  [c EXCEPT !.preState = c.state, !.preCapSt = c.junc, !.capSt = "IN", !.state = "CAPTURE"]

StartCap(c) ==
  [c EXCEPT !.preState = c.state, !.preCapSt = c.junc, !.capSt = "IN",
            !.state = "CAPTURE", !.motor = "off"]

MutStopObs(c, type, far) ==
  LET told == IF c.obsSent THEN c
              ELSE SayIf(type # "slave" \/ CarId = 1,
                         [c EXCEPT !.obsSent = TRUE, !.slaveStop = @ \/ type = "slave",
                                   !.tempStop = @ \/ type \in Temporary], "OBSTACLE")
  IN [told EXCEPT !.state = "IDLE", !.motor = "off",
                  !.back = IF told.tempStop THEN @ ELSE far]

(* far: the odometer shows more than the 100 counts the brakes account for.  *)
StopObs(c, type, far) ==
  LET sets == [c EXCEPT !.obsSent = TRUE,
                        !.slaveStop = @ \/ type = "slave",
                        !.tempStop = @ \/ type \in Temporary]
      told == IF c.obsSent THEN c
              ELSE SayIf(type # "slave" \/ CarId = 1, sets, "OBSTACLE")
      stopped == RstJunc([told EXCEPT !.state = "IDLE", !.motor = "off"])
  IN IF stopped.tempStop THEN stopped
     ELSE [stopped EXCEPT !.back = far, !.backing = FALSE]

DoOrient(c) ==
  CASE c.orient \in {"LEFT", "RIGHT", "UTURN"} ->
         [c EXCEPT !.state = "TURN", !.motor = "spin"]
    [] c.orient = "STRAIGHT" -> [c EXCEPT !.state = "FOLLOW"]
    [] OTHER -> [c EXCEPT !.state = "IDLE", !.motor = "off"]

Used(c) == [c EXCEPT !.orient = "NONE", !.obsWait = "none"]

(* Straight on into the obstacle it has kept: it stops in mid-junction.      *)
ExecOrient(c) ==
  IF c.obsWait # "none" /\ c.orient = "STRAIGHT"
  THEN Used([StopObs(c, c.obsWait, FALSE) EXCEPT !.back = FALSE, !.atJunc = TRUE])
  ELSE LET done == Used(DoOrient(c))
       IN IF done.state = "FOLLOW" THEN [done EXCEPT !.junc = "OUT"] ELSE done

-----------------------------------------------------------------------------
(* mqttCallback and the command loop.  A direction is only noted.            *)
Process(c) ==
  IF c.state # "IDLE" THEN c
  ELSE [RstBack(c) EXCEPT !.state = "FOLLOW", !.lastNd = 0, !.obsSent = FALSE,
                          !.atJunc = FALSE]

TurnAround(c) ==
  [c EXCEPT !.state = "TURN", !.motor = "spin", !.backing = @ \/ c.back,
            !.slaveStop = FALSE, !.slaveSent = FALSE]

(* In a junction the photo session is put off.                              *)
Capture(c) ==
  LET d == [c EXCEPT !.capCnt = 0]
  IN IF c.state \in {"TURN", "ACQUIRE", "WAIT"} \/ (c.state = "FOLLOW" /\ c.junc # "NONE")
     THEN [d EXCEPT !.capWait = TRUE]
     ELSE StartCap(d)

Commanded(c, cmd) ==
  CASE cmd.kind = "ORIENT" -> {[c EXCEPT !.orient = cmd.arg]}
    [] cmd.kind = "ACTION" /\ cmd.arg = "PAUSE" ->
         {[c EXCEPT !.state = "IDLE", !.motor = "off"]}
    [] cmd.kind = "ACTION" /\ cmd.arg = "PROCESS" -> {Process(c)}
    [] cmd.kind = "ACTION" /\ cmd.arg = "UTURN" -> {TurnAround(c)}
    [] cmd.kind = "CNT" -> {[c EXCEPT !.roadNum = n, !.roadCount = 0] : n \in RoadNums}
    [] cmd.kind = "CAPTURE" -> {Capture(c)}

Obey(cmd) ==
  /\ phase = "look"
  /\ ctx' \in Commanded([ctx EXCEPT !.sent = <<>>], cmd)
  /\ fresh' = (fresh \/ (cmd.kind = "ORIENT" /\ ctx.junc = "IN"))
  /\ UNCHANGED <<phase, frame, capMode>>

-----------------------------------------------------------------------------
(* The obstacle block: stop at once, or keep it for the direction.           *)
AtMarker(c, f) == c.state = "FOLLOW" /\ f.node = 1 /\ c.junc # "OUT"
Approaches(c, f) ==
  c.state = "WAIT" \/ (c.state = "FOLLOW" /\ c.junc = "IN" /\ f.node = 0)
OnTheRoad(c, f) == c.state = "FOLLOW" /\ f.node = 0 /\ c.junc = "NONE"

SeesObstacle(c, f, far) ==
  LET arrived == IF c.junc = "NONE" /\ c.lastNd = 0 THEN OnJunc(c) ELSE c
  IN CASE AtMarker(c, f) -> StopObs(arrived, f.type, far /\ arrived = c)
       [] Approaches(c, f) -> [c EXCEPT !.obsWait = IF @ = "none" THEN f.type ELSE @]
       [] OnTheRoad(c, f) -> StopObs(c, f.type, far)
       [] OTHER -> c

(* After three times "none" an animal, or the vehicle ahead, has gone.       *)
Resume(c, f) == Say([c EXCEPT !.lastNd = f.node, !.state = "FOLLOW"], "REPAIRED")

MutSeesNothing(c, f, longEnough) ==
  LET slave == IF c.slaveStop /\ ~c.slaveSent /\ (CarId = 1 \/ longEnough)
               THEN Resume([c EXCEPT !.slaveStop = FALSE], f) ELSE c
  IN IF c.ncnt < 3 THEN c ELSE [slave EXCEPT !.obsSent = FALSE, !.obsWait = "none"]

SeesNothing(c, f, longEnough) ==
  LET animal == IF c.tempStop THEN Resume([c EXCEPT !.tempStop = FALSE], f) ELSE c
      slave == IF animal.slaveStop /\ ~animal.slaveSent /\ (CarId = 1 \/ longEnough)
               THEN Resume([animal EXCEPT !.slaveStop = FALSE], f) ELSE animal
  IN IF c.ncnt < 3 THEN c ELSE [slave EXCEPT !.obsSent = FALSE, !.obsWait = "none"]

OnceMore(c) == [c EXCEPT !.ncnt = IF @ < 3 THEN @ + 1 ELSE @]

MutSeen(c, f, far, longEnough) ==
  CASE f.type = "car" -> c
    [] f.type = "none" -> SeesNothing(OnceMore(c), f, longEnough)
    [] OTHER -> SeesObstacle([c EXCEPT !.ncnt = 0], f, far)

Seen(c, f, far, longEnough) ==
  CASE f.type = "car" -> c
    [] f.type = "none" -> SeesNothing(OnceMore(c), f, longEnough)
    [] f.type = "aside" -> [c EXCEPT !.ncnt = 0]
    [] OTHER -> SeesObstacle([c EXCEPT !.ncnt = 0], f, far)

(* A period begins with the newest frame, or with the old one once more.     *)
NewFrame == ~capMode /\ frame' \in Frames
OldFrame == UNCHANGED frame

Heard(c) ==
  fresh' = (fresh /\ c.junc = "IN" /\ \A i \in DOMAIN c.sent : c.sent[i] # "ARRIVE")

Look ==
  /\ phase = "look" /\ phase' = "run"
  /\ OldFrame \/ NewFrame
  /\ \E far, longEnough \in BOOLEAN :
       ctx' = Seen([ctx EXCEPT !.sent = <<>>], frame', far, longEnough)
  /\ Heard(ctx')
  /\ UNCHANGED capMode

-----------------------------------------------------------------------------
(* The switch over the states.                                             *)
Begin(state) ==
  /\ phase = "run" /\ ctx.state = state
  /\ phase' = "look"
  /\ UNCHANGED frame

Now == [ctx EXCEPT !.sent = <<>>]
Put(c) == ctx' = c /\ Heard(c)

(* Vehicle 1 reports a vehicle that does not drive on for 3 s once more.     *)
RunIdle ==
  /\ Begin("IDLE")
  /\ \/ ctx.capWait /\ Put(StartCap([Now EXCEPT !.capWait = FALSE]))
     \/ /\ ~ctx.capWait
        /\ \/ Put(Now)
           \/ /\ ctx.slaveStop /\ ~ctx.slaveSent /\ CarId = 1
              /\ Put(Say([Now EXCEPT !.slaveSent = TRUE], "OBSTACLE"))
  /\ UNCHANGED capMode

RunFollowPhoto ==
  /\ Begin("FOLLOW") /\ ctx.capWait /\ ctx.junc = "NONE"
  /\ Put(StartCap([Now EXCEPT !.capWait = FALSE]))
  /\ UNCHANGED capMode

(* The rising edge of the marker.                                           *)
Edge(c, f) == c.junc = "NONE" /\ f.node = 1 /\ c.lastNd = 0
CountReached(c) == c.roadNum # 0 /\ c.roadCount >= c.roadNum + 1

Halted(c) ==
  RstJunc([c EXCEPT !.state = "IDLE", !.motor = "off", !.roadCount = 0])

MutAtCentre(c) ==
  IF c.orient # "NONE" THEN ExecOrient(c) ELSE [c EXCEPT !.state = "WAIT"]

AtCentre(c) ==
  IF c.orient # "NONE" THEN ExecOrient(c) ELSE [c EXCEPT !.state = "WAIT", !.motor = "off"]

BackAtOrigin(c) ==
  [OnJunc([RstBack(c) EXCEPT !.obsSent = FALSE, !.motor = "off"]) EXCEPT !.state = "WAIT"]

(* passed, reached, left: the counts are beyond the centre of the junction,  *)
(* the way back and the length without obstacles.                          *)
Followed(c, f, passed, reached, left) ==
  LET edge == Edge(c, f)
      line == IF edge THEN OnJunc([c EXCEPT !.motor = "line"]) ELSE [c EXCEPT !.motor = "line"]
      centre == line.junc = "IN" /\ passed /\ ~edge
      gone == IF centre THEN AtCentre(line) ELSE line
      reset == edge \/ (centre /\ (gone.state = "TURN" \/ gone.junc = "OUT"))
      noted == [gone EXCEPT !.lastNd = f.node]
  IN CASE CountReached(line) -> Halted(line)
       [] ~CountReached(line) /\ noted.backing /\ (noted.back => reached /\ ~reset) ->
            BackAtOrigin(noted)
       [] OTHER ->
            IF noted.junc = "OUT" /\ f.node = 0 /\ left /\ ~reset
            THEN [noted EXCEPT !.junc = "NONE"] ELSE noted

RunFollow ==
  /\ Begin("FOLLOW") /\ ~(ctx.capWait /\ ctx.junc = "NONE")
  /\ \E passed, reached, left \in BOOLEAN : Put(Followed(Now, frame, passed, reached, left))
  /\ UNCHANGED capMode

RunWait ==
  /\ Begin("WAIT")
  /\ Put(IF ctx.orient # "NONE" THEN ExecOrient(Now) ELSE Now)
  /\ UNCHANGED capMode

MutWaitTimesOut ==
  /\ Begin("WAIT") /\ ctx.orient = "NONE"
  /\ ctx.junc = "NONE"
  /\ Put(RstJunc([Now EXCEPT !.state = "IDLE", !.motor = "off"]))
  /\ UNCHANGED capMode

WaitTimesOut ==
  /\ Begin("WAIT") /\ ctx.orient = "NONE"
  /\ Put(RstJunc([Now EXCEPT !.state = "IDLE", !.motor = "off"]))
  /\ UNCHANGED capMode

RunTurn ==
  /\ Begin("TURN")
  /\ Put(Now) \/ Put([Now EXCEPT !.state = "ACQUIRE"])
  /\ UNCHANGED capMode

(* The line is found again.                                                *)
Aligned(c) ==
  CASE c.fromCap ->
         [c EXCEPT !.fromCap = FALSE, !.state = c.preState, !.junc = c.preCapSt]
    [] ~c.fromCap /\ c.atJunc ->
         [OnJunc(RstBack([c EXCEPT !.atJunc = FALSE])) EXCEPT !.state = "WAIT"]
    [] OTHER -> [c EXCEPT !.state = "FOLLOW", !.junc = "OUT"]

RunAcquire ==
  /\ Begin("ACQUIRE")
  /\ \/ Put([Now EXCEPT !.motor = "spin"])
     \/ Put(Aligned([Now EXCEPT !.motor = "off"]))
  /\ UNCHANGED capMode

(* The photo session: what the camera answers moves it on within a period.   *)
Answered(c) ==
  {c} \cup (CASE c.capSt = "ACK" -> {[c EXCEPT !.capSt = "NAME"]}
              [] c.capSt = "RESP" -> {[c EXCEPT !.capSt = "ROT"]}
              [] OTHER -> {})

NextPhoto(c) ==
  LET d == [c EXCEPT !.motor = "off", !.capCnt = IF @ < Photos THEN @ + 1 ELSE @]
  IN IF d.capCnt = Photos THEN [d EXCEPT !.fromCap = TRUE, !.state = "ACQUIRE"]
                          ELSE [d EXCEPT !.capSt = "RESP"]

Session(c) ==
  CASE c.capSt = "IN" -> {[c EXCEPT !.capSt = "ACK"]}
    [] c.capSt = "NAME" -> {[c EXCEPT !.capSt = "RESP"]}
    [] c.capSt = "ROT" -> {[c EXCEPT !.capSt = "TURN", !.motor = "spin"]}
    [] c.capSt = "TURN" -> {c, NextPhoto(c)}
    [] OTHER -> {c}

RunCapture ==
  /\ Begin("CAPTURE")
  /\ \E heard \in Answered(Now) : \E c \in Session(heard) :
       /\ Put(c)
       /\ capMode' = (c.state = "CAPTURE" /\ (capMode \/ heard.capSt = "IN"))

MutCaptureTimesOut ==
  /\ Begin("CAPTURE")
  /\ \E heard \in Answered(Now) :
       /\ heard.capSt \in {"ACK", "TURN"}
       /\ Put([heard EXCEPT !.state = "IDLE"])
  /\ capMode' = FALSE

(* Only the waiting stages have a limit; the motors are left as they are.    *)
CaptureTimesOut ==
  /\ Begin("CAPTURE")
  /\ \E heard \in Answered(Now) :
       /\ heard.capSt \in {"ACK", "RESP", "TURN"}
       /\ Put([heard EXCEPT !.state = "IDLE"])
  /\ capMode' = FALSE

-----------------------------------------------------------------------------
Run ==
  \/ RunIdle \/ RunFollowPhoto \/ RunFollow \/ RunWait \/ WaitTimesOut \/ RunTurn
  \/ RunAcquire \/ RunCapture \/ CaptureTimesOut

ControlTask == Look \/ Run

Next == ControlTask \/ \E cmd \in Commands : Obey(cmd)

Spec == Init /\ [][Next]_vars

(* ControlTask has the highest priority of its core.  The limit of a wait is  *)
(* checked in every period, so one that is entered again and again is either *)
(* left in time or runs out; that it runs out in the end only removes        *)
(* behaviours in which every single wait ends anyway.                       *)
FairSpec ==
  /\ Spec
  /\ WF_vars(ControlTask)
  /\ SF_vars(WaitTimesOut) /\ SF_vars(CaptureTimesOut)

-----------------------------------------------------------------------------
Reports == {"ARRIVE", "OBSTACLE", "REPAIRED"}
States == {"IDLE", "FOLLOW", "TURN", "ACQUIRE", "WAIT", "CAPTURE"}
Photographable == {"IDLE", "FOLLOW", "CAPTURE"}
Junctions == {"NONE", "IN", "OUT"}
Stages == {"IN", "ACK", "NAME", "RESP", "ROT", "TURN"}
Motors == {"off", "line", "spin"}
Context ==
  [state : States, orient : Directions \cup {"NONE"},
   roadNum : RoadNums \cup {0}, roadCount : 0..MaxCount, lastNd : {0, 1},
   junc : Junctions, obsSent : BOOLEAN, tempStop : BOOLEAN,
   slaveStop : BOOLEAN, slaveSent : BOOLEAN, obsWait : Kinds \cup {"none"},
   back : BOOLEAN, backing : BOOLEAN, ncnt : 0..3, atJunc : BOOLEAN,
   capSt : Stages, capCnt : 0..Photos, capWait : BOOLEAN, fromCap : BOOLEAN,
   preState : Photographable, preCapSt : Junctions, motor : Motors,
   sent : Seq(Reports)]

(* Every variable has its type.                                             *)
TypeOK ==
  /\ ctx \in Context /\ Len(ctx.sent) <= 2
  /\ phase \in {"look", "run"}
  /\ frame \in Frames
  /\ capMode \in BOOLEAN /\ fresh \in BOOLEAN

(* At a junction the car only acts on a direction that came after it had     *)
(* announced that junction: onJunc discards one that came on the road before *)
(* (main.cpp 190-200), although host/master/mqtt-api.md 41 and 102 have the   *)
(* host give the direction for the next junction before the car is there.   *)
FreshDirection == ctx.junc = "IN" /\ ctx.orient # "NONE" => fresh

(* A car comes to idle or to wait with its motors off.  The one exception is *)
(* a photo session whose rotation times out: the motors keep turning until   *)
(* something else stops them (main.cpp 815-824).                            *)
Stands(c) == c.state \in {"IDLE", "WAIT"}
Turning(c) == Stands(c) /\ c.motor # "off"
StandsStill ==
  [][Turning(ctx') => Turning(ctx) \/ (CaptureTimesOut /\ ctx.capSt = "TURN")]_vars

(* A car does not wait for a direction for ever (COMMAND_WAIT_TIMEOUT_MS).   *)
WaitEnds == ctx.state = "WAIT" ~> ctx.state # "WAIT"

(* A photo session ends, whether the camera answers or not, unless another   *)
(* one is asked for within it.                                             *)
PhotosEnd ==
  ctx.state = "CAPTURE" ~> ctx.state # "CAPTURE" \/ ctx.preState = "CAPTURE"

(* A car that stopped for an animal drives on, unless something comes into   *)
(* view again.                                                             *)
AnimalPasses ==
  ctx.tempStop /\ frame.type = "none" ~> ~ctx.tempStop \/ frame.type # "none"

(* The vehicle of the host.  A car that turns, or has its direction, is on   *)
(* its way; one whose direction is ARRIVED is about to stop.                 *)
AtJunction == ctx.junc = "IN" /\ ctx.state \in {"FOLLOW", "WAIT"}
Drive ==
  CASE ctx.state \in {"IDLE", "CAPTURE"} -> IF ctx.junc = "IN" THEN "held" ELSE "idle"
    [] AtJunction /\ ctx.orient = "NONE" -> "junction"
    [] AtJunction /\ ctx.orient = "ARRIVED" -> "stopping"
    [] OTHER -> "follow"

V == INSTANCE Vehicle WITH drive <- Drive, turned <- ctx.backing, said <- ctx.sent,
                           Counts <- RoadNums # {}

(* The firmware keeps to what the host assumes of a vehicle.                 *)
VehicleSpec == V!Spec
=============================================================================

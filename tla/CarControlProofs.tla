--------------------------- MODULE CarControlProofs ---------------------------
(***************************************************************************)
(* What CarControl.tla promises for every vehicle, every set of commands,    *)
(* obstacles and road numbers, proved with TLAPS.                           *)
(*                                                                         *)
(* A period of ControlTask is a composition of helpers over the context.  Each *)
(* helper has a lemma that says what it does to the few fields the           *)
(* properties speak of; the steps are then told apart by their outcome only.  *)
(***************************************************************************)
EXTENDS CarControl, SequenceTheorems, TLAPS

(* What a photo session has noted for its end.                              *)
SamePhotos(c, d) ==
  /\ d.capSt = c.capSt /\ d.capWait = c.capWait /\ d.fromCap = c.fromCap
  /\ d.preState = c.preState /\ d.preCapSt = c.preCapSt

(* Where the vehicle is, and what it was told.                               *)
SamePlace(c, d) ==
  d.junc = c.junc /\ d.orient = c.orient /\ d.backing = c.backing /\ SamePhotos(c, d)

(* The outcomes of the helpers, from a context c to d.                       *)
Reported(c, d, event) == d.sent = c.sent \/ d.sent = Append(c.sent, event)
Stood(c, d) ==
  /\ d.state = "IDLE" /\ d.motor = "off" /\ d.junc = "NONE" /\ d.orient = "NONE"
  /\ (d.backing => c.backing) /\ SamePhotos(c, d)
Arrived(c, d) ==
  /\ d.state = c.state /\ d.motor = c.motor /\ d.junc = "IN" /\ d.orient = "NONE"
  /\ d.backing = c.backing /\ SamePhotos(c, d) /\ d.sent = Append(c.sent, "ARRIVE")
Executed(c, d) ==
  \/ Stood(c, d) /\ Reported(c, d, "OBSTACLE")
  \/ /\ d.orient = "NONE" /\ d.backing = c.backing /\ SamePhotos(c, d) /\ d.sent = c.sent
     /\ \/ /\ c.orient \in {"LEFT", "RIGHT", "UTURN"}
           /\ d.state = "TURN" /\ d.junc = c.junc
        \/ c.orient = "STRAIGHT" /\ d.state = "FOLLOW" /\ d.junc = "OUT"
        \/ /\ c.orient = "ARRIVED"
           /\ d.state = "IDLE" /\ d.motor = "off" /\ d.junc = c.junc
SessionBegun(c, d) ==
  /\ d.state = "CAPTURE" /\ d.motor = "off" /\ d.capSt = "IN"
  /\ d.preState = c.state /\ d.preCapSt = c.junc /\ d.fromCap = c.fromCap
  /\ d.junc = c.junc /\ d.orient = c.orient /\ d.backing = c.backing /\ d.sent = c.sent

(* The outcomes of a step, where nothing had been reported in c.             *)
A == "ARRIVE"
O == "OBSTACLE"
R == "REPAIRED"
Rests(c, d) == d.state = c.state /\ d.motor = c.motor /\ SamePlace(c, d) /\ d.sent = <<>>
Resumes(c, d) == d.state = "FOLLOW" /\ SamePlace(c, d) /\ d.sent \in {<<R>>, <<R, R>>}
Stops(c, d) ==
  /\ c.state = "FOLLOW" /\ c.junc # "OUT" /\ Stood(c, d)
  /\ d.sent \in {<<>>, <<O>>} \cup IF c.junc = "NONE" THEN {<<A>>, <<A, O>>} ELSE {}

-----------------------------------------------------------------------------
(* Two reports, one after the other.                                         *)
LEMMA Twice ==
  ASSUME NEW r \in Reports, NEW q \in Reports
  PROVE  Append(<<>>, r) = <<r>> /\ Append(<<q>>, r) = <<q, r>>
<1>1. <<q>> \in Seq(Reports) /\ <<q, r>> \in Seq(Reports)
  OBVIOUS
<1>2. Append(<<q>>, r) \in Seq(Reports) /\ Len(Append(<<q>>, r)) = 2
  BY <1>1
<1>3. Len(<<q, r>>) = 2 /\ \A i \in 1..2 : Append(<<q>>, r)[i] = <<q, r>>[i]
  OBVIOUS
<1>4. Append(<<q>>, r) = <<q, r>>
  BY <1>1, <1>2, <1>3, SeqEqual
<1>5. Append(<<>>, r) = <<r>>
  OBVIOUS
<1> QED  BY <1>4, <1>5

(* The sequence of reports grows by reports.                                 *)
LEMMA SayFacts ==
  ASSUME NEW c \in Context, NEW event \in Reports, NEW d, d = Say(c, event)
  PROVE  /\ d \in Context /\ d.sent = Append(c.sent, event)
         /\ d.state = c.state /\ d.motor = c.motor /\ SamePlace(c, d)
<1>1. c.sent \in Seq(Reports)
  BY DEF Context
<1> Append(c.sent, event) \in Seq(Reports)
  BY <1>1
<1>2. PICK s \in Seq(Reports) : s = Append(c.sent, event)
  OBVIOUS
<1>3. d = [c EXCEPT !.sent = s]
  BY <1>2 DEF Say
<1> QED  BY <1>2, <1>3 DEF Context, SamePlace, SamePhotos

(* A direction and a kept obstacle do not outlive their junction.             *)
LEMMA RstJuncFacts ==
  ASSUME NEW c \in Context, NEW d, d = RstJunc(c)
  PROVE  /\ d \in Context /\ d.sent = c.sent /\ d.state = c.state /\ d.motor = c.motor
         /\ d.junc = "NONE" /\ d.orient = "NONE" /\ d.backing = c.backing /\ SamePhotos(c, d)
         /\ d.tempStop = c.tempStop /\ d.roadNum = c.roadNum
BY DEF RstJunc, Context, SamePhotos, Junctions

(* The way back is forgotten, and nothing else.                              *)
LEMMA RstBackFacts ==
  ASSUME NEW c \in Context, NEW d, d = RstBack(c)
  PROVE  /\ d \in Context /\ d.sent = c.sent /\ d.state = c.state /\ d.motor = c.motor
         /\ d.junc = c.junc /\ d.orient = c.orient /\ d.backing = FALSE /\ SamePhotos(c, d)
BY DEF RstBack, Context, SamePhotos

(* Counting a road touches only the count.                                   *)
LEMMA CountedFacts ==
  ASSUME NEW c \in Context, NEW d, d = Counted(c)
  PROVE  /\ d \in Context /\ d.sent = c.sent /\ d.state = c.state /\ d.motor = c.motor
         /\ SamePlace(c, d)
<1>1. PICK n \in 0..MaxCount : n = IF c.roadCount < MaxCount THEN c.roadCount + 1 ELSE c.roadCount
  BY CountAssumption DEF Context
<1>2. d = [c EXCEPT !.roadCount = n]
  BY <1>1 DEF Counted
<1> QED  BY <1>1, <1>2 DEF Context, SamePlace, SamePhotos

(* A junction is announced once, and the direction for it is still to come.   *)
LEMMA OnJuncFacts ==
  ASSUME NEW c \in Context, NEW d, d = OnJunc(c)
  PROVE  d \in Context /\ Arrived(c, d)
<1>1. PICK r \in Context : r = RstJunc(c)
  BY RstJuncFacts
<1>2. r.sent = c.sent /\ r.state = c.state /\ r.motor = c.motor /\ r.orient = "NONE"
      /\ r.backing = c.backing /\ SamePhotos(c, r)
  BY <1>1, RstJuncFacts
<1> [r EXCEPT !.junc = "IN", !.obsSent = FALSE] \in Context
  BY DEF Context, Junctions
<1>3. PICK e \in Context : e = [r EXCEPT !.junc = "IN", !.obsSent = FALSE]
  OBVIOUS
<1>4. e.sent = r.sent /\ e.state = r.state /\ e.motor = r.motor /\ e.orient = r.orient
      /\ e.junc = "IN" /\ e.backing = r.backing /\ SamePhotos(r, e)
  BY <1>3 DEF Context, SamePhotos
<1>5. PICK n \in Context : n = Counted(e)
  BY CountedFacts
<1>6. n.sent = e.sent /\ n.state = e.state /\ n.motor = e.motor /\ SamePlace(e, n)
  BY <1>5, CountedFacts
<1>7. d = Say(n, "ARRIVE")
  BY <1>1, <1>3, <1>5 DEF OnJunc
<1>8. d \in Context /\ d.sent = Append(n.sent, "ARRIVE") /\ d.state = n.state /\ d.motor = n.motor /\ SamePlace(n, d)
  BY <1>7, SayFacts DEF Reports
<1> QED  BY <1>2, <1>4, <1>6, <1>8 DEF Arrived, SamePlace, SamePhotos

(* An obstacle stops the vehicle where it is.                                *)
LEMMA StopObsFacts ==
  ASSUME NEW c \in Context, NEW type \in Kinds \cup {"none", "aside"}, NEW far \in BOOLEAN,
         NEW d, d = StopObs(c, type, far)
  PROVE  d \in Context /\ Stood(c, d) /\ Reported(c, d, "OBSTACLE")
<1> DEFINE slave == c.slaveStop \/ type = "slave"
           temp == c.tempStop \/ type \in Temporary
           sets == [c EXCEPT !.obsSent = TRUE, !.slaveStop = slave, !.tempStop = temp]
<1>1. slave \in BOOLEAN /\ temp \in BOOLEAN
  OBVIOUS
<1>2. sets \in Context /\ sets.sent = c.sent /\ SamePlace(c, sets)
  <2> HIDE DEF slave, temp
  <2> QED  BY <1>1 DEF Context, SamePlace, SamePhotos
<1> DEFINE loud == SayIf(type # "slave" \/ CarId = 1, sets, "OBSTACLE")
<1>3. loud \in Context /\ Reported(c, loud, "OBSTACLE") /\ SamePlace(c, loud)
  <2> HIDE DEF sets
  <2> DEFINE say == Say(sets, "OBSTACLE")
  <2>1. say \in Context /\ say.sent = Append(sets.sent, "OBSTACLE") /\ SamePlace(sets, say)
    BY <1>2, SayFacts DEF Reports
  <2>2. loud = say \/ loud = sets
    BY DEF SayIf
  <2> HIDE DEF say
  <2> QED  BY <1>2, <2>1, <2>2 DEF Reported, SamePlace, SamePhotos
<1> DEFINE told == IF c.obsSent THEN c ELSE loud
<1>4. told \in Context /\ Reported(c, told, "OBSTACLE") /\ SamePlace(c, told)
  <2> HIDE DEF loud
  <2> QED  BY <1>3 DEF Reported, SamePlace, SamePhotos
<1> DEFINE halt == [told EXCEPT !.state = "IDLE", !.motor = "off"]
<1>5. /\ halt \in Context /\ halt.sent = told.sent /\ SamePlace(told, halt)
      /\ halt.state = "IDLE" /\ halt.motor = "off"
  <2> HIDE DEF told
  <2>1. halt \in Context
    BY <1>4 DEF Context, States, Motors
  <2> QED  BY <1>4, <2>1 DEF Context, SamePlace, SamePhotos
<1> DEFINE stopped == RstJunc(halt)
<1>6. /\ stopped \in Context /\ stopped.sent = halt.sent /\ SamePhotos(halt, stopped)
      /\ stopped.state = "IDLE" /\ stopped.motor = "off" /\ stopped.junc = "NONE"
      /\ stopped.orient = "NONE" /\ stopped.backing = halt.backing
  <2> HIDE DEF halt
  <2> QED  BY <1>5, RstJuncFacts
<1>7. d = IF stopped.tempStop THEN stopped ELSE [stopped EXCEPT !.back = far, !.backing = FALSE]
  BY DEF StopObs
<1>8. Stood(c, stopped) /\ Reported(c, stopped, "OBSTACLE")
  <2> HIDE DEF stopped, halt, told
  <2> QED  BY <1>4, <1>5, <1>6 DEF Stood, Reported, SamePlace, SamePhotos
<1>9. CASE stopped.tempStop
  BY <1>6, <1>7, <1>8, <1>9
<1>10. CASE ~stopped.tempStop
  <2> HIDE DEF stopped
  <2>1. d = [stopped EXCEPT !.back = far, !.backing = FALSE]
    BY <1>7, <1>10
  <2>0. [stopped EXCEPT !.back = far, !.backing = FALSE] \in Context
    BY <1>6 DEF Context
  <2>2. d \in Context
    BY <2>0, <2>1
  <2>3. /\ d.sent = stopped.sent /\ SamePhotos(stopped, d)
        /\ d.state = stopped.state /\ d.motor = stopped.motor
        /\ d.junc = stopped.junc /\ d.orient = stopped.orient /\ d.backing = FALSE
    BY <1>6, <2>1 DEF Context, SamePhotos
  <2> QED  BY <1>8, <2>2, <2>3 DEF Stood, Reported, SamePhotos
<1> QED  BY <1>9, <1>10

(* A photo session begins at rest and remembers what it interrupts.           *)
LEMMA StartCapFacts ==
  ASSUME NEW c \in Context, c.state \in Photographable
  PROVE  /\ StartCap(c) \in Context /\ SessionBegun(c, StartCap(c))
         /\ StartCap(c).capWait = c.capWait
<1>1. c.junc \in Junctions
  BY DEF Context
<1>2. StartCap(c) \in Context
  BY <1>1 DEF StartCap, Context, Stages, States, Motors
<1> QED  BY <1>2 DEF StartCap, SessionBegun, Context

(* A direction leads into a turn, straight on or to a stop.                   *)
LEMMA DoOrientFacts ==
  ASSUME NEW c \in Context, c.orient # "NONE"
  PROVE  LET d == DoOrient(c)
         IN /\ d \in Context /\ d.sent = c.sent /\ SamePlace(c, d)
            /\ \/ c.orient \in {"LEFT", "RIGHT", "UTURN"} /\ d.state = "TURN"
               \/ c.orient = "STRAIGHT" /\ d.state = "FOLLOW"
               \/ c.orient = "ARRIVED" /\ d.state = "IDLE" /\ d.motor = "off"
<1>1. CASE c.orient \in {"LEFT", "RIGHT", "UTURN"}
  <2>1. [c EXCEPT !.state = "TURN", !.motor = "spin"] \in Context
    BY DEF Context, States, Motors
  <2>2. DoOrient(c) = [c EXCEPT !.state = "TURN", !.motor = "spin"]
    BY <1>1 DEF DoOrient
  <2> QED  BY <1>1, <2>1, <2>2 DEF Context, SamePlace, SamePhotos
<1>2. CASE c.orient = "STRAIGHT"
  <2>1. [c EXCEPT !.state = "FOLLOW"] \in Context
    BY DEF Context, States
  <2>2. DoOrient(c) = [c EXCEPT !.state = "FOLLOW"]
    BY <1>2 DEF DoOrient
  <2> QED  BY <1>2, <2>1, <2>2 DEF Context, SamePlace, SamePhotos
<1>3. CASE c.orient = "ARRIVED"
  <2>1. [c EXCEPT !.state = "IDLE", !.motor = "off"] \in Context
    BY DEF Context, States, Motors
  <2>2. DoOrient(c) = [c EXCEPT !.state = "IDLE", !.motor = "off"]
    BY <1>3 DEF DoOrient
  <2> QED  BY <1>3, <2>1, <2>2 DEF Context, SamePlace, SamePhotos
<1> QED  BY <1>1, <1>2, <1>3 DEF Context, Directions

(* A direction is used up by obeying it.                                      *)
LEMMA UsedFacts ==
  ASSUME NEW c \in Context
  PROVE  LET d == Used(c)
         IN /\ d \in Context /\ d.sent = c.sent /\ d.state = c.state /\ d.motor = c.motor
            /\ d.junc = c.junc /\ d.orient = "NONE" /\ d.backing = c.backing
            /\ SamePhotos(c, d)
BY DEF Used, Context, SamePhotos

(* At the centre of a junction, or where it waited, the vehicle turns, goes    *)
(* straight on, stops because it is there, or because of what is in its way.  *)
LEMMA ExecOrientFacts ==
  ASSUME NEW c \in Context, c.orient # "NONE"
  PROVE  ExecOrient(c) \in Context /\ Executed(c, ExecOrient(c))
<1>1. CASE c.obsWait # "none" /\ c.orient = "STRAIGHT"
  <2>1. PICK s : s = StopObs(c, c.obsWait, FALSE)
    OBVIOUS
  <2>2. c.obsWait \in Kinds \cup {"none", "aside"}
    BY DEF Context
  <2>3. s \in Context /\ Stood(c, s) /\ Reported(c, s, "OBSTACLE")
    BY <2>1, <2>2, StopObsFacts
  <2> DEFINE e == [s EXCEPT !.back = FALSE, !.atJunc = TRUE]
  <2>4. e \in Context
    BY <2>3 DEF Context
  <2>5. /\ e.sent = s.sent /\ e.state = s.state /\ e.motor = s.motor /\ SamePlace(s, e)
    BY <2>3 DEF Context, SamePlace, SamePhotos
  <2>6. ExecOrient(c) = Used(e)
    BY <1>1, <2>1 DEF ExecOrient
  <2> HIDE DEF e
  <2> QED  BY <2>3, <2>4, <2>5, <2>6, UsedFacts
           DEF Executed, Stood, Reported, SamePlace, SamePhotos
<1>2. CASE ~(c.obsWait # "none" /\ c.orient = "STRAIGHT")
  <2>1. PICK o \in Context : o = DoOrient(c)
    BY DoOrientFacts
  <2>2. /\ o.sent = c.sent /\ SamePlace(c, o)
        /\ \/ c.orient \in {"LEFT", "RIGHT", "UTURN"} /\ o.state = "TURN"
           \/ c.orient = "STRAIGHT" /\ o.state = "FOLLOW"
           \/ c.orient = "ARRIVED" /\ o.state = "IDLE" /\ o.motor = "off"
    BY <2>1, DoOrientFacts
  <2>3. PICK u \in Context : u = Used(o)
    BY UsedFacts
  <2>4. /\ u.sent = o.sent /\ u.state = o.state /\ u.motor = o.motor
        /\ u.junc = o.junc /\ u.orient = "NONE" /\ u.backing = o.backing /\ SamePhotos(o, u)
    BY <2>3, UsedFacts
  <2>5. ExecOrient(c) = IF u.state = "FOLLOW" THEN [u EXCEPT !.junc = "OUT"] ELSE u
    BY <1>2, <2>1, <2>3 DEF ExecOrient
  <2>6. CASE u.state = "FOLLOW"
    <3> DEFINE e == [u EXCEPT !.junc = "OUT"]
    <3>1. e \in Context
      BY DEF Context, Junctions
    <3>2. ExecOrient(c) = e
      BY <2>5, <2>6
    <3>3. /\ e.sent = u.sent /\ e.state = u.state /\ e.junc = "OUT" /\ e.orient = u.orient
          /\ e.backing = u.backing /\ SamePhotos(u, e)
      BY <3>1 DEF Context, SamePhotos
    <3> HIDE DEF e
    <3> QED  BY <2>2, <2>4, <2>6, <3>1, <3>2, <3>3 DEF Executed, SamePlace, SamePhotos
  <2>7. CASE u.state # "FOLLOW"
    BY <2>2, <2>4, <2>5, <2>7 DEF Executed, SamePlace, SamePhotos
  <2> QED  BY <2>6, <2>7
<1> QED  BY <1>1, <1>2

-----------------------------------------------------------------------------
(* Once the way is clear the vehicle drives on, whatever it was doing.        *)
LEMMA ResumeFacts ==
  ASSUME NEW c \in Context, NEW f \in Frames
  PROVE  LET d == Resume(c, f)
         IN d \in Context /\ d.state = "FOLLOW" /\ SamePlace(c, d) /\ d.sent = Append(c.sent, R)
<1> DEFINE e == [c EXCEPT !.lastNd = f.node, !.state = "FOLLOW"]
<1>1. e \in Context
  BY DEF Context, States, Frames
<1>2. e.sent = c.sent /\ e.state = "FOLLOW" /\ SamePlace(c, e)
  BY DEF Context, SamePlace, SamePhotos
<1>3. Resume(c, f) = Say(e, R)
  BY DEF Resume, R
<1> HIDE DEF e
<1> QED  BY <1>1, <1>2, <1>3, SayFacts DEF R, Reports, SamePlace, SamePhotos

(* Three empty frames end what an animal or the vehicle ahead has stopped.    *)
LEMMA SeesNothingFacts ==
  ASSUME NEW c \in Context, c.sent = <<>>, NEW f \in Frames, NEW long \in BOOLEAN
  PROVE  LET d == SeesNothing(c, f, long)
         IN d \in Context /\ (Rests(c, d) \/ Resumes(c, d))
<1> DEFINE clear == [c EXCEPT !.tempStop = FALSE]
           animal == IF c.tempStop THEN Resume(clear, f) ELSE c
           ahead == [animal EXCEPT !.slaveStop = FALSE]
           goes == animal.slaveStop /\ ~animal.slaveSent /\ (CarId = 1 \/ long)
           slave == IF goes THEN Resume(ahead, f) ELSE animal
           done == [slave EXCEPT !.obsSent = FALSE, !.obsWait = "none"]
<1>1. clear \in Context /\ clear.sent = <<>> /\ SamePlace(c, clear)
  BY DEF Context, SamePlace, SamePhotos
<1>2. /\ animal \in Context /\ SamePlace(c, animal)
      /\ \/ animal.sent = <<R>> /\ animal.state = "FOLLOW"
         \/ animal.sent = <<>> /\ animal.state = c.state /\ animal.motor = c.motor
  <2>1. /\ Resume(clear, f) \in Context /\ Resume(clear, f).state = "FOLLOW"
        /\ SamePlace(clear, Resume(clear, f)) /\ Resume(clear, f).sent = Append(<<>>, R)
    <3> HIDE DEF clear
    <3> QED  BY <1>1, ResumeFacts
  <2>2. Append(<<>>, R) = <<R>>
    BY Twice DEF R, Reports
  <2>3. CASE c.tempStop
    <3>1. animal = Resume(clear, f)
      BY <2>3
    <3> HIDE DEF animal, clear
    <3> QED  BY <1>1, <2>1, <2>2, <3>1 DEF SamePlace, SamePhotos
  <2>4. CASE ~c.tempStop
    <3>1. animal = c
      BY <2>4
    <3> HIDE DEF animal
    <3> QED  BY <3>1 DEF SamePlace, SamePhotos
  <2> QED  BY <2>3, <2>4
<1>3. /\ ahead \in Context /\ ahead.sent = animal.sent /\ ahead.state = animal.state
      /\ ahead.motor = animal.motor /\ SamePlace(animal, ahead)
  <2> HIDE DEF animal
  <2>1. ahead \in Context
    BY <1>2 DEF Context
  <2> QED  BY <1>2, <2>1 DEF Context, SamePlace, SamePhotos
<1>4. /\ slave \in Context /\ SamePlace(c, slave)
      /\ \/ slave.sent \in {<<R>>, <<R, R>>} /\ slave.state = "FOLLOW"
         \/ slave.sent = <<>> /\ slave.state = c.state /\ slave.motor = c.motor
  <2>1. /\ Resume(ahead, f) \in Context /\ Resume(ahead, f).state = "FOLLOW"
        /\ SamePlace(ahead, Resume(ahead, f)) /\ Resume(ahead, f).sent = Append(ahead.sent, R)
    <3> HIDE DEF ahead
    <3> QED  BY <1>3, ResumeFacts
  <2>2. Append(<<>>, R) = <<R>> /\ Append(<<R>>, R) = <<R, R>>
    BY Twice DEF R, Reports
  <2>3. CASE goes
    <3>1. slave = Resume(ahead, f)
      BY <2>3
    <3> HIDE DEF slave, ahead, animal, goes
    <3> QED  BY <1>2, <1>3, <2>1, <2>2, <3>1 DEF SamePlace, SamePhotos
  <2>4. CASE ~goes
    <3>1. slave = animal
      BY <2>4
    <3> HIDE DEF slave, animal
    <3> QED  BY <1>2, <3>1
  <2> QED  BY <2>3, <2>4
<1>5. /\ done \in Context /\ done.sent = slave.sent /\ done.state = slave.state
      /\ done.motor = slave.motor /\ SamePlace(slave, done)
  <2> HIDE DEF slave
  <2>1. done \in Context
    BY <1>4 DEF Context
  <2> QED  BY <1>4, <2>1 DEF Context, SamePlace, SamePhotos
<1>6. SeesNothing(c, f, long) = IF c.ncnt < 3 THEN c ELSE done
  BY DEF SeesNothing
<1> HIDE DEF done, slave
<1>7. Rests(c, done) \/ Resumes(c, done)
  BY <1>4, <1>5 DEF Rests, Resumes, SamePlace, SamePhotos
<1>8. Rests(c, c)
  BY DEF Rests, SamePlace, SamePhotos
<1> QED  BY <1>5, <1>6, <1>7, <1>8

(* An obstacle on the way stops the vehicle between junctions and at the        *)
(* marker; elsewhere it is kept or passed over.                             *)
LEMMA SeesObstacleFacts ==
  ASSUME NEW c \in Context, c.sent = <<>>, NEW f \in Frames, f.type # "aside",
         NEW far \in BOOLEAN
  PROVE  LET d == SeesObstacle(c, f, far)
         IN d \in Context /\ (Rests(c, d) \/ Stops(c, d))
<1> DEFINE d == SeesObstacle(c, f, far)
           met == c.junc = "NONE" /\ c.lastNd = 0
           arrived == IF met THEN OnJunc(c) ELSE c
           way == far /\ arrived = c
           stopped == StopObs(arrived, f.type, way)
           kept == [c EXCEPT !.obsWait = IF @ = "none" THEN f.type ELSE @]
           road == StopObs(c, f.type, far)
<1>a. d = CASE AtMarker(c, f) -> stopped
            [] Approaches(c, f) -> kept
            [] OnTheRoad(c, f) -> road
            [] OTHER -> c
  BY DEF SeesObstacle
<1>0. f.type \in Kinds \cup {"none", "aside"} /\ way \in BOOLEAN
  BY DEF Frames
<1>1. arrived \in Context /\ ((met /\ Arrived(c, arrived)) \/ arrived = c)
  BY OnJuncFacts
<1>2. CASE AtMarker(c, f)
  <2>1. PICK e : e = StopObs(arrived, f.type, way)
    OBVIOUS
  <2>2. d = e
    <3>1. d = stopped
      <4> HIDE DEF stopped, kept, road, d
      <4> QED  BY <1>a, <1>2 DEF AtMarker, Approaches, OnTheRoad
    <3> QED  BY <2>1, <3>1
  <2> HIDE DEF way, arrived
  <2>3. e \in Context /\ Stood(arrived, e) /\ Reported(arrived, e, O)
    BY <1>0, <1>1, <2>1, StopObsFacts DEF O
  <2>4. Append(<<>>, A) = <<A>> /\ Append(<<>>, O) = <<O>> /\ Append(<<A>>, O) = <<A, O>>
    BY Twice DEF A, O, Reports
  <2>5. c.state = "FOLLOW" /\ c.junc # "OUT"
    BY <1>2 DEF AtMarker
  <2>6. CASE met /\ Arrived(c, arrived)
    BY <2>2, <2>3, <2>4, <2>5, <2>6 DEF Arrived, Stops, Stood, Reported, SamePhotos, A
  <2>7. CASE arrived = c
    BY <2>2, <2>3, <2>4, <2>5, <2>7 DEF Stops, Reported
  <2> QED  BY <1>1, <2>2, <2>3, <2>6, <2>7
<1>3. CASE ~AtMarker(c, f) /\ Approaches(c, f)
  <2>1. PICK k \in Kinds \cup {"none"} : k = IF c.obsWait = "none" THEN f.type ELSE c.obsWait
    BY <1>0 DEF Context
  <2>2. kept = [c EXCEPT !.obsWait = k]
    BY <2>1
  <2>3. [c EXCEPT !.obsWait = k] \in Context
    BY <2>1 DEF Context
  <2>4. kept \in Context /\ Rests(c, kept)
    BY <2>2, <2>3 DEF Context, Rests, SamePlace, SamePhotos
  <2>5. d = kept
    <3> HIDE DEF stopped, kept, road, d
    <3> QED  BY <1>a, <1>3 DEF AtMarker, Approaches, OnTheRoad
  <2> QED  BY <2>4, <2>5
<1>4. CASE ~AtMarker(c, f) /\ ~Approaches(c, f) /\ OnTheRoad(c, f)
  <2>1. PICK e : e = StopObs(c, f.type, far)
    OBVIOUS
  <2>2. d = e
    BY <1>4, <2>1 DEF SeesObstacle
  <2>3. e \in Context /\ Stood(c, e) /\ Reported(c, e, O)
    BY <1>0, <2>1, StopObsFacts DEF O
  <2>4. Append(<<>>, O) = <<O>>
    BY Twice DEF O, Reports
  <2> QED  BY <1>4, <2>2, <2>3, <2>4 DEF OnTheRoad, Stops, Reported
<1>5. CASE ~AtMarker(c, f) /\ ~Approaches(c, f) /\ ~OnTheRoad(c, f)
  <2>1. d = c
    BY <1>5 DEF SeesObstacle
  <2> QED  BY <2>1 DEF Rests, SamePlace, SamePhotos
<1> QED  BY <1>2, <1>3, <1>4, <1>5

(* Whatever the camera shows: the vehicle goes on as before, stops, or drives  *)
(* on after a stop.                                                        *)
LookOutcome(c, d) == Rests(c, d) \/ Resumes(c, d) \/ Stops(c, d)
(* Every frame has one of these outcomes.                                    *)
LEMMA SeenFacts ==
  ASSUME NEW c \in Context, c.sent = <<>>, NEW f \in Frames,
         NEW far \in BOOLEAN, NEW long \in BOOLEAN
  PROVE  LET d == Seen(c, f, far, long)
         IN d \in Context /\ LookOutcome(c, d)
<1> DEFINE d == Seen(c, f, far, long)
<1>1. CASE f.type = "car"
  BY <1>1 DEF Seen, LookOutcome, Rests, SamePlace, SamePhotos
<1>2. CASE f.type = "none"
  <2>1. PICK n \in 0..3 : n = IF c.ncnt < 3 THEN c.ncnt + 1 ELSE c.ncnt
    BY DEF Context
  <2> DEFINE e == [c EXCEPT !.ncnt = n]
  <2>2. e \in Context
    BY DEF Context
  <2>3. Rests(c, e)
    BY <2>2 DEF Context, Rests, SamePlace, SamePhotos
  <2>4. d = SeesNothing(e, f, long)
    BY <1>2, <2>1 DEF Seen, OnceMore
  <2> HIDE DEF e
  <2>5. d \in Context /\ (Rests(e, d) \/ Resumes(e, d))
    BY <2>2, <2>3, <2>4, SeesNothingFacts DEF Rests
  <2> QED  BY <2>3, <2>5 DEF LookOutcome, Rests, Resumes, SamePlace, SamePhotos
<1> DEFINE e == [c EXCEPT !.ncnt = 0]
<1>3. e \in Context
  BY DEF Context
<1>4. Rests(c, e)
  BY <1>3 DEF Context, Rests, SamePlace, SamePhotos
<1>5. CASE f.type = "aside"
  BY <1>3, <1>4, <1>5 DEF Seen, LookOutcome
<1>6. CASE f.type \notin {"car", "none", "aside"}
  <2>1. d = SeesObstacle(e, f, far)
    BY <1>6 DEF Seen
  <2> HIDE DEF e
  <2>2. d \in Context /\ (Rests(e, d) \/ Stops(e, d))
    BY <1>3, <1>4, <1>6, <2>1, SeesObstacleFacts DEF Rests
  <2> QED  BY <1>4, <2>2 DEF LookOutcome, Rests, Stops, Stood, SamePlace, SamePhotos
<1> QED  BY <1>1, <1>2, <1>5, <1>6

-----------------------------------------------------------------------------
(* The outcomes of a command.                                              *)
Told(c, d, dir) ==
  /\ d.state = c.state /\ d.motor = c.motor /\ d.junc = c.junc /\ d.orient = dir
  /\ d.backing = c.backing /\ SamePhotos(c, d) /\ d.sent = <<>>
Paused(c, d) == d.state = "IDLE" /\ d.motor = "off" /\ SamePlace(c, d) /\ d.sent = <<>>
Started(c, d) ==
  /\ c.state = "IDLE" /\ d.state = "FOLLOW" /\ d.junc = c.junc /\ d.orient = c.orient
  /\ d.backing = FALSE /\ SamePhotos(c, d) /\ d.sent = <<>>
Turned(c, d) ==
  /\ d.state = "TURN" /\ d.junc = c.junc /\ d.orient = c.orient
  /\ SamePhotos(c, d) /\ d.sent = <<>>
PutOff(c, d) ==
  /\ d.state = c.state /\ d.motor = c.motor
  /\ d.junc = c.junc /\ d.orient = c.orient /\ d.backing = c.backing
  /\ d.capSt = c.capSt /\ d.fromCap = c.fromCap /\ d.preState = c.preState
  /\ d.preCapSt = c.preCapSt /\ d.sent = <<>>
Photographs == \E cmd \in Commands : cmd.kind = "CAPTURE"
Begins(c, d) ==
  /\ SessionBegun(c, d) /\ c.state \in Photographable
  /\ c.state = "FOLLOW" => c.junc = "NONE"

CommandOutcome(c, d, cmd) ==
  \/ cmd.kind = "ORIENT" /\ cmd.arg \in Directions /\ Told(c, d, cmd.arg)
  \/ cmd.kind = "ACTION" /\ cmd.arg = "PAUSE" /\ Paused(c, d)
  \/ /\ cmd.kind = "ACTION" /\ cmd.arg = "PROCESS"
     /\ (c.state # "IDLE" /\ Rests(c, d)) \/ Started(c, d)
  \/ cmd.kind = "ACTION" /\ cmd.arg = "UTURN" /\ Turned(c, d)
  \/ cmd.kind = "CNT" /\ Rests(c, d)
  \/ cmd.kind = "CAPTURE" /\ (PutOff(c, d) \/ Begins(c, d))

(* A start forgets the way back, whatever the vehicle was doing.              *)
LEMMA ProcessFacts ==
  ASSUME NEW c \in Context, c.sent = <<>>
  PROVE  LET d == Process(c)
         IN d \in Context /\ ((c.state # "IDLE" /\ Rests(c, d)) \/ Started(c, d))
<1>1. PICK b \in Context : b = RstBack(c)
  BY RstBackFacts
<1>2. /\ b.sent = c.sent /\ b.state = c.state /\ b.junc = c.junc /\ b.orient = c.orient
      /\ b.backing = FALSE /\ SamePhotos(c, b)
  BY <1>1, RstBackFacts
<1> DEFINE e == [b EXCEPT !.state = "FOLLOW", !.lastNd = 0, !.obsSent = FALSE, !.atJunc = FALSE]
<1>3. e \in Context
  BY DEF Context, States
<1>4. /\ e.sent = b.sent /\ e.state = "FOLLOW" /\ SamePlace(b, e)
  BY <1>3 DEF Context, SamePlace, SamePhotos
<1>5. Process(c) = IF c.state # "IDLE" THEN c ELSE e
  BY <1>1 DEF Process
<1> HIDE DEF e
<1> QED  BY <1>2, <1>3, <1>4, <1>5 DEF Rests, Started, SamePlace, SamePhotos

(* A turn-around keeps the direction and the junction.                       *)
LEMMA TurnAroundFacts ==
  ASSUME NEW c \in Context, c.sent = <<>>
  PROVE  TurnAround(c) \in Context /\ Turned(c, TurnAround(c))
<1> DEFINE b == c.backing \/ c.back
           e == [c EXCEPT !.state = "TURN", !.motor = "spin", !.backing = b,
                          !.slaveStop = FALSE, !.slaveSent = FALSE]
<1>1. b \in BOOLEAN
  OBVIOUS
<1>2. e \in Context /\ Turned(c, e)
  <2> HIDE DEF b
  <2>1. e \in Context
    BY <1>1 DEF Context, States, Motors
  <2> QED  BY <2>1 DEF Context, Turned, SamePhotos
<1>3. TurnAround(c) = e
  BY DEF TurnAround
<1> QED  BY <1>2, <1>3

(* A photo session is put off within a junction, and begun elsewhere.         *)
LEMMA CaptureFacts ==
  ASSUME NEW c \in Context, c.sent = <<>>
  PROVE  Capture(c) \in Context /\ (PutOff(c, Capture(c)) \/ Begins(c, Capture(c)))
<1> DEFINE d == [c EXCEPT !.capCnt = 0]
           e == [d EXCEPT !.capWait = TRUE]
           late == c.state \in {"TURN", "ACQUIRE", "WAIT"} \/ (c.state = "FOLLOW" /\ c.junc # "NONE")
<1>0. 0 \in 0..Photos
  BY PhotosAssumption
<1>1. d \in Context
  BY <1>0 DEF Context
<1>2. Rests(c, d)
  BY <1>1 DEF Context, Rests, SamePlace, SamePhotos
<1>3. e \in Context /\ PutOff(d, e)
  <2> HIDE DEF d
  <2>1. e \in Context
    BY <1>1 DEF Context
  <2> QED  BY <1>1, <1>2, <2>1 DEF Context, PutOff, Rests
<1>4. Capture(c) = IF late THEN e ELSE StartCap(d)
  BY DEF Capture
<1>5. CASE late
  <2> HIDE DEF d, e
  <2> QED  BY <1>2, <1>3, <1>4, <1>5 DEF PutOff, Rests, SamePlace, SamePhotos
<1>6. CASE ~late
  <2>1. c.state \in Photographable /\ (c.state = "FOLLOW" => c.junc = "NONE")
    BY <1>6 DEF Context, States, Photographable
  <2> HIDE DEF d, late
  <2>2. StartCap(d) \in Context /\ SessionBegun(d, StartCap(d))
    BY <1>1, <1>2, <2>1, StartCapFacts DEF Rests
  <2> QED  BY <1>2, <1>4, <1>6, <2>1, <2>2
           DEF Begins, SessionBegun, Rests, SamePlace, SamePhotos
<1> QED  BY <1>5, <1>6

(* What a command may do to the context.                                     *)
LEMMA CommandedFacts ==
  ASSUME NEW c \in Context, c.sent = <<>>, NEW cmd \in Commands, NEW d \in Commanded(c, cmd)
  PROVE  d \in Context /\ CommandOutcome(c, d, cmd)
<1>1. CASE cmd.kind = "ORIENT" /\ cmd.arg \in Directions
  <2>1. d = [c EXCEPT !.orient = cmd.arg]
    BY <1>1 DEF Commanded
  <2>2. [c EXCEPT !.orient = cmd.arg] \in Context
    BY <1>1 DEF Context
  <2>3. Told(c, d, cmd.arg)
    BY <2>1, <2>2 DEF Context, Told, SamePhotos
  <2> QED  BY <1>1, <2>1, <2>2, <2>3 DEF CommandOutcome
<1>2. CASE cmd.kind = "ACTION" /\ cmd.arg = "PAUSE"
  <2>1. d = [c EXCEPT !.state = "IDLE", !.motor = "off"]
    BY <1>2 DEF Commanded
  <2>2. [c EXCEPT !.state = "IDLE", !.motor = "off"] \in Context
    BY DEF Context, States, Motors
  <2>3. Paused(c, d)
    BY <2>1, <2>2 DEF Context, Paused, SamePlace, SamePhotos
  <2> QED  BY <1>2, <2>1, <2>2, <2>3 DEF CommandOutcome
<1>3. CASE cmd.kind = "ACTION" /\ cmd.arg = "PROCESS"
  <2>1. d = Process(c)
    BY <1>3 DEF Commanded
  <2> QED  BY <1>3, <2>1, ProcessFacts DEF CommandOutcome
<1>4. CASE cmd.kind = "ACTION" /\ cmd.arg = "UTURN"
  <2>1. d = TurnAround(c)
    BY <1>4 DEF Commanded
  <2> QED  BY <1>4, <2>1, TurnAroundFacts DEF CommandOutcome
<1>5. CASE cmd.kind = "CNT"
  <2>1. PICK n \in RoadNums : d = [c EXCEPT !.roadNum = n, !.roadCount = 0]
    BY <1>5 DEF Commanded
  <2>2. [c EXCEPT !.roadNum = n, !.roadCount = 0] \in Context
    <3>1. 0 \in 0..MaxCount
      BY CountAssumption
    <3> QED  BY <3>1 DEF Context
  <2>3. Rests(c, d)
    BY <2>1, <2>2 DEF Context, Rests, SamePlace, SamePhotos
  <2> QED  BY <1>5, <2>1, <2>2, <2>3 DEF CommandOutcome
<1>6. CASE cmd.kind = "CAPTURE"
  <2>1. d = Capture(c)
    BY <1>6 DEF Commanded
  <2> QED  BY <1>6, <2>1, CaptureFacts DEF CommandOutcome
<1> QED  BY <1>1, <1>2, <1>3, <1>4, <1>5, <1>6, CommandsAssumption

-----------------------------------------------------------------------------
(* The outcomes of a period of ControlTask.                                  *)
Repeats(c, d) ==
  c.state = "IDLE" /\ d.state = "IDLE" /\ d.motor = c.motor /\ SamePlace(c, d) /\ d.sent = <<O>>
Announces(c, d) ==
  /\ c.state = "FOLLOW" /\ c.junc = "NONE" /\ d.state = "FOLLOW" /\ d.junc = "IN"
  /\ d.orient = "NONE" /\ d.backing = c.backing /\ SamePhotos(c, d) /\ d.sent = <<A>>
GoesOn(c, d) ==
  /\ c.state \in {"FOLLOW", "TURN", "ACQUIRE"} /\ d.orient = c.orient
  /\ \/ d.state = c.state /\ d.junc = c.junc
     \/ c.state = "FOLLOW" /\ d.state = "FOLLOW" /\ c.junc = "OUT" /\ d.junc = "NONE"
     \/ c.state = "TURN" /\ d.state = "ACQUIRE" /\ d.junc = c.junc
  /\ d.backing = c.backing /\ SamePhotos(c, d) /\ d.sent = <<>>
Waits(c, d) ==
  /\ c.state = "FOLLOW" /\ c.junc = "IN" /\ c.orient = "NONE"
  /\ d.state = "WAIT" /\ d.motor = "off" /\ SamePlace(c, d) /\ d.sent = <<>>
Chooses(c, d) ==
  /\ c.state \in {"FOLLOW", "WAIT"} /\ (c.state = "FOLLOW" => c.junc = "IN")
  /\ c.orient # "NONE" /\ Executed(c, d)
Counts(c, d) ==
  /\ RoadNums # {} /\ c.state = "FOLLOW" /\ Stood(c, d)
  /\ d.sent = <<>> \/ (c.junc = "NONE" /\ d.sent = <<A>>)
ComesBack(c, d) ==
  /\ c.state = "FOLLOW" /\ c.backing
  /\ d.state = "WAIT" /\ d.motor = "off" /\ d.junc = "IN" /\ d.orient = "NONE"
  /\ d.backing = FALSE /\ SamePhotos(c, d) /\ d.sent \in {<<A>>, <<A, A>>, <<O, A>>}

(* On the road the vehicle goes on, announces a junction, takes it or waits     *)
(* before it, and stops where the road count or the way back ends.           *)
FollowOutcome(c, d) ==
  \/ Announces(c, d) \/ GoesOn(c, d) \/ Waits(c, d) \/ Chooses(c, d)
  \/ Counts(c, d) \/ ComesBack(c, d)

(* Where the count is reached it stops between junctions.                      *)
LEMMA HaltedFacts ==
  ASSUME NEW c \in Context
  PROVE  LET d == Halted(c)
         IN d \in Context /\ Stood(c, d) /\ d.sent = c.sent
<1> DEFINE e == [c EXCEPT !.state = "IDLE", !.motor = "off", !.roadCount = 0]
<1>1. 0 \in 0..MaxCount
  BY CountAssumption
<1>2. e \in Context
  BY <1>1 DEF Context, States, Motors
<1>3. /\ e.sent = c.sent /\ e.state = "IDLE" /\ e.motor = "off" /\ SamePlace(c, e)
  BY <1>2 DEF Context, SamePlace, SamePhotos
<1>4. Halted(c) = RstJunc(e)
  BY DEF Halted
<1> HIDE DEF e
<1> QED  BY <1>2, <1>3, <1>4, RstJuncFacts DEF Stood, SamePlace, SamePhotos

(* Where the way back ends it waits for a new direction.                      *)
LEMMA BackAtOriginFacts ==
  ASSUME NEW c \in Context
  PROVE  LET d == BackAtOrigin(c)
         IN /\ d \in Context /\ d.state = "WAIT" /\ d.motor = "off" /\ d.junc = "IN"
            /\ d.orient = "NONE" /\ d.backing = FALSE /\ SamePhotos(c, d)
            /\ d.sent = Append(c.sent, A)
<1>1. PICK b \in Context : b = RstBack(c)
  BY RstBackFacts
<1>2. b.sent = c.sent /\ b.backing = FALSE /\ SamePhotos(c, b)
  BY <1>1, RstBackFacts
<1> DEFINE e == [b EXCEPT !.obsSent = FALSE, !.motor = "off"]
<1>3. e \in Context
  BY DEF Context, Motors
<1>4. e.sent = b.sent /\ e.motor = "off" /\ SamePlace(b, e)
  BY <1>3 DEF Context, SamePlace, SamePhotos
<1> DEFINE j == OnJunc(e)
<1>5. j \in Context /\ Arrived(e, j)
  <2> HIDE DEF e
  <2> QED  BY <1>3, OnJuncFacts
<1> DEFINE w == [j EXCEPT !.state = "WAIT"]
<1>6. /\ w \in Context /\ w.sent = j.sent /\ w.state = "WAIT" /\ w.motor = j.motor
      /\ SamePlace(j, w)
  <2> HIDE DEF j
  <2>1. w \in Context
    BY <1>5 DEF Context, States
  <2> QED  BY <1>5, <2>1 DEF Context, SamePlace, SamePhotos
<1>7. BackAtOrigin(c) = w
  BY <1>1 DEF BackAtOrigin
<1> HIDE DEF w, j, e
<1> QED  BY <1>2, <1>4, <1>5, <1>6, <1>7 DEF Arrived, SamePlace, SamePhotos, A

(* At the centre of a junction it takes its direction or waits for it.        *)
LEMMA AtCentreFacts ==
  ASSUME NEW c \in Context, c.state = "FOLLOW", c.junc = "IN", c.sent = <<>>
  PROVE  LET d == AtCentre(c)
         IN d \in Context /\ (Waits(c, d) \/ Chooses(c, d))
<1>1. CASE c.orient # "NONE"
  BY <1>1, ExecOrientFacts DEF AtCentre, Chooses
<1>2. CASE c.orient = "NONE"
  <2>1. [c EXCEPT !.state = "WAIT", !.motor = "off"] \in Context
    BY DEF Context, States, Motors
  <2> QED  BY <1>2, <2>1 DEF AtCentre, Waits, Context, SamePlace, SamePhotos
<1> QED  BY <1>1, <1>2

(* The whole of a period on the road.                                        *)
LEMMA FollowedFacts ==
  ASSUME NEW c \in Context, c.state = "FOLLOW", c.sent = <<>>, NEW f \in Frames,
         NEW passed \in BOOLEAN, NEW reached \in BOOLEAN, NEW left \in BOOLEAN
  PROVE  LET d == Followed(c, f, passed, reached, left)
         IN d \in Context /\ FollowOutcome(c, d)
<1> DEFINE d == Followed(c, f, passed, reached, left)
           edge == Edge(c, f)
           m == [c EXCEPT !.motor = "line"]
           line == IF edge THEN OnJunc(m) ELSE m
           centre == line.junc = "IN" /\ passed /\ ~edge
           gone == IF centre THEN AtCentre(line) ELSE line
           reset == edge \/ (centre /\ (gone.state = "TURN" \/ gone.junc = "OUT"))
           noted == [gone EXCEPT !.lastNd = f.node]
           clear == [noted EXCEPT !.junc = "NONE"]
           back == noted.backing /\ (noted.back => reached /\ ~reset)
           beyond == noted.junc = "OUT" /\ f.node = 0 /\ left /\ ~reset
<1>1. m \in Context /\ m.state = "FOLLOW" /\ SamePlace(c, m) /\ m.sent = <<>>
  <2>1. m \in Context
    BY DEF Context, Motors
  <2> QED  BY <2>1 DEF Context, SamePlace, SamePhotos
<1>2. /\ line \in Context
      /\ (edge /\ Announces(c, line)) \/ (~edge /\ GoesOn(c, line) /\ line.junc = c.junc)
  <2> HIDE DEF m
  <2>1. Append(<<>>, "ARRIVE") = <<A>>
    BY Twice DEF A, Reports
  <2>2. CASE edge
    <3>1. line = OnJunc(m)
      BY <2>2
    <3> HIDE DEF line
    <3>2. line \in Context /\ Arrived(m, line)
      BY <1>1, <3>1, OnJuncFacts
    <3> QED  BY <1>1, <2>1, <2>2, <3>2
             DEF Edge, Arrived, Announces, SamePlace, SamePhotos
  <2>3. CASE ~edge
    <3>1. line = m
      BY <2>3
    <3> HIDE DEF line
    <3> QED  BY <1>1, <2>3, <3>1 DEF GoesOn, SamePlace
  <2> QED  BY <2>2, <2>3
<1> HIDE DEF line, m
<1>3. /\ gone \in Context
      /\ \/ edge /\ Announces(c, gone)
         \/ ~edge /\ ~centre /\ GoesOn(c, gone) /\ gone.junc = c.junc
         \/ ~edge /\ centre /\ (Waits(c, gone) \/ Chooses(c, gone))
  <2>1. CASE centre
    <3>1. gone = AtCentre(line)
      BY <2>1
    <3>2. ~edge /\ GoesOn(c, line) /\ line.junc = "IN" /\ c.junc = "IN" /\ line.state = "FOLLOW"
      BY <1>2, <2>1 DEF GoesOn
    <3> HIDE DEF gone, centre
    <3>3. gone \in Context /\ (Waits(line, gone) \/ Chooses(line, gone))
      BY <1>2, <3>1, <3>2, AtCentreFacts DEF GoesOn
    <3>4. CASE Waits(line, gone)
      BY <2>1, <3>2, <3>3, <3>4 DEF Waits, GoesOn, SamePlace, SamePhotos
    <3>5. CASE Chooses(line, gone)
      BY <2>1, <3>2, <3>3, <3>5 DEF Chooses, GoesOn, Executed, Stood, Reported, SamePhotos
    <3> QED  BY <3>3, <3>4, <3>5
  <2>2. CASE ~centre
    <3>1. gone = line
      BY <2>2
    <3> HIDE DEF gone, centre
    <3> QED  BY <1>2, <2>2, <3>1
  <2> QED  BY <2>1, <2>2
<1>4. noted \in Context /\ noted.state = gone.state /\ noted.motor = gone.motor
      /\ SamePlace(gone, noted) /\ noted.sent = gone.sent
  <2> HIDE DEF gone
  <2>1. noted \in Context
    BY <1>3 DEF Context, Frames
  <2> QED  BY <1>3, <2>1 DEF Context, SamePlace, SamePhotos
<1>5. clear \in Context /\ clear.state = noted.state /\ clear.motor = noted.motor
      /\ clear.junc = "NONE" /\ clear.orient = noted.orient /\ clear.backing = noted.backing
      /\ SamePhotos(noted, clear) /\ clear.sent = noted.sent
  <2> HIDE DEF noted
  <2>1. clear \in Context
    BY <1>4 DEF Context, Junctions
  <2> QED  BY <1>4, <2>1 DEF Context, SamePhotos
<1>6. d = CASE CountReached(line) -> Halted(line)
            [] ~CountReached(line) /\ back -> BackAtOrigin(noted)
            [] OTHER -> IF beyond THEN clear ELSE noted
  BY DEF Followed, line, m
<1> HIDE DEF d, clear, noted, reset, gone, centre, back, beyond
<1>7. CASE CountReached(line)
  <2>1. d = Halted(line)
    BY <1>6, <1>7
  <2>2. d \in Context /\ Stood(line, d) /\ d.sent = line.sent
    BY <1>2, <2>1, HaltedFacts
  <2>3. RoadNums # {}
    BY <1>2, <1>7 DEF Context, CountReached
  <2>4. Counts(c, d)
    BY <1>2, <2>2, <2>3 DEF Counts, Stood, Announces, GoesOn, SamePhotos
  <2> QED  BY <2>2, <2>4 DEF FollowOutcome, d
<1>8. CASE ~CountReached(line) /\ back
  <2>1. d = BackAtOrigin(noted)
    BY <1>6, <1>8
  <2>2. /\ d \in Context /\ d.state = "WAIT" /\ d.motor = "off" /\ d.junc = "IN"
        /\ d.orient = "NONE" /\ d.backing = FALSE /\ SamePhotos(noted, d)
        /\ d.sent = Append(noted.sent, A)
    BY <1>4, <2>1, BackAtOriginFacts
  <2>3. gone.backing /\ gone.sent = noted.sent /\ SamePhotos(gone, noted)
    BY <1>4, <1>8 DEF back, SamePlace
  <2>4. Append(<<>>, A) = <<A>> /\ Append(<<A>>, A) = <<A, A>> /\ Append(<<O>>, A) = <<O, A>>
        /\ Append(<<>>, "OBSTACLE") = <<O>>
    BY Twice DEF A, O, Reports
  <2>5. c.backing /\ SamePhotos(c, gone) /\ gone.sent \in {<<>>, <<A>>, <<O>>}
    BY <1>3, <2>3, <2>4 DEF Announces, GoesOn, Waits, Chooses, Executed, Stood, Reported, SamePlace
  <2>6. ComesBack(c, d)
    BY <2>2, <2>3, <2>4, <2>5 DEF ComesBack, SamePhotos
  <2> QED  BY <2>2, <2>6 DEF FollowOutcome, d
<1>9. CASE ~CountReached(line) /\ ~back
  <2>1. d = IF beyond THEN clear ELSE noted
    BY <1>6, <1>9
  <2>2. CASE ~beyond
    <3>1. d = noted
      BY <2>1, <2>2
    <3>2. Announces(c, gone) => Announces(c, noted)
      BY <1>4 DEF Announces, SamePlace, SamePhotos
    <3>3. GoesOn(c, gone) => GoesOn(c, noted)
      BY <1>4 DEF GoesOn, SamePlace, SamePhotos
    <3>4. Waits(c, gone) => Waits(c, noted)
      BY <1>4 DEF Waits, SamePlace, SamePhotos
    <3>5. Chooses(c, gone) => Chooses(c, noted)
      BY <1>4 DEF Chooses, Executed, Stood, Reported, SamePlace, SamePhotos
    <3> QED  BY <1>3, <1>4, <3>1, <3>2, <3>3, <3>4, <3>5 DEF FollowOutcome, d
  <2>3. CASE beyond
    <3>1. d = clear /\ noted.junc = "OUT" /\ ~reset
      BY <2>1, <2>3 DEF beyond
    <3>2. gone.junc = "OUT" /\ ~edge /\ ~centre
      BY <1>4, <3>1 DEF reset, SamePlace
    <3>3. GoesOn(c, gone) /\ c.junc = "OUT"
      BY <1>3, <3>2
    <3>4. GoesOn(c, clear)
      BY <1>4, <1>5, <3>2, <3>3 DEF GoesOn, SamePlace, SamePhotos
    <3> QED  BY <1>5, <3>1, <3>4 DEF FollowOutcome, d
  <2> QED  BY <2>2, <2>3
<1> QED  BY <1>7, <1>8, <1>9

(* The outcomes of an alignment and of a step of a photo session.             *)
SameSession(c, d) ==
  /\ d.junc = c.junc /\ d.orient = c.orient /\ d.backing = c.backing /\ d.capWait = c.capWait
  /\ d.preState = c.preState /\ d.preCapSt = c.preCapSt /\ d.sent = <<>>
Restores(c, d) ==
  /\ c.fromCap /\ d.state = c.preState /\ d.junc = c.preCapSt /\ d.motor = "off"
  /\ d.orient = c.orient /\ d.backing = c.backing /\ d.capWait = c.capWait
  /\ d.preState = c.preState /\ d.preCapSt = c.preCapSt /\ d.fromCap = FALSE /\ d.sent = <<>>
Reaches(c, d) ==
  /\ d.state = "WAIT" /\ d.motor = "off" /\ d.junc = "IN" /\ d.orient = "NONE"
  /\ d.backing = FALSE /\ SamePhotos(c, d) /\ d.sent = <<A>>
Leaves(c, d) ==
  /\ d.state = "FOLLOW" /\ d.junc = "OUT" /\ d.orient = c.orient
  /\ d.backing = c.backing /\ SamePhotos(c, d) /\ d.sent = <<>>
Continues(c, d) ==
  /\ d.state = "CAPTURE" /\ SameSession(c, d) /\ d.fromCap = c.fromCap
  /\ d.capSt = "TURN" \/ d.motor = "off" \/ (d.motor = c.motor /\ c.capSt # "TURN")
Ends(c, d) == d.state = "ACQUIRE" /\ SameSession(c, d) /\ d.fromCap = TRUE
GivesUp(c, d) ==
  /\ d.state = "IDLE" /\ d.motor = c.motor /\ d.capSt = c.capSt
  /\ SameSession(c, d) /\ d.fromCap = c.fromCap

(* The line is found: after a session everything is as it was before it.      *)
LEMMA AlignedFacts ==
  ASSUME NEW c \in Context, c.motor = "off", c.sent = <<>>
  PROVE  LET d == Aligned(c)
         IN d \in Context /\ (Restores(c, d) \/ Reaches(c, d) \/ Leaves(c, d))
<1> DEFINE d == Aligned(c)
<1>1. CASE c.fromCap
  <2> DEFINE e == [c EXCEPT !.fromCap = FALSE, !.state = c.preState, !.junc = c.preCapSt]
  <2>1. c.preState \in States /\ c.preCapSt \in Junctions
    BY DEF Context, Photographable, States
  <2>2. e \in Context
    BY <2>1 DEF Context
  <2>3. Restores(c, e)
    BY <1>1, <2>2 DEF Context, Restores
  <2>4. d = e
    BY <1>1 DEF Aligned
  <2> QED  BY <2>2, <2>3, <2>4
<1>2. CASE ~c.fromCap /\ c.atJunc
  <2> DEFINE e == [c EXCEPT !.atJunc = FALSE]
  <2>1. e \in Context
    BY DEF Context
  <2>2. e.motor = "off" /\ e.sent = <<>> /\ SamePhotos(c, e)
    BY <2>1 DEF Context, SamePhotos
  <2> DEFINE b == RstBack(e)
  <2>3. b \in Context /\ b.sent = e.sent /\ b.motor = e.motor /\ b.backing = FALSE /\ SamePhotos(e, b)
    <3> HIDE DEF e
    <3> QED  BY <2>1, RstBackFacts
  <2> DEFINE j == OnJunc(b)
  <2>4. j \in Context /\ Arrived(b, j)
    <3> HIDE DEF b
    <3> QED  BY <2>3, OnJuncFacts
  <2> DEFINE w == [j EXCEPT !.state = "WAIT"]
  <2>5. /\ w \in Context /\ w.sent = j.sent /\ w.state = "WAIT" /\ w.motor = j.motor
        /\ SamePlace(j, w)
    <3> HIDE DEF j
    <3>1. w \in Context
      BY <2>4 DEF Context, States
    <3> QED  BY <2>4, <3>1 DEF Context, SamePlace, SamePhotos
  <2>6. d = w
    BY <1>2 DEF Aligned
  <2>7. Append(<<>>, "ARRIVE") = <<A>>
    BY Twice DEF A, Reports
  <2>8. Reaches(c, w)
    <3> HIDE DEF w, j, b, e
    <3> QED  BY <2>2, <2>3, <2>4, <2>5, <2>7 DEF Reaches, Arrived, SamePlace, SamePhotos
  <2> QED  BY <2>5, <2>6, <2>8
<1>3. CASE ~c.fromCap /\ ~c.atJunc
  <2> DEFINE e == [c EXCEPT !.state = "FOLLOW", !.junc = "OUT"]
  <2>1. e \in Context
    BY DEF Context, States, Junctions
  <2>2. Leaves(c, e)
    BY <2>1 DEF Context, Leaves, SamePhotos
  <2>3. d = e
    BY <1>3 DEF Aligned
  <2> QED  BY <2>1, <2>2, <2>3
<1> QED  BY <1>1, <1>2, <1>3

(* What the camera answers is the stage that follows.                         *)
LEMMA AnsweredFacts ==
  ASSUME NEW c \in Context, c.sent = <<>>, NEW d \in Answered(c)
  PROVE  /\ d \in Context /\ d.state = c.state /\ d.motor = c.motor
         /\ SameSession(c, d) /\ d.fromCap = c.fromCap
         /\ d.capSt = c.capSt \/ (c.capSt = "ACK" /\ d.capSt = "NAME")
                              \/ (c.capSt = "RESP" /\ d.capSt = "ROT")
<1>1. CASE d = c
  BY <1>1 DEF SameSession
<1>2. CASE c.capSt = "ACK" /\ d = [c EXCEPT !.capSt = "NAME"]
  <2>1. [c EXCEPT !.capSt = "NAME"] \in Context
    BY DEF Context, Stages
  <2> QED  BY <1>2, <2>1 DEF Context, SameSession
<1>3. CASE c.capSt = "RESP" /\ d = [c EXCEPT !.capSt = "ROT"]
  <2>1. [c EXCEPT !.capSt = "ROT"] \in Context
    BY DEF Context, Stages
  <2> QED  BY <1>3, <2>1 DEF Context, SameSession
<1> QED  BY <1>1, <1>2, <1>3 DEF Answered

(* After a photo the next one is asked for, and the last one ends the session. *)
LEMMA NextPhotoFacts ==
  ASSUME NEW c \in Context, c.state = "CAPTURE", c.sent = <<>>
  PROVE  LET d == NextPhoto(c)
         IN d \in Context /\ (Continues(c, d) \/ Ends(c, d))
<1>1. PICK n \in 0..Photos : n = IF c.capCnt < Photos THEN c.capCnt + 1 ELSE c.capCnt
  BY PhotosAssumption DEF Context
<1> DEFINE e == [c EXCEPT !.motor = "off", !.capCnt = n]
           last == [e EXCEPT !.fromCap = TRUE, !.state = "ACQUIRE"]
           more == [e EXCEPT !.capSt = "RESP"]
<1>2. e \in Context
  BY DEF Context, Motors
<1>3. e.motor = "off" /\ e.state = "CAPTURE" /\ SameSession(c, e) /\ e.fromCap = c.fromCap
  BY <1>2 DEF Context, SameSession
<1>4. NextPhoto(c) = IF e.capCnt = Photos THEN last ELSE more
  BY <1>1 DEF NextPhoto
<1>5. last \in Context /\ Ends(c, last)
  <2> HIDE DEF e
  <2>1. last \in Context
    BY <1>2 DEF Context, States
  <2> QED  BY <1>2, <1>3, <2>1 DEF Context, Ends, SameSession
<1>6. more \in Context /\ Continues(c, more)
  <2> HIDE DEF e
  <2>1. more \in Context
    BY <1>2 DEF Context, Stages
  <2> QED  BY <1>2, <1>3, <2>1 DEF Context, Continues, SameSession
<1> HIDE DEF last, more
<1> QED  BY <1>4, <1>5, <1>6

(* A session goes on or ends in an alignment.                                *)
LEMMA SessionFacts ==
  ASSUME NEW c \in Context, c.state = "CAPTURE", c.sent = <<>>, NEW d \in Session(c)
  PROVE  d \in Context /\ (Continues(c, d) \/ Ends(c, d))
<1>0. Continues(c, c)
  BY DEF Continues, SameSession
<1>1. CASE c.capSt = "IN"
  <2>1. d = [c EXCEPT !.capSt = "ACK"]
    BY <1>1 DEF Session
  <2>2. [c EXCEPT !.capSt = "ACK"] \in Context
    BY DEF Context, Stages
  <2> QED  BY <1>1, <2>1, <2>2 DEF Context, Continues, SameSession
<1>2. CASE c.capSt = "NAME"
  <2>1. d = [c EXCEPT !.capSt = "RESP"]
    BY <1>2 DEF Session
  <2>2. [c EXCEPT !.capSt = "RESP"] \in Context
    BY DEF Context, Stages
  <2> QED  BY <1>2, <2>1, <2>2 DEF Context, Continues, SameSession
<1>3. CASE c.capSt = "ROT"
  <2>1. d = [c EXCEPT !.capSt = "TURN", !.motor = "spin"]
    BY <1>3 DEF Session
  <2>2. [c EXCEPT !.capSt = "TURN", !.motor = "spin"] \in Context
    BY DEF Context, Stages, Motors
  <2> QED  BY <1>3, <2>1, <2>2 DEF Context, Continues, SameSession
<1>4. CASE c.capSt = "TURN"
  BY <1>0, <1>4, NextPhotoFacts DEF Session
<1>5. CASE c.capSt \in {"ACK", "RESP"}
  BY <1>0, <1>5 DEF Session
<1> QED  BY <1>1, <1>2, <1>3, <1>4, <1>5 DEF Context, Stages

-----------------------------------------------------------------------------
(* A step begins with nothing reported.                                      *)
LEMMA NowFacts ==
  ASSUME ctx \in Context
  PROVE  /\ Now \in Context /\ Now.sent = <<>>
         /\ Now.state = ctx.state /\ Now.motor = ctx.motor /\ SamePlace(ctx, Now)
<1>0. <<>> \in Seq(Reports)
  OBVIOUS
<1>1. Now \in Context
  BY <1>0 DEF Now, Context
<1> QED  BY <1>1 DEF Now, Context, SamePlace, SamePhotos

(* What a period may do after it has looked.                                  *)
TimesOut(c, d) ==
  c.state = "WAIT" /\ c.orient = "NONE" /\ Stood(c, d) /\ d.sent = <<>>
RunOutcome(c, d) ==
  \/ Rests(c, d) \/ Repeats(c, d) \/ FollowOutcome(c, d) \/ TimesOut(c, d)
  \/ c.capWait /\ Begins(c, d)
  \/ c.state = "ACQUIRE" /\ (Restores(c, d) \/ Reaches(c, d) \/ Leaves(c, d))
  \/ c.state = "CAPTURE" /\ (Continues(c, d) \/ Ends(c, d) \/ GivesUp(c, d))

(* A photo session that was put off begins where it may.                      *)
LEMMA PutOffFacts ==
  ASSUME NEW c \in Context, c.capWait, c.sent = <<>>,
         c.state = "IDLE" \/ (c.state = "FOLLOW" /\ c.junc = "NONE")
  PROVE  LET d == StartCap([c EXCEPT !.capWait = FALSE])
         IN d \in Context /\ Begins(c, d)
<1> DEFINE e == [c EXCEPT !.capWait = FALSE]
<1>1. e \in Context
  BY DEF Context
<1>2. /\ e.state = c.state /\ e.junc = c.junc /\ e.orient = c.orient /\ e.backing = c.backing
      /\ e.fromCap = c.fromCap /\ e.sent = c.sent
  BY <1>1 DEF Context
<1>3. c.state \in Photographable
  BY DEF Photographable
<1> HIDE DEF e
<1>4. StartCap(e) \in Context /\ SessionBegun(e, StartCap(e))
  BY <1>1, <1>2, <1>3, StartCapFacts
<1>5. Begins(c, StartCap(e))
  BY <1>2, <1>3, <1>4 DEF Begins, SessionBegun
<1> QED  BY <1>4, <1>5 DEF e

(* The step of a period that looks for obstacles.                            *)
LEMMA LookStep ==
  ASSUME ctx \in Context, frame \in Frames, Look
  PROVE  ctx' \in Context /\ LookOutcome(Now, ctx')
<1>1. frame' \in Frames
  BY DEF Look, OldFrame, NewFrame
<1>2. PICK far \in BOOLEAN, long \in BOOLEAN : ctx' = Seen(Now, frame', far, long)
  BY DEF Look, Now
<1>3. Now \in Context /\ Now.sent = <<>>
  BY NowFacts
<1> HIDE DEF Now
<1> QED  BY <1>1, <1>2, <1>3, SeenFacts

(* Every other step of a period.                                             *)
LEMMA RunStep ==
  ASSUME ctx \in Context, frame \in Frames, Run
  PROVE  ctx' \in Context /\ RunOutcome(Now, ctx')
<1>0. /\ Now \in Context /\ Now.sent = <<>> /\ Now.state = ctx.state /\ Now.junc = ctx.junc
      /\ Now.orient = ctx.orient /\ Now.capWait = ctx.capWait
  BY NowFacts DEF SamePlace, SamePhotos
<1>a. Rests(Now, Now)
  BY <1>0 DEF Rests, SamePlace, SamePhotos
<1>1. CASE RunIdle
  <2>1. ctx.state = "IDLE"
    BY <1>1 DEF RunIdle, Begin
  <2>2. CASE ctx.capWait /\ ctx' = StartCap([Now EXCEPT !.capWait = FALSE])
    BY <1>0, <2>1, <2>2, PutOffFacts DEF RunOutcome
  <2>3. CASE ctx' = Now
    BY <1>0, <1>a, <2>3 DEF RunOutcome
  <2>4. CASE ctx' = Say([Now EXCEPT !.slaveSent = TRUE], "OBSTACLE")
    <3> DEFINE e == [Now EXCEPT !.slaveSent = TRUE]
    <3>1. e \in Context /\ Rests(Now, e)
      <4>1. e \in Context
        BY <1>0 DEF Context
      <4> QED  BY <1>0, <4>1 DEF Context, Rests, SamePlace, SamePhotos
    <3>2. Append(<<>>, O) = <<O>>
      BY Twice DEF O, Reports
    <3>3. ctx' = Say(e, O)
      BY <2>4 DEF O
    <3> HIDE DEF e
    <3>4. ctx' \in Context /\ ctx'.sent = Append(e.sent, O) /\ ctx'.state = e.state
          /\ ctx'.motor = e.motor /\ SamePlace(e, ctx')
      BY <3>1, <3>3, SayFacts DEF O, Reports
    <3>5. Repeats(Now, ctx')
      BY <1>0, <2>1, <3>1, <3>2, <3>4 DEF Repeats, Rests, SamePlace, SamePhotos
    <3> QED  BY <3>4, <3>5 DEF RunOutcome
  <2> QED  BY <1>1, <2>2, <2>3, <2>4 DEF RunIdle, Put
<1>2. CASE RunFollowPhoto
  <2>1. /\ ctx.state = "FOLLOW" /\ ctx.capWait /\ ctx.junc = "NONE"
        /\ ctx' = StartCap([Now EXCEPT !.capWait = FALSE])
    BY <1>2 DEF RunFollowPhoto, Begin, Put
  <2> QED  BY <1>0, <2>1, PutOffFacts DEF RunOutcome
<1>3. CASE RunFollow
  <2>1. ctx.state = "FOLLOW"
    BY <1>3 DEF RunFollow, Begin
  <2>2. PICK passed \in BOOLEAN, reached \in BOOLEAN, left \in BOOLEAN :
          ctx' = Followed(Now, frame, passed, reached, left)
    BY <1>3 DEF RunFollow, Put
  <2> QED  BY <1>0, <2>1, <2>2, FollowedFacts DEF RunOutcome
<1>4. CASE RunWait
  <2>1. ctx.state = "WAIT" /\ ctx' = IF ctx.orient # "NONE" THEN ExecOrient(Now) ELSE Now
    BY <1>4 DEF RunWait, Begin, Put
  <2>2. CASE ctx.orient # "NONE"
    <3>1. ctx' \in Context /\ Executed(Now, ctx')
      BY <1>0, <2>1, <2>2, ExecOrientFacts
    <3> QED  BY <1>0, <2>1, <2>2, <3>1 DEF RunOutcome, FollowOutcome, Chooses
  <2>3. CASE ctx.orient = "NONE"
    BY <1>0, <1>a, <2>1, <2>3 DEF RunOutcome
  <2> QED  BY <2>2, <2>3
<1>5. CASE WaitTimesOut
  <2> DEFINE e == [Now EXCEPT !.state = "IDLE", !.motor = "off"]
  <2>1. /\ ctx.state = "WAIT" /\ ctx.orient = "NONE" /\ ctx' = RstJunc(e)
    BY <1>5 DEF WaitTimesOut, Begin, Put
  <2>2. e \in Context
    BY <1>0 DEF Context, States, Motors
  <2>3. e.state = "IDLE" /\ e.motor = "off" /\ SamePlace(Now, e) /\ e.sent = <<>>
    BY <1>0, <2>2 DEF Context, SamePlace, SamePhotos
  <2> HIDE DEF e
  <2>4. TimesOut(Now, ctx') /\ ctx' \in Context
    BY <1>0, <2>1, <2>2, <2>3, RstJuncFacts DEF TimesOut, Stood, SamePlace, SamePhotos
  <2> QED  BY <2>4 DEF RunOutcome
<1>6. CASE RunTurn
  <2>1. ctx.state = "TURN" /\ (ctx' = Now \/ ctx' = [Now EXCEPT !.state = "ACQUIRE"])
    BY <1>6 DEF RunTurn, Begin, Put
  <2>2. CASE ctx' = Now
    BY <1>0, <1>a, <2>2 DEF RunOutcome
  <2>3. CASE ctx' = [Now EXCEPT !.state = "ACQUIRE"]
    <3>1. [Now EXCEPT !.state = "ACQUIRE"] \in Context
      BY <1>0 DEF Context, States
    <3>2. ctx' \in Context
      BY <2>3, <3>1
    <3>3. GoesOn(Now, ctx')
      BY <1>0, <2>1, <2>3 DEF Context, GoesOn, SamePhotos
    <3> QED  BY <3>2, <3>3 DEF RunOutcome, FollowOutcome
  <2> QED  BY <2>1, <2>2, <2>3
<1>7. CASE RunAcquire
  <2>1. /\ ctx.state = "ACQUIRE"
        /\ ctx' = [Now EXCEPT !.motor = "spin"] \/ ctx' = Aligned([Now EXCEPT !.motor = "off"])
    BY <1>7 DEF RunAcquire, Begin, Put
  <2>2. CASE ctx' = [Now EXCEPT !.motor = "spin"]
    <3>1. [Now EXCEPT !.motor = "spin"] \in Context
      BY <1>0 DEF Context, Motors
    <3>2. ctx' \in Context
      BY <2>2, <3>1
    <3>3. GoesOn(Now, ctx')
      BY <1>0, <2>1, <2>2 DEF Context, GoesOn, SamePhotos
    <3> QED  BY <3>2, <3>3 DEF RunOutcome, FollowOutcome
  <2>3. CASE ctx' = Aligned([Now EXCEPT !.motor = "off"])
    <3> DEFINE e == [Now EXCEPT !.motor = "off"]
    <3>1. e \in Context
      BY <1>0 DEF Context, Motors
    <3>2. e.motor = "off" /\ SamePlace(Now, e) /\ e.sent = <<>>
      BY <1>0, <3>1 DEF Context, SamePlace, SamePhotos
    <3>3. ctx' = Aligned(e)
      BY <2>3
    <3> HIDE DEF e
    <3>4. ctx' \in Context /\ (Restores(e, ctx') \/ Reaches(e, ctx') \/ Leaves(e, ctx'))
      BY <3>1, <3>2, <3>3, AlignedFacts
    <3>5. Restores(Now, ctx') \/ Reaches(Now, ctx') \/ Leaves(Now, ctx')
      BY <3>2, <3>4 DEF Restores, Reaches, Leaves, SamePlace, SamePhotos
    <3> QED  BY <1>0, <2>1, <3>4, <3>5 DEF RunOutcome
  <2> QED  BY <2>1, <2>2, <2>3
<1>8. CASE RunCapture
  <2>1. ctx.state = "CAPTURE"
    BY <1>8 DEF RunCapture, Begin
  <2>2. PICK heard \in Answered(Now) : ctx' \in Session(heard)
    BY <1>8 DEF RunCapture, Put
  <2>3. /\ heard \in Context /\ heard.state = "CAPTURE" /\ heard.motor = Now.motor
        /\ SameSession(Now, heard) /\ heard.fromCap = Now.fromCap
        /\ Now.capSt = "TURN" => heard.capSt = "TURN"
    BY <1>0, <2>1, AnsweredFacts
  <2>4. ctx' \in Context /\ (Continues(heard, ctx') \/ Ends(heard, ctx'))
    BY <2>2, <2>3, SessionFacts DEF SameSession
  <2>5. Continues(Now, ctx') \/ Ends(Now, ctx')
    BY <2>3, <2>4 DEF Continues, Ends, SameSession
  <2> QED  BY <1>0, <2>1, <2>4, <2>5 DEF RunOutcome
<1>9. CASE CaptureTimesOut
  <2>1. ctx.state = "CAPTURE"
    BY <1>9 DEF CaptureTimesOut, Begin
  <2>2. PICK heard \in Answered(Now) :
          heard.capSt \in {"ACK", "RESP", "TURN"} /\ ctx' = [heard EXCEPT !.state = "IDLE"]
    BY <1>9 DEF CaptureTimesOut, Put
  <2>3. /\ heard \in Context /\ heard.motor = Now.motor /\ SameSession(Now, heard)
        /\ heard.fromCap = Now.fromCap /\ heard.capSt = Now.capSt
    BY <1>0, <2>2, AnsweredFacts
  <2> DEFINE e == [heard EXCEPT !.state = "IDLE"]
  <2>4. e \in Context
    BY <2>3 DEF Context, States
  <2>5. GivesUp(Now, e)
    BY <2>3, <2>4 DEF Context, GivesUp, SameSession
  <2> QED  BY <1>0, <2>1, <2>2, <2>4, <2>5 DEF RunOutcome
<1> QED  BY <1>1, <1>2, <1>3, <1>4, <1>5, <1>6, <1>7, <1>8, <1>9 DEF Run

(* A command is obeyed between two periods.                                  *)
LEMMA ObeyStep ==
  ASSUME ctx \in Context, NEW cmd \in Commands, Obey(cmd)
  PROVE  ctx' \in Context /\ CommandOutcome(Now, ctx', cmd)
<1>1. ctx' \in Commanded(Now, cmd)
  BY DEF Obey, Now
<1> QED  BY <1>1, NowFacts, CommandedFacts

-----------------------------------------------------------------------------
(* It waits at junctions only; photographs are for vehicles that are asked for *)
(* them, and a session that interrupts the way does not begin at a junction. *)
PlaceInv ==
  /\ ctx.state = "WAIT" => ctx.junc = "IN"
  /\ ctx.state = "CAPTURE" \/ ctx.capWait \/ ctx.fromCap => Photographs
  /\ ctx.preState = "FOLLOW" => ctx.preCapSt # "IN"

(* What turns the motors in a session is its rotation.                        *)
StillInv ==
  ctx.state \in {"IDLE", "WAIT", "CAPTURE"} => ctx.motor = "off" \/ ctx.capSt = "TURN"

(* Can the host turn the vehicle around where it stands?                      *)
TurnsAround == \E cmd \in Commands : cmd.kind = "ACTION" /\ cmd.arg = "UTURN"

(* A vehicle that takes photographs turns at junctions only, so that the end    *)
(* of a session, or a turn taken for one, brings it back to a junction only    *)
(* if it is at one.                                                        *)
FreshInv ==
  /\ FreshDirection
  /\ Photographs /\ ctx.state = "TURN" => ctx.junc = "IN"
  /\ /\ ctx.state = "CAPTURE" \/ (ctx.state = "ACQUIRE" /\ ctx.fromCap)
     /\ ctx.preCapSt = "IN"
     => ctx.junc = "IN"

CarInv == TypeOK /\ PlaceInv /\ StillInv

(* Nothing has happened yet.                                                 *)
LEMMA CarInit == Init => CarInv /\ FreshInv
<1> SUFFICES ASSUME Init PROVE CarInv /\ FreshInv
  OBVIOUS
<1>1. 0 \in 0..MaxCount /\ 0 \in 0..Photos /\ 0 \in 0..3
  BY CountAssumption, PhotosAssumption
<1>2. <<>> \in Seq(Reports) /\ Len(<<>>) = 0
  OBVIOUS
<1>3. ctx \in Context
  BY <1>1, <1>2 DEF Init, Context, States, Directions, Junctions, Stages, Photographable, Motors
<1>4. /\ ctx.state = "IDLE" /\ ctx.orient = "NONE" /\ ctx.junc = "NONE" /\ ctx.capSt = "IN"
      /\ ctx.preState = "IDLE" /\ ctx.preCapSt = "NONE" /\ ctx.motor = "off" /\ ctx.sent = <<>>
  BY DEF Init
<1>5. ctx.capWait = FALSE /\ ctx.fromCap = FALSE
  BY DEF Init
<1>6. frame \in Frames
  BY DEF Init, Frames, FirstFrame
<1>7. TypeOK
  <2>1. phase = "look" /\ capMode = FALSE /\ fresh = FALSE
    BY DEF Init
  <2>2. Len(ctx.sent) <= 2
    BY <1>2, <1>4
  <2> QED  BY <1>3, <1>6, <2>1, <2>2 DEF TypeOK
<1>8. PlaceInv /\ StillInv /\ FreshInv
  BY <1>4, <1>5 DEF PlaceInv, StillInv, FreshInv, FreshDirection
<1> QED  BY <1>7, <1>8 DEF CarInv

(* No step reports more than two things.                                      *)
Brief(s) == s \in {<<>>, <<A>>, <<O>>, <<R>>, <<R, R>>, <<A, O>>, <<A, A>>, <<O, A>>}
(* These lists have two entries at most.                                     *)
LEMMA BriefLength ==
  ASSUME NEW s, Brief(s)
  PROVE  Len(s) <= 2
<1>1. CASE s = <<>>
  BY <1>1
<1>2. ASSUME NEW r, s = <<r>> PROVE Len(s) <= 2
  BY <1>2
<1>3. CASE s = <<R, R>>
  BY <1>3
<1>4. CASE s = <<A, O>>
  BY <1>4
<1>5. CASE s = <<A, A>>
  BY <1>5
<1>6. CASE s = <<O, A>>
  BY <1>6
<1> QED  BY <1>1, <1>2, <1>3, <1>4, <1>5, <1>6 DEF Brief

(* What each outcome reports.                                                *)
LEMMA SentFacts ==
  ASSUME NEW c, c.sent = <<>>, NEW d
  PROVE  /\ LookOutcome(c, d) => Brief(d.sent)
         /\ RunOutcome(c, d) => Brief(d.sent)
         /\ \A cmd : CommandOutcome(c, d, cmd) => d.sent = <<>>
<1>1. Append(<<>>, "OBSTACLE") = <<O>>
  BY Twice DEF O, Reports
<1>2. LookOutcome(c, d) => Brief(d.sent)
  BY DEF LookOutcome, Rests, Resumes, Stops, Brief
<1>3. FollowOutcome(c, d) => Brief(d.sent)
  BY <1>1 DEF FollowOutcome, Announces, GoesOn, Waits, Chooses, Executed, Reported, Counts,
              ComesBack, Brief
<1>4. RunOutcome(c, d) => Brief(d.sent)
  BY <1>3 DEF RunOutcome, Rests, Repeats, TimesOut, Begins, SessionBegun, Restores, Reaches,
              Leaves, Continues, Ends, GivesUp, SameSession, Brief
<1>5. ASSUME NEW cmd, CommandOutcome(c, d, cmd) PROVE d.sent = <<>>
  BY <1>5 DEF CommandOutcome, Told, Paused, Rests, Started, Turned, PutOff, Begins, SessionBegun
<1> QED  BY <1>2, <1>4, <1>5

(* What a step may do to the context, and to what it hears.                   *)
StepOutcome(c, d) ==
  \/ phase = "look" /\ (LookOutcome(c, d) /\ Heard(d))
  \/ phase = "run" /\ (RunOutcome(c, d) /\ Heard(d))
  \/ \E cmd \in Commands :
       /\ CommandOutcome(c, d, cmd)
       /\ fresh' = (fresh \/ (cmd.kind = "ORIENT" /\ c.junc = "IN"))
(* Every step has one of these outcomes.                                     *)
LEMMA StepFacts ==
  ASSUME ctx \in Context, frame \in Frames, Next
  PROVE  ctx' \in Context /\ StepOutcome(Now, ctx')
<1>1. CASE Look
  <2>1. Heard(ctx') /\ phase = "look"
    BY <1>1 DEF Look
  <2> QED  BY <1>1, <2>1, LookStep DEF StepOutcome
<1>2. CASE Run
  <2>1. Heard(ctx') /\ phase = "run"
    BY <1>2 DEF Run, RunIdle, RunFollowPhoto, RunFollow, RunWait, WaitTimesOut, RunTurn,
                RunAcquire, RunCapture, CaptureTimesOut, Begin, Put
  <2> QED  BY <1>2, <2>1, RunStep DEF StepOutcome
<1>3. ASSUME NEW cmd \in Commands, Obey(cmd)
      PROVE  ctx' \in Context /\ StepOutcome(Now, ctx')
  <2>1. Now.junc = ctx.junc
    BY NowFacts DEF SamePlace
  <2>2. fresh' = (fresh \/ (cmd.kind = "ORIENT" /\ Now.junc = "IN"))
    BY <1>3, <2>1 DEF Obey
  <2> QED  BY <1>3, <2>2, ObeyStep DEF StepOutcome
<1> QED  BY <1>1, <1>2, <1>3 DEF Next, ControlTask

(* The types are kept.                                                      *)
LEMMA TypeStep == TypeOK /\ [Next]_vars => TypeOK'
<1> SUFFICES ASSUME TypeOK, [Next]_vars PROVE TypeOK'
  OBVIOUS
<1>1. CASE Next
  <2>1. ctx' \in Context /\ StepOutcome(Now, ctx') /\ Now.sent = <<>>
    BY <1>1, StepFacts, NowFacts DEF TypeOK
  <2>2. Len(ctx'.sent) <= 2
    <3>1. Brief(ctx'.sent)
      BY <2>1, SentFacts DEF StepOutcome, Brief
    <3> QED  BY <3>1, BriefLength
  <2>3. fresh' \in BOOLEAN
    BY <2>1 DEF StepOutcome, Heard
  <2>4. CASE Look
    BY <2>1, <2>2, <2>3, <2>4 DEF Look, OldFrame, NewFrame, TypeOK
  <2>5. CASE Run
    <3>1. phase' = "look" /\ UNCHANGED frame
      BY <2>5 DEF Run, RunIdle, RunFollowPhoto, RunFollow, RunWait, WaitTimesOut, RunTurn,
                  RunAcquire, RunCapture, CaptureTimesOut, Begin
    <3>2. capMode' \in BOOLEAN
      <4>1. CASE RunCapture
        BY <4>1 DEF RunCapture
      <4>2. CASE CaptureTimesOut
        BY <4>2 DEF CaptureTimesOut
      <4>3. CASE ~RunCapture /\ ~CaptureTimesOut
        <5>1. capMode' = capMode
          BY <2>5, <4>3 DEF Run, RunIdle, RunFollowPhoto, RunFollow, RunWait, WaitTimesOut,
                            RunTurn, RunAcquire
        <5> QED  BY <5>1 DEF TypeOK
      <4> QED  BY <4>1, <4>2, <4>3
    <3> QED  BY <2>1, <2>2, <2>3, <3>1, <3>2 DEF TypeOK
  <2>6. CASE \E cmd \in Commands : Obey(cmd)
    BY <2>1, <2>2, <2>3, <2>6 DEF Obey, TypeOK
  <2> QED  BY <1>1, <2>4, <2>5, <2>6 DEF Next, ControlTask
<1>2. CASE UNCHANGED vars
  BY <1>2 DEF vars, TypeOK
<1> QED  BY <1>1, <1>2

(* Where the vehicle waits, and what a photo session comes back to.           *)
LEMMA PlaceStep == TypeOK /\ PlaceInv /\ [Next]_vars => PlaceInv'
<1> SUFFICES ASSUME TypeOK, PlaceInv, [Next]_vars PROVE PlaceInv'
  OBVIOUS
<1>1. CASE Next
  <2>1. ctx' \in Context /\ StepOutcome(Now, ctx')
    BY <1>1, StepFacts DEF TypeOK
  <2>2. PICK c \in Context : c = Now
    BY NowFacts DEF TypeOK
  <2>3. /\ c.state = "WAIT" => c.junc = "IN"
        /\ c.state = "CAPTURE" \/ c.capWait \/ c.fromCap => Photographs
        /\ c.preState = "FOLLOW" => c.preCapSt # "IN"
    BY <2>2, NowFacts DEF TypeOK, PlaceInv, SamePlace, SamePhotos
  <2>4. PICK d \in Context : d = ctx'
    BY <2>1
  <2> DEFINE Good == /\ d.state = "WAIT" => d.junc = "IN"
                     /\ d.state = "CAPTURE" \/ d.capWait \/ d.fromCap => Photographs
                     /\ d.preState = "FOLLOW" => d.preCapSt # "IN"
  <2>5. ASSUME LookOutcome(c, d) PROVE Good
    BY <2>3, <2>5 DEF LookOutcome, Rests, Resumes, Stops, Stood, SamePlace, SamePhotos
  <2>6. ASSUME FollowOutcome(c, d) PROVE Good
    BY <2>3, <2>6 DEF FollowOutcome, Announces, GoesOn, Waits, Chooses, Executed, Counts,
                      ComesBack, Stood, SamePlace, SamePhotos
  <2>7. ASSUME RunOutcome(c, d) /\ ~FollowOutcome(c, d) PROVE Good
    <3>1. c.preState \in Photographable
      BY DEF Context
    <3> QED  BY <2>3, <2>7, <3>1
                DEF RunOutcome, Rests, Repeats, TimesOut, Begins, SessionBegun, Restores, Reaches,
                    Leaves, Continues, Ends, GivesUp, Stood, SameSession, SamePlace, SamePhotos,
                    Photographable
  <2>8. ASSUME NEW cmd \in Commands, CommandOutcome(c, d, cmd) PROVE Good
    <3>1. cmd.kind = "CAPTURE" => Photographs
      BY DEF Photographs
    <3> HIDE DEF Photographs
    <3> QED  BY <2>3, <2>8, <3>1
                DEF CommandOutcome, Told, Paused, Rests, Started, Turned, PutOff, Begins,
                    SessionBegun, SamePlace, SamePhotos
  <2>9. Good
    BY <2>1, <2>2, <2>4, <2>5, <2>6, <2>7, <2>8 DEF StepOutcome
  <2> QED  BY <2>4, <2>9 DEF PlaceInv, Photographs
<1>2. CASE UNCHANGED vars
  BY <1>2 DEF vars, PlaceInv, Photographs
<1> QED  BY <1>1, <1>2

(* Whatever stops the vehicle stops its motors.                               *)
LEMMA StillStep == TypeOK /\ StillInv /\ [Next]_vars => StillInv'
<1> SUFFICES ASSUME TypeOK, StillInv, [Next]_vars PROVE StillInv'
  OBVIOUS
<1>1. CASE Next
  <2>1. ctx' \in Context /\ StepOutcome(Now, ctx')
    BY <1>1, StepFacts DEF TypeOK
  <2>2. PICK c \in Context : c = Now
    BY NowFacts DEF TypeOK
  <2>3. c.state \in {"IDLE", "WAIT", "CAPTURE"} => c.motor = "off" \/ c.capSt = "TURN"
    BY <2>2, NowFacts DEF TypeOK, StillInv, SamePlace, SamePhotos
  <2>4. PICK d \in Context : d = ctx'
    BY <2>1
  <2> DEFINE Good == d.state \in {"IDLE", "WAIT", "CAPTURE"} => d.motor = "off" \/ d.capSt = "TURN"
  <2>5. ASSUME LookOutcome(c, d) PROVE Good
    BY <2>3, <2>5 DEF LookOutcome, Rests, Resumes, Stops, Stood, SamePlace, SamePhotos
  <2>6. ASSUME FollowOutcome(c, d) PROVE Good
    BY <2>3, <2>6 DEF FollowOutcome, Announces, GoesOn, Waits, Chooses, Executed, Counts,
                      ComesBack, Stood, SamePlace, SamePhotos
  <2>7. ASSUME RunOutcome(c, d) /\ ~FollowOutcome(c, d) PROVE Good
    BY <2>3, <2>7 DEF RunOutcome, Rests, Repeats, TimesOut, Begins, SessionBegun, Restores,
         Reaches, Leaves, Continues, Ends, GivesUp, Stood, SameSession, SamePlace, SamePhotos
  <2>8. ASSUME NEW cmd \in Commands, CommandOutcome(c, d, cmd) PROVE Good
    BY <2>3, <2>8 DEF CommandOutcome, Told, Paused, Rests, Started, Turned, PutOff, Begins,
                      SessionBegun, SamePlace, SamePhotos
  <2>9. Good
    BY <2>1, <2>2, <2>4, <2>5, <2>6, <2>7, <2>8 DEF StepOutcome
  <2> QED  BY <2>4, <2>9 DEF StillInv
<1>2. CASE UNCHANGED vars
  BY <1>2 DEF vars, StillInv
<1> QED  BY <1>1, <1>2

(* A step that leaves the motors of a standing vehicle on found them so, or   *)
(* is the end of a session that turns.                                     *)
LEMMA StandsOnce ==
  ASSUME TypeOK, StillInv, Next
  PROVE  Turning(ctx') => Turning(ctx) \/ (CaptureTimesOut /\ ctx.capSt = "TURN")
<1>0. ctx \in Context /\ frame \in Frames /\ Now \in Context
  BY NowFacts DEF TypeOK
<1>1. PICK c \in Context : c = Now
  BY <1>0
<1>2. c.state = ctx.state /\ c.motor = ctx.motor /\ Now.sent = <<>>
  BY <1>1, NowFacts DEF TypeOK
<1>3. PICK d \in Context : d = ctx'
  BY <1>0, StepFacts
<1> DEFINE Good == d.state \in {"IDLE", "WAIT"} /\ d.motor # "off" => d.state = c.state /\ d.motor = c.motor
<1>4. ASSUME Good PROVE Turning(ctx') => Turning(ctx)
  BY <1>2, <1>3, <1>4 DEF Turning, Stands
<1>5. CASE Look
  <2>1. LookOutcome(c, d)
    BY <1>0, <1>1, <1>3, <1>5, LookStep
  <2>2. Good
    BY <2>1 DEF LookOutcome, Rests, Resumes, Stops, Stood
  <2> QED  BY <2>2, <1>4
<1>6. ASSUME NEW cmd \in Commands, Obey(cmd)
      PROVE  Turning(ctx') => Turning(ctx)
  <2>1. CommandOutcome(c, d, cmd)
    BY <1>0, <1>1, <1>3, <1>6, ObeyStep
  <2>2. Good
    BY <2>1 DEF CommandOutcome, Told, Paused, Rests, Started, Turned, PutOff, Begins, SessionBegun
  <2> QED  BY <2>2, <1>4
<1>7. CASE Run /\ ctx.state # "CAPTURE"
  <2>1. RunOutcome(c, d) /\ c.state # "CAPTURE"
    BY <1>0, <1>1, <1>2, <1>3, <1>7, RunStep
  <2>2. ASSUME FollowOutcome(c, d) PROVE Good
    BY <2>2 DEF FollowOutcome, Announces, GoesOn, Waits, Chooses, Executed, Counts, ComesBack, Stood
  <2>3. ASSUME ~FollowOutcome(c, d) PROVE Good
    BY <2>1, <2>3 DEF RunOutcome, Rests, Repeats, TimesOut, Begins, SessionBegun, Restores, Reaches,
                      Leaves, Stood
  <2> QED  BY <2>2, <2>3, <1>4
<1>8. CASE RunCapture
  <2>1. PICK heard \in Answered(Now) : ctx' \in Session(heard)
    BY <1>8 DEF RunCapture, Put
  <2>2. heard \in Context /\ heard.state = "CAPTURE" /\ heard.sent = <<>>
    BY <1>0, <1>1, <1>2, <1>8, <2>1, AnsweredFacts DEF RunCapture, Begin, SameSession
  <2>3. Continues(heard, ctx') \/ Ends(heard, ctx')
    BY <2>1, <2>2, SessionFacts
  <2>4. d.state \notin {"IDLE", "WAIT"}
    BY <1>3, <2>3 DEF Continues, Ends
  <2> QED  BY <2>4, <1>4
<1>9. CASE CaptureTimesOut
  <2>1. PICK heard \in Answered(Now) : ctx' = [heard EXCEPT !.state = "IDLE"]
    BY <1>9 DEF CaptureTimesOut, Put
  <2>2. heard \in Context /\ heard.motor = Now.motor /\ ctx.state = "CAPTURE"
    BY <1>0, <1>1, <1>2, <1>9, <2>1, AnsweredFacts DEF CaptureTimesOut, Begin
  <2>3. ctx'.motor = ctx.motor
    BY <1>1, <1>2, <2>1, <2>2 DEF Context
  <2> QED  BY <1>9, <2>2, <2>3 DEF StillInv, Turning
<1>10. Run => ctx.state # "CAPTURE" \/ RunCapture \/ CaptureTimesOut
  BY DEF Run, RunIdle, RunFollowPhoto, RunFollow, RunWait, WaitTimesOut, RunTurn, RunAcquire, Begin
<1> QED  BY <1>5, <1>6, <1>7, <1>8, <1>9, <1>10 DEF Next, ControlTask

(* Reports that announce no junction.                                         *)
LEMMA SilentReports ==
  ASSUME NEW s \in {<<>>, <<R>>, <<R, R>>, <<O>>}
  PROVE  \A i \in DOMAIN s : s[i] # "ARRIVE"
<1>1. CASE s = <<>>
  BY <1>1
<1>2. CASE s = <<R>> \/ s = <<O>>
  BY <1>2 DEF R, O
<1>3. CASE s = <<R, R>>
  BY <1>3 DEF R
<1> QED  BY <1>1, <1>2, <1>3

(* A direction at a junction was there before the step, or came with it.       *)
LEMMA FreshStep ==
  ASSUME ~(Photographs /\ TurnsAround)
  PROVE  TypeOK /\ PlaceInv /\ FreshInv /\ [Next]_vars => FreshInv'
<1> SUFFICES ASSUME TypeOK, PlaceInv, FreshInv, [Next]_vars PROVE FreshInv'
  OBVIOUS
<1>1. CASE Next
  <2>1. ctx' \in Context /\ StepOutcome(Now, ctx')
    BY <1>1, StepFacts DEF TypeOK
  <2>2. PICK c \in Context : c = Now
    BY NowFacts DEF TypeOK
  <2>3. /\ c.state = "WAIT" => c.junc = "IN"
        /\ c.state = "CAPTURE" \/ c.capWait \/ c.fromCap => Photographs
        /\ c.junc = "IN" /\ c.orient # "NONE" => fresh
        /\ Photographs /\ c.state = "TURN" => c.junc = "IN"
        /\ /\ c.state = "CAPTURE" \/ (c.state = "ACQUIRE" /\ c.fromCap)
           /\ c.preCapSt = "IN"
           => c.junc = "IN"
    BY <2>2, NowFacts DEF TypeOK, PlaceInv, FreshInv, FreshDirection, SamePlace, SamePhotos
  <2>4. PICK d \in Context : d = ctx'
    BY <2>1
  <2> HIDE DEF Photographs
  <2>5. CASE LookOutcome(c, d) /\ Heard(d)
    <3>1. /\ Photographs /\ d.state = "TURN" => d.junc = "IN"
          /\ /\ d.state = "CAPTURE" \/ (d.state = "ACQUIRE" /\ d.fromCap)
             /\ d.preCapSt = "IN"
             => d.junc = "IN"
      BY <2>3, <2>5 DEF LookOutcome, Rests, Resumes, Stops, Stood, SamePlace, SamePhotos
    <3>2. d.junc = "IN" /\ d.orient # "NONE" =>
            /\ c.junc = "IN" /\ c.orient # "NONE"
            /\ d.sent \in {<<>>, <<R>>, <<R, R>>}
      BY <2>5 DEF LookOutcome, Rests, Resumes, Stops, Stood, SamePlace
    <3> QED  BY <2>3, <2>4, <2>5, <3>1, <3>2, SilentReports DEF FreshInv, FreshDirection, Heard
  <2>6. CASE RunOutcome(c, d) /\ Heard(d)
    <3>1. CASE FollowOutcome(c, d)
      <4>1. /\ Photographs /\ d.state = "TURN" => d.junc = "IN"
            /\ /\ d.state = "CAPTURE" \/ (d.state = "ACQUIRE" /\ d.fromCap)
               /\ d.preCapSt = "IN"
               => d.junc = "IN"
        BY <2>3, <3>1 DEF FollowOutcome, Announces, GoesOn, Waits, Chooses, Executed, Counts,
                      ComesBack, Stood, SamePlace, SamePhotos
      <4>2. d.junc = "IN" /\ d.orient # "NONE" =>
              c.junc = "IN" /\ c.orient # "NONE" /\ d.sent = <<>>
        BY <3>1 DEF FollowOutcome, Announces, GoesOn, Waits, Chooses, Executed, Counts,
                      ComesBack, Stood, SamePlace
      <4> QED  BY <2>3, <2>4, <2>6, <4>1, <4>2, SilentReports DEF FreshInv, FreshDirection, Heard
    <3>2. CASE ~FollowOutcome(c, d)
      <4>0. c.preState \in Photographable
        BY DEF Context
      <4>1. /\ Photographs /\ d.state = "TURN" => d.junc = "IN"
            /\ /\ d.state = "CAPTURE" \/ (d.state = "ACQUIRE" /\ d.fromCap)
               /\ d.preCapSt = "IN"
               => d.junc = "IN"
        BY <2>3, <2>6, <3>2, <4>0 DEF RunOutcome, Rests, Repeats, TimesOut, Begins, SessionBegun,
             Restores, Reaches, Leaves, Continues, Ends, GivesUp, Stood, SameSession, SamePlace,
             SamePhotos, Photographable
      <4>2. d.junc = "IN" /\ d.orient # "NONE" =>
              c.junc = "IN" /\ c.orient # "NONE" /\ d.sent \in {<<>>, <<O>>}
        BY <2>3, <2>2, <2>6, <3>2, NowFacts
           DEF RunOutcome, Rests, Repeats, TimesOut, Begins, SessionBegun,
             Restores, Reaches, Leaves, Continues, Ends, GivesUp, Stood, SameSession, SamePlace,
             SamePhotos, TypeOK
      <4> QED  BY <2>3, <2>4, <2>6, <4>1, <4>2, SilentReports DEF FreshInv, FreshDirection, Heard
    <3> QED  BY <3>1, <3>2
  <2>7. ASSUME NEW cmd \in Commands, CommandOutcome(c, d, cmd),
               fresh' = (fresh \/ (cmd.kind = "ORIENT" /\ c.junc = "IN"))
        PROVE  FreshInv'
    <3>1. cmd.kind = "CAPTURE" => Photographs
      BY DEF Photographs
    <3>2. cmd.kind = "ACTION" /\ cmd.arg = "UTURN" => ~Photographs
      BY DEF TurnsAround
    <3>3. /\ Photographs /\ d.state = "TURN" => d.junc = "IN"
          /\ /\ d.state = "CAPTURE" \/ (d.state = "ACQUIRE" /\ d.fromCap)
             /\ d.preCapSt = "IN"
             => d.junc = "IN"
      BY <2>3, <2>7, <3>1, <3>2 DEF CommandOutcome, Told, Paused, Rests, Started, Turned,
                                    PutOff, Begins, SessionBegun, SamePlace, SamePhotos
    <3>4. d.junc = "IN" /\ d.orient # "NONE" =>
            c.junc = "IN" /\ (cmd.kind = "ORIENT" \/ c.orient # "NONE")
      BY <2>7 DEF CommandOutcome, Told, Paused, Rests, Started, Turned, PutOff, Begins,
                  SessionBegun, SamePlace
    <3> QED  BY <2>3, <2>4, <2>7, <3>3, <3>4 DEF FreshInv, FreshDirection, Photographs
  <2> QED  BY <2>1, <2>2, <2>4, <2>5, <2>6, <2>7 DEF StepOutcome
<1>2. CASE UNCHANGED vars
  BY <1>2 DEF vars, FreshInv, FreshDirection, Photographs
<1> QED  BY <1>1, <1>2

-----------------------------------------------------------------------------
(* The types, for every vehicle.                                             *)
THEOREM TypeCorrect == Spec => []TypeOK
<1> QED  BY CarInit, TypeStep, PTL DEF Spec, CarInv

(* A vehicle comes to stand, or to wait, with its motors off (main.cpp, the    *)
(* states STATE_IDLE and STATE_WAIT_COMMAND); only the end of a session whose *)
(* rotation times out leaves them on.                                       *)
THEOREM StandingStill == Spec => StandsStill
<1>1. TypeOK /\ StillInv /\ [Next]_vars => (TypeOK /\ StillInv)'
  BY TypeStep, StillStep
<1>2. Init => TypeOK /\ StillInv
  BY CarInit DEF CarInv
<1>3. TypeOK /\ StillInv /\ [Next]_vars =>
        [Turning(ctx') => Turning(ctx) \/ (CaptureTimesOut /\ ctx.capSt = "TURN")]_vars
  BY StandsOnce
<1> QED  BY <1>1, <1>2, <1>3, PTL DEF Spec, StandsStill

(* A vehicle acts at a junction on a direction that came after it announced    *)
(* that junction (main.cpp, onJunc), if it takes no photographs or is never   *)
(* told to turn around: with both, the end of a session that a pause cut off  *)
(* is taken for the end of the turn.                                        *)
THEOREM FreshDirections ==
  ASSUME ~(Photographs /\ TurnsAround)
  PROVE  Spec => []FreshDirection
<1>1. TypeOK /\ PlaceInv /\ FreshInv /\ [Next]_vars => (TypeOK /\ PlaceInv /\ FreshInv)'
  BY TypeStep, PlaceStep, FreshStep
<1>2. Init => TypeOK /\ PlaceInv /\ FreshInv
  BY CarInit DEF CarInv
<1>3. FreshInv => FreshDirection
  BY DEF FreshInv
<1> QED  BY <1>1, <1>2, <1>3, PTL DEF Spec

-----------------------------------------------------------------------------
(* The vehicle the host sees: where a context has it.                         *)
Place(c) ==
  CASE c.state \in {"IDLE", "CAPTURE"} -> IF c.junc = "IN" THEN "held" ELSE "idle"
    [] c.junc = "IN" /\ c.state \in {"FOLLOW", "WAIT"} /\ c.orient = "NONE" -> "junction"
    [] c.junc = "IN" /\ c.state \in {"FOLLOW", "WAIT"} /\ c.orient = "ARRIVED" -> "stopping"
    [] OTHER -> "follow"

(* What the host sees of a step from c to d.                                  *)
Seems(c, d) ==
  /\ Drive = Place(c) /\ Drive' = Place(d)
  /\ ctx.backing = c.backing /\ ctx'.backing = d.backing /\ ctx'.sent = d.sent

(* What the camera shows.                                                   *)
LEMMA LookRefines ==
  ASSUME NEW c \in Context, NEW d \in Context, Seems(c, d), LookOutcome(c, d)
  PROVE  V!Next
<1>1. CASE Rests(c, d)
  <2>1. Place(d) = Place(c) /\ d.backing = c.backing /\ d.sent = <<>>
    BY <1>1 DEF Rests, SamePlace, Place
  <2>2. V!Silent
    BY <2>1 DEF Seems, V!Silent, V!Keeps
  <2> QED  BY <2>2 DEF V!Next
<1>2. CASE Resumes(c, d)
  <2>1. /\ Place(d) \in V!Resumed(Place(c)) /\ d.backing = c.backing
        /\ d.sent \in {<<R>>, <<R, R>>}
    BY <1>2 DEF Resumes, SamePlace, Place, V!Resumed, V!Started
  <2>2. V!Repaired
    BY <2>1 DEF Seems, V!Repaired, V!Keeps, R
  <2> QED  BY <2>2 DEF V!Next
<1>3. CASE Stops(c, d)
  <2>1. /\ Place(d) = "idle" /\ Place(c) \in {"follow", "junction", "stopping"}
        /\ c.junc = "NONE" => Place(c) = "follow"
        /\ d.backing \in {c.backing, FALSE}
    BY <1>3 DEF Stops, Stood, Place, Context
  <2>2. V!Obstacle
    BY <1>3, <2>1 DEF Seems, V!Obstacle, V!Keeps, Stops, A, O
  <2> QED  BY <2>2 DEF V!Next
<1> QED  BY <1>1, <1>2, <1>3 DEF LookOutcome

(* A period on the road, or of waiting at a junction.                         *)
LEMMA FollowRefines ==
  ASSUME NEW c \in Context, NEW d \in Context, Seems(c, d), FollowOutcome(c, d), c.sent = <<>>,
         c.state = "WAIT" => c.junc = "IN"
  PROVE  V!Next
<1>1. CASE Announces(c, d)
  <2>1. Place(c) = "follow" /\ Place(d) = "junction" /\ d.backing = c.backing /\ d.sent = <<A>>
    BY <1>1 DEF Announces, Place
  <2>2. V!Arrive
    BY <2>1 DEF Seems, V!Arrive, V!Keeps, A
  <2> QED  BY <2>2 DEF V!Next
<1>2. CASE GoesOn(c, d)
  <2>1. Place(d) = Place(c) /\ d.backing = c.backing /\ d.sent = <<>>
    BY <1>2 DEF GoesOn, Place
  <2>2. V!Silent
    BY <2>1 DEF Seems, V!Silent, V!Keeps
  <2> QED  BY <2>2 DEF V!Next
<1>3. CASE Waits(c, d)
  <2>1. Place(d) = Place(c) /\ d.backing = c.backing /\ d.sent = <<>>
    BY <1>3 DEF Waits, SamePlace, Place
  <2>2. V!Silent
    BY <2>1 DEF Seems, V!Silent, V!Keeps
  <2> QED  BY <2>2 DEF V!Next
<1>4. CASE Chooses(c, d)
  <2>1. c.junc = "IN" /\ c.state \in {"FOLLOW", "WAIT"} /\ c.orient # "NONE"
    BY <1>4 DEF Chooses
  <2>2. CASE Stood(c, d) /\ Reported(c, d, "OBSTACLE")
    <3>1. Append(<<>>, "OBSTACLE") = <<O>>
      BY Twice DEF O, Reports
    <3>2. Place(d) = "idle" /\ Place(c) \in {"follow", "stopping"}
      BY <2>1, <2>2 DEF Stood, Place
    <3>3. d.backing \in {c.backing, FALSE}
      BY <2>2 DEF Stood, Context
    <3>4. d.sent \in {<<>>, <<O>>}
      BY <2>2, <3>1 DEF Reported
    <3>5. V!Obstacle
      BY <3>2, <3>3, <3>4 DEF Seems, V!Obstacle, V!Keeps, O
    <3> QED  BY <3>5 DEF V!Next
  <2>3. CASE /\ d.orient = "NONE" /\ d.backing = c.backing /\ d.sent = c.sent
             /\ \/ /\ c.orient \in {"LEFT", "RIGHT", "UTURN"}
                   /\ d.state = "TURN" /\ d.junc = c.junc
                \/ c.orient = "STRAIGHT" /\ d.state = "FOLLOW" /\ d.junc = "OUT"
    <3>1. Place(c) = "follow" /\ Place(d) = "follow"
      BY <2>1, <2>3 DEF Place
    <3>2. V!Silent
      BY <2>3, <3>1 DEF Seems, V!Silent, V!Keeps
    <3> QED  BY <3>2 DEF V!Next
  <2>4. CASE /\ d.orient = "NONE" /\ d.backing = c.backing /\ d.sent = c.sent
             /\ c.orient = "ARRIVED" /\ d.state = "IDLE" /\ d.junc = c.junc
    <3>1. Place(c) = "stopping" /\ Place(d) = "held"
      BY <2>1, <2>4 DEF Place
    <3>2. V!Park
      BY <2>4, <3>1 DEF Seems, V!Park, V!Keeps
    <3> QED  BY <3>2 DEF V!Next
  <2> QED  BY <1>4, <2>2, <2>3, <2>4 DEF Chooses, Executed
<1>5. CASE Counts(c, d)
  <2>1. /\ Place(d) = "idle" /\ Place(c) \in {"follow", "junction", "stopping"}
        /\ c.junc = "NONE" => Place(c) = "follow"
        /\ d.backing \in {c.backing, FALSE} /\ RoadNums # {}
    BY <1>5 DEF Counts, Stood, Place, Context
  <2>2. V!CountReached
    BY <1>5, <2>1 DEF Seems, V!CountReached, V!Keeps, Counts, A
  <2> QED  BY <2>2 DEF V!Next
<1>6. CASE ComesBack(c, d)
  <2>1. Place(d) = "junction" /\ Place(c) \in {"follow", "junction", "stopping"}
    BY <1>6 DEF ComesBack, Place
  <2>2. V!ArriveBack
    BY <1>6, <2>1 DEF Seems, V!ArriveBack, V!Keeps, ComesBack, A, O
  <2> QED  BY <2>2 DEF V!Next
<1> QED  BY <1>1, <1>2, <1>3, <1>4, <1>5, <1>6 DEF FollowOutcome

(* Every other step of a period.                                             *)
LEMMA RunRefines ==
  ASSUME NEW c \in Context, NEW d \in Context, Seems(c, d), RunOutcome(c, d), c.sent = <<>>,
         c.state = "WAIT" => c.junc = "IN",
         c.state = "CAPTURE" \/ c.capWait \/ c.fromCap => V!Photographs,
         c.preState = "FOLLOW" => c.preCapSt # "IN"
  PROVE  V!Next
<1>1. CASE Rests(c, d)
  BY <1>1, LookRefines DEF LookOutcome
<1>2. CASE Repeats(c, d)
  <2>1. Place(c) \in {"idle", "held"} /\ Place(d) = Place(c) /\ d.backing = c.backing
        /\ d.sent = <<O>>
    BY <1>2 DEF Repeats, SamePlace, Place
  <2>2. V!Again
    BY <2>1 DEF Seems, V!Again, O
  <2> QED  BY <2>2 DEF V!Next
<1>3. CASE FollowOutcome(c, d)
  BY <1>3, FollowRefines
<1>4. CASE TimesOut(c, d)
  <2>1. /\ Place(c) = "junction" /\ Place(d) = "idle" /\ d.sent = <<>>
        /\ d.backing \in {c.backing, FALSE}
    BY <1>4 DEF TimesOut, Stood, Place, Context
  <2>2. V!GiveUp
    BY <2>1 DEF Seems, V!GiveUp, V!Keeps
  <2> QED  BY <2>2 DEF V!Next
<1>5. CASE c.capWait /\ Begins(c, d)
  <2>1. /\ {Place(c), Place(d)} \subseteq {"idle", "follow", "held"}
        /\ d.backing = c.backing /\ d.sent = <<>>
    BY <1>5 DEF Begins, SessionBegun, Photographable, Place
  <2>2. V!Photograph
    BY <1>5, <2>1 DEF Seems, V!Photograph, V!Keeps
  <2> QED  BY <2>2 DEF V!Next
<1>6. CASE c.state = "ACQUIRE" /\ Restores(c, d)
  <2>1. c.preState \in Photographable
    BY DEF Context
  <2>2. /\ {Place(c), Place(d)} \subseteq {"idle", "follow", "held"}
        /\ d.backing = c.backing /\ d.sent = <<>>
    BY <1>6, <2>1 DEF Restores, Photographable, Place
  <2>3. V!Photographs
    BY <1>6 DEF Restores
  <2>4. V!Photograph
    BY <2>2, <2>3 DEF Seems, V!Photograph, V!Keeps
  <2> QED  BY <2>4 DEF V!Next
<1>7. CASE c.state = "ACQUIRE" /\ Reaches(c, d)
  <2>1. Place(c) = "follow" /\ Place(d) = "junction" /\ d.backing = FALSE /\ d.sent = <<A>>
    BY <1>7 DEF Reaches, Place
  <2>2. V!Arrive
    BY <2>1 DEF Seems, V!Arrive, V!Keeps, A
  <2> QED  BY <2>2 DEF V!Next
<1>8. CASE c.state = "ACQUIRE" /\ Leaves(c, d)
  <2>1. Place(c) = "follow" /\ Place(d) = "follow" /\ d.backing = c.backing /\ d.sent = <<>>
    BY <1>8 DEF Leaves, Place
  <2>2. V!Silent
    BY <2>1 DEF Seems, V!Silent, V!Keeps
  <2> QED  BY <2>2 DEF V!Next
<1>9. CASE c.state = "CAPTURE" /\ (Continues(c, d) \/ GivesUp(c, d))
  <2>1. Place(d) = Place(c) /\ d.backing = c.backing /\ d.sent = <<>>
    BY <1>9 DEF Continues, GivesUp, SameSession, Place
  <2>2. V!Silent
    BY <2>1 DEF Seems, V!Silent, V!Keeps
  <2> QED  BY <2>2 DEF V!Next
<1>10. CASE c.state = "CAPTURE" /\ Ends(c, d)
  <2>1. /\ {Place(c), Place(d)} \subseteq {"idle", "follow", "held"}
        /\ d.backing = c.backing /\ d.sent = <<>>
    BY <1>10 DEF Ends, SameSession, Place
  <2>2. V!Photograph
    BY <1>10, <2>1 DEF Seems, V!Photograph, V!Keeps
  <2> QED  BY <2>2 DEF V!Next
<1> QED  BY <1>1, <1>2, <1>3, <1>4, <1>5, <1>6, <1>7, <1>8, <1>9, <1>10 DEF RunOutcome

(* A command of the host.                                                   *)
LEMMA CommandRefines ==
  ASSUME NEW c \in Context, NEW d \in Context, Seems(c, d),
         NEW cmd \in Commands, CommandOutcome(c, d, cmd),
         c.state = "CAPTURE" => V!Photographs, c.sent = <<>>
  PROVE  V!Next
<1> SUFFICES V!Obey(cmd)
  BY DEF V!Next
<1>1. CASE cmd.kind = "ORIENT" /\ cmd.arg \in Directions /\ Told(c, d, cmd.arg)
  <2>1. /\ Place(d) \in V!Directed(Place(c), cmd.arg) /\ d.backing = c.backing /\ d.sent = <<>>
    BY <1>1 DEF Told, Place, V!Directed, Directions
  <2> QED  BY <1>1, <2>1 DEF Seems, V!Obey, V!Obeyed, V!Keeps
<1>2. CASE cmd.kind = "ACTION" /\ cmd.arg = "PAUSE" /\ Paused(c, d)
  <2>1. Place(d) \in V!Paused(Place(c)) /\ d.backing = c.backing /\ d.sent = <<>>
    BY <1>2 DEF Paused, SamePlace, Place, V!Paused
  <2> QED  BY <1>2, <2>1 DEF Seems, V!Obey, V!Obeyed, V!Keeps
<1>3. CASE cmd.kind = "ACTION" /\ cmd.arg = "PROCESS" /\ c.state # "IDLE" /\ Rests(c, d)
  <2>1. /\ Place(d) \in V!Started(Place(c)) \/ (V!Photographs /\ Place(d) = Place(c))
        /\ d.backing = c.backing /\ d.sent = <<>>
    BY <1>3 DEF Rests, SamePlace, Place, V!Started
  <2> QED  BY <1>3, <2>1 DEF Seems, V!Obey, V!Obeyed, V!Keeps
<1>4. CASE cmd.kind = "ACTION" /\ cmd.arg = "PROCESS" /\ Started(c, d)
  <2>1. /\ Place(d) \in V!Started(Place(c)) /\ d.backing = FALSE /\ d.sent = <<>>
    BY <1>4 DEF Started, Place, V!Started
  <2> QED  BY <1>4, <2>1 DEF Seems, V!Obey, V!Obeyed, V!Keeps
<1>5. CASE cmd.kind = "ACTION" /\ cmd.arg = "UTURN" /\ Turned(c, d)
  <2>1. Place(d) = "follow" /\ d.sent = <<>> /\ d.backing \in {TRUE, FALSE}
    BY <1>5 DEF Turned, Place, Context
  <2> QED  BY <1>5, <2>1 DEF Seems, V!Obey, V!Obeyed, V!Keeps
<1>6. CASE cmd.kind = "CNT" /\ Rests(c, d)
  <2>1. Place(d) = Place(c) /\ d.backing = c.backing /\ d.sent = <<>>
    BY <1>6 DEF Rests, SamePlace, Place
  <2> QED  BY <1>6, <2>1 DEF Seems, V!Obey, V!Obeyed, V!Keeps
<1>7. CASE cmd.kind = "CAPTURE" /\ PutOff(c, d)
  <2>1. Place(d) = Place(c) /\ d.backing = c.backing /\ d.sent = <<>>
    BY <1>7 DEF PutOff, Place
  <2> QED  BY <1>7, <2>1 DEF Seems, V!Obey, V!Obeyed, V!Keeps
<1>8. CASE cmd.kind = "CAPTURE" /\ Begins(c, d)
  <2>1. \/ Place(c) = "follow" /\ Place(d) = "idle"
        \/ Place(c) # "follow" /\ Place(d) = Place(c)
    BY <1>8 DEF Begins, SessionBegun, Photographable, Place
  <2>2. d.backing = c.backing /\ d.sent = <<>>
    BY <1>8 DEF Begins, SessionBegun, PutOff
  <2> QED  BY <1>8, <2>1, <2>2 DEF Seems, V!Obey, V!Obeyed, V!Keeps
<1> QED  BY <1>1, <1>2, <1>3, <1>4, <1>5, <1>6, <1>7, <1>8 DEF CommandOutcome

(* The firmware is the vehicle that the host assumes: whatever the camera      *)
(* shows, the counts say and the host commands.                             *)
THEOREM RefinesVehicle == Spec => VehicleSpec
<1>1. Init => V!Init
  BY DEF Init, V!Init, Drive, AtJunction
<1>2. TypeOK /\ PlaceInv /\ [Next]_vars => [V!Next]_(V!vars)
  <2> SUFFICES ASSUME TypeOK, PlaceInv, Next PROVE V!Next
    BY DEF vars, V!vars, Drive, AtJunction
  <2>1. ctx' \in Context /\ StepOutcome(Now, ctx')
    BY StepFacts DEF TypeOK
  <2>2. PICK c \in Context : c = Now
    BY NowFacts DEF TypeOK
  <2>3. /\ c.state = "WAIT" => c.junc = "IN"
        /\ c.state = "CAPTURE" \/ c.capWait \/ c.fromCap => Photographs
        /\ c.preState = "FOLLOW" => c.preCapSt # "IN"
        /\ c.sent = <<>>
    BY <2>2, NowFacts DEF TypeOK, PlaceInv, SamePlace, SamePhotos
  <2>4. PICK d \in Context : d = ctx'
    BY <2>1
  <2>5. Seems(c, d)
    <3>1. Drive = Place(ctx) /\ Drive' = Place(ctx')
      BY DEF Drive, AtJunction, Place
    <3>2. ctx.backing = c.backing /\ Place(ctx) = Place(c)
      BY <2>2, NowFacts DEF TypeOK, SamePlace, Place
    <3> QED  BY <2>4, <3>1, <3>2 DEF Seems
  <2>6. V!Photographs <=> Photographs
    BY DEF V!Photographs, Photographs
  <2>7. StepOutcome(c, d)
    BY <2>1, <2>2, <2>4
  <2>8. CASE LookOutcome(c, d)
    BY <2>5, <2>8, LookRefines
  <2>9. CASE RunOutcome(c, d)
    BY <2>3, <2>5, <2>6, <2>9, RunRefines
  <2>10. ASSUME NEW cmd \in Commands, CommandOutcome(c, d, cmd) PROVE V!Next
    BY <2>3, <2>5, <2>6, <2>10, CommandRefines
  <2> QED  BY <2>7, <2>8, <2>9, <2>10 DEF StepOutcome
<1>3. Init => TypeOK /\ PlaceInv
  BY CarInit DEF CarInv
<1>4. TypeOK /\ PlaceInv /\ [Next]_vars => (TypeOK /\ PlaceInv)'
  BY TypeStep, PlaceStep
<1> QED  BY <1>1, <1>2, <1>3, <1>4, PTL DEF Spec, VehicleSpec, V!Spec
=============================================================================

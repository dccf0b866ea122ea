------------------------------- MODULE Vehicle -------------------------------
(***************************************************************************)
(* A vehicle as the host sees it: what its commands do to it, what it may   *)
(* report next, and when it moves without being told.                       *)
(***************************************************************************)
EXTENDS VehicleCommands, Sequences

CONSTANT Commands    \* [kind, arg]: the commands the vehicle may receive
CONSTANT Counts      \* may it stop by its count of junctions?

VARIABLES
  drive,
  turned,   \* was it turned around since it was last started?
  said      \* what it reported in the last step

vars == <<drive, turned, said>>

Photographs == \E cmd \in Commands : cmd.kind = "CAPTURE"

-----------------------------------------------------------------------------
Init == drive = "idle" /\ turned = FALSE /\ said = <<>>

Keeps == turned' \in {turned, FALSE}

(* While it takes photographs it does not listen.                           *)
Obey(cmd) ==
  /\ drive' \in Obeyed(drive, cmd) \/ (Photographs /\ drive' = drive)
  /\ Keeps \/ (cmd.kind = "ACTION" /\ cmd.arg = "UTURN" /\ turned')
  /\ said' = <<>>

(* One announcement for each junction, and none while one is unanswered ... *)
Arrive ==
  /\ drive = "follow" /\ drive' = "junction"
  /\ said' = <<"ARRIVE">> /\ Keeps

(* ... except after a turn-around: where the way back ends, a junction is     *)
(* announced whatever has been announced before.                           *)
ArriveBack ==
  /\ turned /\ drive \in {"follow", "junction", "stopping"} /\ drive' = "junction"
  /\ said' \in {<<"ARRIVE">>, <<"ARRIVE", "ARRIVE">>, <<"OBSTACLE", "ARRIVE">>} /\ Keeps

(* It stops for an obstacle, at a junction or between junctions; only the    *)
(* second vehicle keeps silent, and so does one that has reported it before.*)
Obstacle ==
  /\ drive \in {"follow", "junction", "stopping"}
  /\ drive' = "idle" /\ Keeps
  /\ said' \in {<<>>, <<"OBSTACLE">>}
               \cup IF drive = "follow" THEN {<<"ARRIVE">>, <<"ARRIVE", "OBSTACLE">>} ELSE {}

(* The vehicle ahead does not move on: reported once more.                   *)
Again == drive \in {"idle", "held"} /\ said' = <<"OBSTACLE">> /\ UNCHANGED <<drive, turned>>

(* The way is clear: it goes on, whatever it was told meanwhile.             *)
Repaired ==
  /\ drive' \in Resumed(drive)
  /\ said' \in {<<"REPAIRED">>, <<"REPAIRED", "REPAIRED">>} /\ Keeps

(* Without a direction it gives up in the end, and told that it is there it  *)
(* stops at the junction.                                                  *)
GiveUp == drive = "junction" /\ drive' = "idle" /\ said' = <<>> /\ Keeps
Park == drive = "stopping" /\ drive' = "held" /\ said' = <<>> /\ Keeps

CountReached ==
  /\ Counts /\ drive \in {"follow", "junction", "stopping"}
  /\ drive' = "idle" /\ Keeps
  /\ said' \in {<<>>} \cup IF drive = "follow" THEN {<<"ARRIVE">>} ELSE {}

(* Photographs are taken standing, and then it does what it did before.      *)
Photograph ==
  /\ Photographs /\ {drive, drive'} \subseteq {"idle", "follow", "held"}
  /\ said' = <<>> /\ Keeps

(* Nothing happens that concerns the host.                                  *)
Silent == said' = <<>> /\ UNCHANGED drive /\ Keeps

Next ==
  \/ \E cmd \in Commands : Obey(cmd)
  \/ Arrive \/ ArriveBack \/ Obstacle \/ Again \/ Repaired \/ GiveUp \/ Park
  \/ CountReached \/ Photograph \/ Silent

Spec == Init /\ [][Next]_vars
=============================================================================

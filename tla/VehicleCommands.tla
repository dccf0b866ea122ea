--------------------------- MODULE VehicleCommands ---------------------------
(***************************************************************************)
(* What the commands of the host do to a vehicle, as the host sees it.      *)
(* HostDispatch drives its cars with these operators; Vehicle builds the    *)
(* specification of one vehicle from them, which CarControl, the firmware   *)
(* in detail, is checked to implement.                                      *)
(*                                                                         *)
(*   idle      it stands; when started it follows the road                  *)
(*   follow    it is on its way                                            *)
(*   junction  it has announced a junction and has no direction yet         *)
(*   stopping  it has announced a junction and was told that it is there    *)
(*   held      it stands and has not done with a junction (JS_IN)           *)
(***************************************************************************)
Places == {"idle", "follow", "junction", "stopping", "held"}

(* Where a start leads: a held vehicle goes on with the junction, with a     *)
(* direction received meanwhile or still without one.                       *)
Started(d) ==
  CASE d = "idle" -> {"follow"}
    [] d = "held" -> {"follow", "junction", "stopping"}
    [] OTHER -> {d}

(* The end of an obstacle starts it too, even in the middle of a turn.       *)
Resumed(d) == Started(d) \cup IF d = "follow" THEN {"junction", "stopping"} ELSE {}

(* A direction counts at a junction; a held vehicle keeps it for later.      *)
Directed(d, dir) ==
  CASE d \in {"junction", "stopping"} -> {IF dir = "ARRIVED" THEN "stopping" ELSE "follow"}
    [] d = "follow" /\ dir = "ARRIVED" -> {"follow", "stopping"}
    [] OTHER -> {d}

(* Where a pause leaves it: within a turn the junction is not done with.     *)
Paused(d) ==
  CASE d = "follow" -> {"idle", "held"}
    [] d \in {"junction", "stopping"} -> {"held"}
    [] OTHER -> {d}

Obeyed(d, cmd) ==
  CASE cmd.kind = "ORIENT" -> Directed(d, cmd.arg)
    [] cmd.kind = "ACTION" /\ cmd.arg = "PAUSE" -> Paused(d)
    [] cmd.kind = "ACTION" /\ cmd.arg = "UTURN" -> {"follow"}
    [] cmd.kind = "ACTION" /\ cmd.arg = "PROCESS" -> Started(d)
    [] cmd.kind = "CAPTURE" -> IF d = "follow" THEN {"follow", "idle"} ELSE {d}
    [] OTHER -> {d}
=============================================================================

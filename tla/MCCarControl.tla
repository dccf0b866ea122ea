---------------------------- MODULE MCCarControl -----------------------------
(* Commands of the instances of CarControl.                                 *)
EXTENDS CarControl

Act(a) == [kind |-> "ACTION", arg |-> a]
Dir(d) == [kind |-> "ORIENT", arg |-> d]
Count == [kind |-> "CNT", arg |-> "none"]
Photo == [kind |-> "CAPTURE", arg |-> "none"]

DriveCommands == {Act("PAUSE"), Act("PROCESS"), Act("UTURN"), Dir("STRAIGHT"),
                  Dir("LEFT"), Dir("ARRIVED"), Count}
PhotoCommands == {Act("PROCESS"), Dir("LEFT"), Photo}
=============================================================================

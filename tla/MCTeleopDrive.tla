--------------------------- MODULE MCTeleopDrive ---------------------------
(* TeleopDrive for TLC: one controller, one driving speed.  The hold and    *)
(* the time-out of a controller's report (0.3 s and 0.5 s) become one tick, *)
(* the time-out of a status and the command window (0.5 s and 1 s) two.     *)
EXTENDS TeleopDrive

MCCommands == {0, 2}
NoAngles == {0}
Rest == [deadman |-> FALSE, assist |-> FALSE, estop |-> FALSE, recenter |-> FALSE,
         driving |-> FALSE, aiming |-> FALSE, speed |-> 0, angle |-> 0]
Drive == [Rest EXCEPT !.deadman = TRUE, !.driving = TRUE, !.speed = 2]
MCReports == {Rest, Drive, [Rest EXCEPT !.estop = TRUE]}

Bound == [deadman |-> TRUE, assist |-> TRUE, estop |-> TRUE, recenter |-> TRUE,
          period |-> 1]
Unbound == [Bound EXCEPT !.deadman = FALSE]
EitherMapping == {Bound, Unbound}
OnlyBound == {Bound}
JoyStatuses == [drive : BOOLEAN, camera : BOOLEAN, estop : BOOLEAN,
                timeout : {StatusTimeout}]
=============================================================================

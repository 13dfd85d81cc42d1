--------------------------- MODULE MCDrivePlant ----------------------------
(* DrivePlant for TLC.  Deadzone 2 leaves room for a nonzero speed inside   *)
(* the deadzone, the two speeds above BrakeSpeed make braking and clamping  *)
(* happen, and 6 is a command beyond MaxSpeed.                              *)
EXTENDS DrivePlant

MCCommands == {-4, -3, -1, 0, 2, 3, 6, NaN}
=============================================================================

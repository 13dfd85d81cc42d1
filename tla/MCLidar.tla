------------------------------ MODULE MCLidar ------------------------------
(* The two levels of the lidar for TLC: the bytes of a scan (ScanStream), and *)
(* the calls, answers and threads above them (LidarNode), for the lidar of    *)
(* the car, one with a PWM motor, and one on a network that sets its own      *)
(* speed.  They have no variable in common: in a behaviour one of them moves. *)
EXTENDS ScanStream, LidarNode

VARIABLE level

C1 == [motor |-> "none", board |-> TRUE,  conf |-> TRUE,  mac |-> FALSE]
A2 == [motor |-> "pwm",  board |-> TRUE,  conf |-> FALSE, mac |-> FALSE]
S2 == [motor |-> "rpm",  board |-> FALSE, conf |-> TRUE,  mac |-> TRUE]
MCModels == {C1, A2, S2}
MCScanModes == {[plain |-> FALSE, named |-> TRUE], [plain |-> TRUE, named |-> FALSE]}

\* The level that does not move is where it begins.
LevelsInit ==
  /\ Init /\ LidarInit
  /\ level \in {"bytes", "calls"}
  /\ level = "bytes" => model = C1 /\ mode = [plain |-> FALSE, named |-> TRUE] /\ ~standby
  /\ level = "calls" => kind = "normal"

LevelsNext ==
  \/ level = "bytes" /\ Next      /\ UNCHANGED <<level, lidarVars>>
  \/ level = "calls" /\ LidarNext /\ UNCHANGED <<level, vars>>

LevelsSpec == LevelsInit /\ [][LevelsNext]_<<level, vars, lidarVars>>
=============================================================================

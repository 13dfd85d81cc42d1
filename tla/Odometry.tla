------------------------------- MODULE Odometry -------------------------------
(***************************************************************************)
(* The laser odometry: scan_filter_node.cpp hands scans on, and            *)
(* laser_odom_node.cpp adds up how far each is from the one before it; the *)
(* EKF (external) takes over the positions it publishes.  The web server's *)
(* reset_odom calls both to start again at zero after a teleport.          *)
(*                                                                         *)
(* The car drives on a line; a scan is where it was taken, and the way the *)
(* car had driven by then.  The queues keep the last scan.  A service call *)
(* has a time-out: the caller goes on, and the request is served all the   *)
(* same.                                                                   *)
(***************************************************************************)
EXTENDS Integers, Sequences

CONSTANTS
  Places,       \* where the car can be
  Reach,        \* how far a match can see (max_correspondence_dist)
  MaxJourneys,  \* moves, teleports, resets, lost features and respawns
  Depth,        \* the queue of /odom/laser
  NoScan

ASSUME OdometryAssumption ==
  /\ Places \subseteq Int /\ 0 \in Places
  /\ {Reach, MaxJourneys, Depth} \subseteq Nat

VARIABLES
  car,       \* where it is, and the way it has driven
  raw,       \* /scan, in the filter's queue
  filtered,  \* /scan_filtered, in the odometry's queue
  lastScan,  \* prev_points_ and has_prev_scan_
  pose,      \* pose_
  odom,      \* /odom/laser, in the EKF's queue
  fused,     \* /odom: the EKF's position
  caller,    \* reset_odom: "idle", or whose answer it waits for
  asked,     \* the services with a request they have not served
  journeys,
  origin,    \* history: the way when the odometry began
  fair       \* history: since then no scan of before a teleport, no failed match

odometryVars == <<car, raw, filtered, lastScan, pose, odom, fused, caller, asked,
                  journeys, origin, fair>>

OdometryInit ==
  /\ car = [at |-> 0, way |-> 0] /\ raw = NoScan /\ filtered = NoScan
  /\ lastScan = NoScan /\ pose = 0
  /\ odom = <<>> /\ fused = 0
  /\ caller = "idle" /\ asked = {}
  /\ journeys = 0 /\ origin = 0 /\ fair = TRUE

-----------------------------------------------------------------------------
(* The car, and the scans it takes.                                        *)

Distance(a, b) == IF a < b THEN b - a ELSE a - b
Journey == journeys < MaxJourneys /\ journeys' = journeys + 1

\* The scans on their way were taken after the last teleport.
Fresh(scans) == \A s \in scans \ {NoScan} : s.at - s.way = car.at - car.way

CarMoves ==
  /\ Journey
  /\ \E d \in {-1, 1} :
       /\ car.at + d \in Places
       /\ car' = [at |-> car.at + d, way |-> car.way + d]
  /\ UNCHANGED <<raw, filtered, lastScan, pose, odom, fused, caller, asked, origin, fair>>

\* Nothing that is still of the old place is comparable with the new one.
CarIsTeleported ==
  /\ Journey
  /\ \E p \in Places \ {car.at} : car' = [car EXCEPT !.at = p]
  /\ fair' = (lastScan = NoScan /\ raw = NoScan /\ filtered = NoScan)
  /\ UNCHANGED <<raw, filtered, lastScan, pose, odom, fused, caller, asked, origin>>

ScanIsTaken ==
  /\ raw' = car
  /\ UNCHANGED <<car, filtered, lastScan, pose, odom, fused, caller, asked, journeys,
                 origin, fair>>

\* scan_callback: invalid ranges become zero, which scan_to_points leaves out.
ScanIsFiltered ==
  /\ raw # NoScan
  /\ filtered' = raw /\ raw' = NoScan
  /\ UNCHANGED <<car, lastScan, pose, odom, fused, caller, asked, journeys, origin, fair>>

-----------------------------------------------------------------------------
(* laser_odom_node.                                                        *)

\* ScanMatcher::match: what is out of reach has too few correspondences, for which the
\* motion is zero, or is matched with something else.
Matched(from, to) ==
  IF Distance(from, to) <= Reach THEN {to - from} ELSE -Reach .. Reach

\* Mutant: nothing is published for a car that stands.
PublishesMotion(p) == IF p = pose \/ Len(odom) = Depth THEN odom ELSE Append(odom, p)
\* The queue drops its oldest.
Publishes(p) == Append(IF Len(odom) = Depth THEN Tail(odom) ELSE odom, p)

\* on_scan, of a scan with too few points: nothing.
ScanIsPoor ==
  /\ filtered # NoScan /\ filtered' = NoScan
  /\ UNCHANGED <<car, raw, lastScan, pose, odom, fused, caller, asked, journeys, origin, fair>>

FirstScan ==
  /\ filtered # NoScan /\ lastScan = NoScan
  /\ lastScan' = filtered /\ filtered' = NoScan
  /\ origin' = filtered.way
  /\ UNCHANGED <<car, raw, pose, odom, fused, caller, asked, journeys, fair>>

\* The scan is the next reference, whatever came of the match.
NextScan ==
  /\ filtered # NoScan /\ lastScan # NoScan
  /\ \E d \in Matched(lastScan.at, filtered.at) :
       /\ pose' = pose + d
       /\ odom' = Publishes(pose + d)
       /\ fair' = (fair /\ d = filtered.at - lastScan.at)
  /\ lastScan' = filtered /\ filtered' = NoScan
  /\ UNCHANGED <<car, raw, fused, caller, asked, journeys, origin>>

\* Mutant: the reference scan is kept.
StartAgainHere == pose' = 0 /\ lastScan' = lastScan
StartAgain == pose' = 0 /\ lastScan' = NoScan

\* ~/reset.  It is fair again if no scan of before a teleport is still on its way.
LaserResets ==
  /\ "laser" \in asked /\ asked' = asked \ {"laser"}
  /\ StartAgain
  /\ origin' = car.way
  /\ fair' = Fresh({raw, filtered})
  /\ UNCHANGED <<car, raw, filtered, odom, fused, caller, journeys>>

\* The launch file or the watchdog starts the process again.
LaserRespawns ==
  /\ Journey
  /\ pose' = 0 /\ lastScan' = NoScan /\ filtered' = NoScan
  /\ asked' = asked \ {"laser"}
  /\ origin' = car.way /\ fair' = Fresh({raw})
  /\ UNCHANGED <<car, raw, odom, fused, caller>>

-----------------------------------------------------------------------------
(* The EKF, and reset_odom.                                                *)

EkfMeasures ==
  /\ odom # <<>>
  /\ fused' = Head(odom) /\ odom' = Tail(odom)
  /\ UNCHANGED <<car, raw, filtered, lastScan, pose, caller, asked, journeys, origin, fair>>

EkfIsSet ==
  /\ "ekf" \in asked /\ asked' = asked \ {"ekf"}
  /\ fused' = 0
  /\ UNCHANGED <<car, raw, filtered, lastScan, pose, odom, caller, journeys, origin, fair>>

ResetBegins ==
  /\ caller = "idle" /\ Journey
  /\ caller' = "laser" /\ asked' = asked \cup {"laser"}
  /\ UNCHANGED <<car, raw, filtered, lastScan, pose, odom, fused, origin, fair>>

\* Answered or not, the EKF is next; then the caller is.
ResetGoesOn ==
  /\ caller = "laser"
  /\ caller' = "ekf" /\ asked' = asked \cup {"ekf"}
  /\ UNCHANGED <<car, raw, filtered, lastScan, pose, odom, fused, journeys, origin, fair>>

ResetAnswers ==
  /\ caller = "ekf" /\ caller' = "idle"
  /\ UNCHANGED <<car, raw, filtered, lastScan, pose, odom, fused, asked, journeys, origin,
                 fair>>

OdometryNext ==
  \/ CarMoves \/ CarIsTeleported
  \/ ScanIsTaken \/ ScanIsFiltered
  \/ ScanIsPoor \/ FirstScan \/ NextScan \/ LaserResets \/ LaserRespawns
  \/ EkfMeasures \/ EkfIsSet
  \/ ResetBegins \/ ResetGoesOn \/ ResetAnswers

OdometrySpec == OdometryInit /\ [][OdometryNext]_odometryVars

-----------------------------------------------------------------------------
(* The odometry is the way the car has driven since it began, by the last  *)
(* scan it has: whichever scans were dropped on the way and whenever the   *)
(* reset came, unless a match failed or a scan of before a teleport was    *)
(* still on its way when the odometry began (on_scan, ~/reset).            *)
OdometryIsTravel == fair /\ lastScan # NoScan => pose = lastScan.way - origin

(* A set_pose that the EKF serves late, or a respawn, does not leave the   *)
(* two odometries apart: once the car has come to rest, they agree for     *)
(* good (on_scan publishes every scan, reset_odom).                        *)
FusedComesBack == <>[](fused = pose)

=============================================================================

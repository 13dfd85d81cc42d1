------------------------------ MODULE ScanShape ------------------------------
(***************************************************************************)
(* The way of a turn of the lidar to a LaserScan: ascendScanData_ of the   *)
(* driver gives the nodes without a measurement an angle and sorts, the    *)
(* work loop of the node puts the measurements into bins of equal width    *)
(* (angle compensation, which the car's launch file asks for), and         *)
(* publish_scan turns the lidar's clockwise angles into those of the       *)
(* message, for a lidar that is mounted either way up and round.           *)
(*                                                                         *)
(* A circle has Degrees degrees of Units angles each.                      *)
(***************************************************************************)
EXTENDS Integers, Sequences

CONSTANTS
  Degrees, Units,
  Angles,      \* at which the lidar measures
  MaxCount,    \* nodes in a turn
  Multiples    \* angle_compensate_multiple: bins in a degree

Circle == Degrees * Units

ASSUME ScanShapeAssumption ==
  /\ Degrees \in Nat \ {0, 1} /\ Units \in Nat \ {0} /\ Degrees % 2 = 0
  /\ Angles \subseteq 0 .. Circle - 1
  /\ MaxCount \in Nat \ {0} /\ \A n \in 1 .. MaxCount : Circle % n = 0
  /\ Multiples \subseteq Nat \ {0}

VARIABLES
  mounted,   \* inverted, flip_x_axis, and the multiple of the scan mode
  sweep,      \* the nodes as they were measured: angle and distance, 0 for none
  nodes,     \* the nodes in the buffer
  stage,     \* "waiting", "grabbed", "ascended", "failed" or "published"
  ranges     \* of the LaserScan

shapeVars == <<mounted, sweep, nodes, stage, ranges>>

Infinity == -1

\* Every measurement has a distance of its own.
Turns ==
  UNION {{t \in [1 .. n -> [angle : Angles, dist : 0 .. n]] :
            \A i \in 1 .. n : t[i].dist \in {0, i}} : n \in 1 .. MaxCount}

Mounts == [inverted : BOOLEAN, flip_x_axis : BOOLEAN, multiple : Multiples]

ShapeInit ==
  /\ mounted \in Mounts
  /\ stage = "waiting" /\ sweep = <<>> /\ nodes = <<>> /\ ranges = <<>>

Grabs ==
  /\ stage = "waiting" /\ stage' = "grabbed"
  /\ sweep' \in Turns /\ nodes' = sweep'
  /\ UNCHANGED <<mounted, ranges>>

-----------------------------------------------------------------------------
(* ascendScanData_                                                         *)

Measured(s) == {i \in DOMAIN s : s[i].dist # 0}
First(S) == CHOOSE i \in S : \A j \in S : i <= j

Step == Circle \div Len(nodes)

\* Tune head, as far as it is not overwritten: the angle of the first node.
FrontAngle ==
  LET first == First(Measured(nodes))
      back == nodes[first].angle - (first - 1) * Step IN
  IF back < 0 THEN 0 ELSE back

\* Fill: angles beyond the circle go round, but a whole circle stays one.
FilledAngle(i) ==
  LET a == FrontAngle + (i - 1) * Step IN IF a > Circle THEN a - Circle ELSE a

Filled == [i \in DOMAIN nodes |-> IF nodes[i].dist # 0 THEN nodes[i]
                                  ELSE [nodes[i] EXCEPT !.angle = FilledAngle(i)]]

Orders == {p \in [DOMAIN nodes -> DOMAIN nodes] : \A i, j \in DOMAIN nodes : p[i] = p[j] => i = j}
Ascending(s) == \A i, j \in DOMAIN s : i < j => s[i].angle <= s[j].angle

Ascends ==
  /\ stage = "grabbed"
  /\ IF Measured(nodes) = {} THEN stage' = "failed" /\ UNCHANGED nodes
     ELSE /\ stage' = "ascended"
          /\ nodes' \in {s \in {[i \in DOMAIN nodes |-> Filled[p[i]]] : p \in Orders} : Ascending(s)}
  /\ UNCHANGED <<mounted, sweep, ranges>>

-----------------------------------------------------------------------------
(* Angle compensation: a measurement fills the bins of a degree from its   *)
(* own on, and those of the ones before it.                                *)

Bins == Degrees * mounted.multiple
BinOf(node) == (node.angle * mounted.multiple) \div Units

\* Bins and indices of the message count from 0, as in the code.
FilledBins(node) ==
  {IF b < Bins THEN b ELSE Bins - 1 : b \in BinOf(node) .. BinOf(node) + mounted.multiple - 1}

Compensated == [b \in 0 .. Bins - 1 |->
  LET in == {i \in Measured(nodes) : b \in FilledBins(nodes[i])} IN
  IF in = {} THEN 0 ELSE nodes[CHOOSE i \in in : \A j \in in : j <= i].dist]

(* publish_scan, of n distances over the whole circle: then the message    *)
(* runs against the lidar's sense.                                         *)

\* Mutant: the first half of the indices stays.
IndexHalfFlipped(b, n) ==
  LET r == IF ~mounted.inverted THEN n - 1 - b ELSE b IN
  IF mounted.flip_x_axis /\ r >= n \div 2 THEN r - n \div 2 ELSE r
Index(b, n) ==
  LET r == IF ~mounted.inverted THEN n - 1 - b ELSE b IN
  IF ~mounted.flip_x_axis THEN r
  ELSE IF r >= n \div 2 THEN r - n \div 2 ELSE r + n \div 2

\* What is not written stays 0.
Message(dist, n) == [k \in 0 .. n - 1 |->
  LET to == {b \in 0 .. n - 1 : Index(b, n) = k} IN
  IF to = {} THEN 0
  ELSE LET d == dist[CHOOSE b \in to : \A c \in to : c <= b] IN
       IF d = 0 THEN Infinity ELSE d]

PublishesScan ==
  /\ stage \in {"ascended", "failed"} /\ stage' = "published"
  /\ ranges' = IF stage = "ascended" THEN Message(Compensated, Bins)
               ELSE Message([i \in 0 .. Len(nodes) - 1 |-> nodes[i + 1].dist], Len(nodes))
  /\ UNCHANGED <<mounted, sweep, nodes>>

\* Nothing of a turn is kept.
NextTurn ==
  /\ stage = "published" /\ stage' = "waiting"
  /\ sweep' = <<>> /\ nodes' = <<>> /\ ranges' = <<>>
  /\ UNCHANGED mounted

ShapeNext == Grabs \/ Ascends \/ PublishesScan \/ NextTurn

ShapeSpec == ShapeInit /\ [][ShapeNext]_shapeVars

-----------------------------------------------------------------------------
\* A direction is an angle times this, so that the increment of the message is whole.
Fine == Bins - 1
WholeCircle == Circle * Fine

\* angle_min + k * angle_increment, from 180 - 359 to 180 degrees.
Shown(k) == (Circle \div 2) * Fine - (Degrees - 1) * Units * Fine + k * (Degrees - 1) * Units

\* Where the lidar measured it: clockwise, from behind, unless it hangs or looks forward.
Room(angle) ==
  LET d == ((Circle \div 2) - angle) * Fine
      up == IF mounted.inverted THEN -d ELSE d IN
  IF mounted.flip_x_axis THEN up + (Circle \div 2) * Fine ELSE up

Near(a, b) == LET d == (a - b) % WholeCircle IN
              (IF d > WholeCircle - d THEN WholeCircle - d ELSE d) <= 2 * Units * Fine

(* The message shows the room: every distance is one of the turn's, within *)
(* two degrees of where it was measured, however the lidar is mounted,     *)
(* every measurement has a distance within two degrees of it, and a turn   *)
(* without one shows nothing (ascendScanData_, angle compensation,         *)
(* publish_scan).                                                          *)
ScanShowsTheRoom ==
  stage = "published" =>
    LET shown == {k \in DOMAIN ranges : ranges[k] > 0} IN
    /\ \A k \in shown : \E i \in Measured(sweep) :
         ranges[k] = sweep[i].dist /\ Near(Shown(k), Room(sweep[i].angle))
    /\ \A i \in Measured(sweep) : \E k \in shown : Near(Shown(k), Room(sweep[i].angle))
=============================================================================

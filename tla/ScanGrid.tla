------------------------------- MODULE ScanGrid -------------------------------
(***************************************************************************)
(* The search for the point of the last scan that is nearest to a point of *)
(* this one (ScanMatcher::GridIndex in scan_matcher.hpp): the points are   *)
(* put into square cells as wide as the search radius, and only the cells  *)
(* around the query's are looked at.                                       *)
(*                                                                         *)
(* Coordinates are integers, in units of a fraction of a cell; a cell      *)
(* number is a quotient that is cut off towards zero, as the conversion to *)
(* int does.                                                               *)
(***************************************************************************)
EXTENDS Integers, Sequences, FiniteSets

CONSTANTS
  Coordinates,      \* of the points of the last scan
  QueryCoordinates,
  MaxPoints,
  CellSize          \* max_correspondence_dist

ASSUME GridAssumption ==
  /\ Coordinates \subseteq Int /\ QueryCoordinates \subseteq Int /\ QueryCoordinates # {}
  /\ MaxPoints \in Nat /\ CellSize \in Nat \ {0}

VARIABLES
  points,   \* the last scan
  query     \* a point of this one

gridVars == <<points, query>>

Point(coordinates) == [x : coordinates, y : coordinates]
Scans == UNION {[1 .. n -> Point(Coordinates)] : n \in 1 .. MaxPoints}

GridInit == points \in Scans /\ query \in Point({CHOOSE c \in QueryCoordinates : TRUE})

-----------------------------------------------------------------------------
Least(S) == CHOOSE a \in S : \A b \in S : a <= b
Most(S)  == CHOOSE a \in S : \A b \in S : a >= b

All(axis) == {points[i][axis] : i \in DOMAIN points}

\* GridIndex: there is a cell to spare before the first point, and one after the last.
Origin(axis) == Least(All(axis)) - CellSize
Cell(v, axis) ==
  LET d == v - Origin(axis) IN
  IF d >= 0 THEN d \div CellSize ELSE -((-d) \div CellSize)
Cells(axis) == Cell(Most(All(axis)), axis) + 2

\* Mutant: the cells before the query's are not searched.
SearchedAfter(axis) ==
  {c \in Cell(query[axis], axis) .. Cell(query[axis], axis) + 1 : c >= 0 /\ c < Cells(axis)}
Searched(axis) ==
  {c \in Cell(query[axis], axis) - 1 .. Cell(query[axis], axis) + 1 :
     c >= 0 /\ c < Cells(axis)}

Distance2(p) == (query.x - p.x) * (query.x - p.x) + (query.y - p.y) * (query.y - p.y)
InReach(i) == Distance2(points[i]) < CellSize * CellSize

\* find_nearest; 0 if there is none.
Found ==
  LET near == {i \in DOMAIN points :
                 /\ Cell(points[i].x, "x") \in Searched("x")
                 /\ Cell(points[i].y, "y") \in Searched("y")
                 /\ InReach(i)} IN
  IF near = {} THEN 0
  ELSE CHOOSE i \in near : \A j \in near : Distance2(points[i]) <= Distance2(points[j])

GridNext == query' \in Point(QueryCoordinates) /\ UNCHANGED points

GridSpec == GridInit /\ [][GridNext]_gridVars

-----------------------------------------------------------------------------
(* The search finds a nearest point whenever one is within its radius,     *)
(* and none otherwise, wherever the query lies: left of or below all cells *)
(* as well (find_nearest).                                                 *)
GridFindsNearest ==
  IF \E i \in DOMAIN points : InReach(i)
  THEN Found # 0 /\ \A i \in DOMAIN points : Distance2(points[Found]) <= Distance2(points[i])
  ELSE Found = 0
=============================================================================

---------------------------- MODULE Lidar_proofs ----------------------------
(***************************************************************************)
(* The lidar.                                                              *)
(*   - The driver's questions and answers, for every lidar and scan mode   *)
(*     and any number of frames lost and answers late.                     *)
(*   - The bytes of a scan, for every format and number of starts: what    *)
(*     is published is of the scan under way, and in the order sent, and   *)
(*     without noise it is one revolution.                                 *)
(*   - The scan matcher's grid, for any points: a search finds the nearest.*)
(***************************************************************************)
EXTENDS ScanStream, LidarNode, ScanGrid, WellFoundedInduction, SequenceTheorems, TLAPS

\* Questions and answers

LinkTypes ==
  /\ {"at", "todo", "ok"} \subseteq DOMAIN app
  /\ DOMAIN dec = {"at", "frame"}
  /\ {"waiting", "event", "answer", "enabled", "support"} \subseteq DOMAIN driver

\* While a question is open that was not put behind the back of a match, the decoder has
\* matched only what answers it, and so does an answer that is there.
MatchedForThis ==
  app.at = "wait" /\ ~raced =>
    /\ dec.at = "matched" => dec.frame = driver.waiting
    /\ driver.event => driver.answer = driver.waiting

AnswerInv == LinkTypes /\ MatchedForThis

\* Before anything is sent nothing is matched.
LEMMA AnswerInvInit == LidarInit => AnswerInv
  BY DEF LidarInit, LinkInit, Idle, AnswerInv, LinkTypes, MatchedForThis

\* A step that is over leaves the call between two steps.
LEMMA DoneIsBetween ==
  ASSUME LinkTypes, NEW ok \in BOOLEAN, Done(ok)
  PROVE  app'.at = "step" /\ {"at", "todo", "ok"} \subseteq DOMAIN app'
<1>1. CASE ok
  BY <1>1 DEF LinkTypes, Done
<1>2. CASE ~ok /\ Doing.fatal
  BY <1>2 DEF LinkTypes, Done
<1>3. CASE ~ok /\ ~Doing.fatal
  BY <1>3 DEF LinkTypes, Done
<1> QED BY <1>1, <1>2, <1>3

\* A step of the threads of the transceiver, or of the wire.
LEMMA AnswerInvDecoder ==
  ASSUME AnswerInv, Rx \/ Dec \/ Wire PROVE AnswerInv'
<1> USE DEF AnswerInv, LinkTypes, MatchedForThis, Idle
<1>1. CASE Rx \/ Wire
  BY <1>1 DEF Rx, RxTake, RxEnds, Wire, DeviceSamples, FrameLost, Unplugged
<1>2. CASE DecDecode
  BY <1>2 DEF DecDecode, Decoded
<1>3. CASE DecHandle
  BY <1>3 DEF DecHandle
<1>4. CASE DecAnswer
  BY <1>4 DEF DecAnswer
<1>5. CASE DecEnds
  BY <1>5 DEF DecEnds
<1> QED BY <1>1, <1>2, <1>3, <1>4, <1>5 DEF Dec

\* A step of a call of the driver.
LEMMA AnswerInvCall ==
  ASSUME AnswerInv, Call PROVE AnswerInv'
<1> USE DEF AnswerInv, LinkTypes, MatchedForThis
<1>1. CASE AskLock
  BY <1>1 DEF AskLock
<1>2. CASE AskSend
  <2>1. /\ DOMAIN driver' = DOMAIN driver /\ driver'.event = FALSE
        /\ raced' = (dec.at = "matched") /\ dec' = dec
    BY <1>2 DEF AskSend
  <2>2. {"at", "todo", "ok"} \subseteq DOMAIN app'
    BY <1>2, DoneIsBetween DEF AskSend
  <2> QED BY <2>1, <2>2
<1>3. CASE AskTimesOut \/ AskTake \/ Tell \/ TellDTR \/ Enable
  <2>1. app'.at = "step" /\ {"at", "todo", "ok"} \subseteq DOMAIN app'
    BY <1>3, DoneIsBetween DEF AskTimesOut, AskTake, Tell, TellDTR, Enable, Writable
  <2>2. DOMAIN driver' = DOMAIN driver /\ dec' = dec
    BY <1>3 DEF AskTimesOut, AskTake, Tell, TellDTR, Enable
  <2> QED BY <2>1, <2>2
<1>4. CASE Connect
  <2>1. app'.at = "step" /\ {"at", "todo", "ok"} \subseteq DOMAIN app'
    BY <1>4, DoneIsBetween DEF Connect
  <2>2. DOMAIN driver' = DOMAIN driver /\ DOMAIN dec' = {"at", "frame"}
    BY <1>4 DEF Connect, Idle
  <2> QED BY <2>1, <2>2
<1>5. CASE Unbind
  BY <1>5 DEF Unbind
<1>6. CASE Join
  <2>1. app'.at = "step" /\ {"at", "todo", "ok"} \subseteq DOMAIN app'
    BY <1>6, DoneIsBetween DEF Join
  <2>2. DOMAIN driver' = DOMAIN driver /\ dec' = dec
    BY <1>6 DEF Join
  <2> QED BY <2>1, <2>2
<1> QED BY <1>1, <1>2, <1>3, <1>4, <1>5, <1>6 DEF Call

\* What the node does between two steps of a call.
LEMMA AnswerInvNode ==
  ASSUME AnswerInv, StartUp \/ StartStop \/ WorkLoop \/ Services \/ Interrupted
                      \/ ListenersChange
  PROVE  AnswerInv'
<1> DEFINE Quiet == /\ UNCHANGED <<dec, driver, raced>>
                    /\ app'.at = "step" \/ app'.at = "out" \/ app' = app
                    /\ {"at", "todo", "ok"} \subseteq DOMAIN app'
<1> USE DEF AnswerInv, LinkTypes
<1>1. ASSUME StartUp PROVE Quiet
  <2>1. CASE Connects \/ AsksInfo \/ AsksHealth \/ AsksModel
    BY <2>1 DEF Connects, AsksInfo, AsksHealth, AsksModel, Calls
  <2>2. CASE SpinsUp
    <3>1. PICK script : Calls(script)
      BY <2>2 DEF SpinsUp
    <3> QED BY <3>1 DEF Calls
  <2>3. CASE FirstStart
    BY <2>3 DEF FirstStart, Calls, StartScript
  <2>4. CASE Checked
    BY <2>4 DEF Checked, Returns
  <2> QED BY <1>1, <2>1, <2>2, <2>3, <2>4 DEF StartUp
<1>2. ASSUME StartStop PROVE Quiet
  BY <1>2 DEF StartStop, Started, StartFailed, Stopped, Calls, Returns, StopScript
<1>3. ASSUME WorkLoop PROVE Quiet
  <2>1. CASE StandbyStarts \/ StandbyStops \/ Leaves \/ Deletes
    BY <2>1 DEF StandbyStarts, StandbyStops, Leaves, Deletes, Calls, StartScript, StopScript
  <2>2. CASE Loops \/ GrabsFirst \/ Publishes \/ GrabTimesOut \/ Spins
    BY <2>2 DEF Loops, GrabsFirst, Publishes, GrabTimesOut, Spins, linkVars
  <2> QED BY <1>3, <2>1, <2>2 DEF WorkLoop
<1>4. ASSUME Services \/ Interrupted \/ ListenersChange PROVE Quiet
  BY <1>4
  DEF Services, StopMotor, StartMotor, Interrupted, ListenersChange, Calls, StartScript,
      StopScript, linkVars
<1>5. Quiet
  BY <1>1, <1>2, <1>3, <1>4
<1> QED BY <1>5 DEF MatchedForThis

\* The invariant is inductive.
LEMMA AnswerInvNext ==
  ASSUME AnswerInv, [LidarNext]_lidarVars PROVE AnswerInv'
<1>1. CASE UNCHANGED lidarVars
  BY <1>1 DEF lidarVars, linkVars, AnswerInv, LinkTypes, MatchedForThis
<1>2. CASE LinkNext
  BY <1>2, AnswerInvDecoder, AnswerInvCall DEF LinkNext
<1>3. CASE StartUp \/ StartStop \/ WorkLoop \/ Services \/ Interrupted \/ ListenersChange
  BY <1>3, AnswerInvNode
<1> QED BY <1>1, <1>2, <1>3 DEF LidarNext, Gone

\* Whatever was lost or came late, an answer is taken for what was asked, unless the
\* decoder was in between matching and answering when the question was put
\* (_sendCommandWithResponse, onProtocolMessageDecoded).
THEOREM AnswersAlwaysMatch == LidarSpec => []AnswersMatch
<1>1. AnswerInv => AnswersMatch
  BY DEF AnswerInv, MatchedForThis, AnswersMatch
<1> QED BY <1>1, AnswerInvInit, AnswerInvNext, PTL DEF LidarSpec

-----------------------------------------------------------------------------
\* The grid

(* A set of numbers that is not empty has a least one: what an induction   *)
(* over the length of a list rests on here.                                *)
LEMMA LeastNatural ==
  ASSUME NEW T \in SUBSET Nat, T # {}
  PROVE  \E x \in T : \A y \in T : x <= y
<1>1. PICK x \in T : \A y \in T : ~(<<y, x>> \in OpToRel(<, Nat))
  BY NatLessThanWellFounded, WFMin
<1>2. \A y \in T : ~(y < x)
  BY <1>1 DEF OpToRel
<1> QED BY <1>2

(* A sequence of integers has a least one: otherwise there would be a      *)
(* shortest prefix without one.                                            *)
LEMMA LeastOfList ==
  ASSUME NEW n \in Nat \ {0}, NEW f \in [1 .. n -> Int]
  PROVE  \E i \in 1 .. n : \A j \in 1 .. n : f[i] <= f[j]
<1> DEFINE LeastIn(m) == \E i \in 1 .. m : \A j \in 1 .. m : f[i] <= f[j]
           T == {m \in 1 .. n : ~LeastIn(m)}
<1>0. T \in SUBSET Nat /\ n \in 1 .. n
  OBVIOUS
<1> SUFFICES ASSUME n \in T PROVE FALSE
  BY <1>0
<1>1. PICK m \in T : \A k \in T : m <= k
  <2> HIDE DEF T
  <2> QED BY <1>0, LeastNatural
<1>2. m \in 1 .. n /\ ~LeastIn(m)
  BY <1>1
<1>3. m # 1
  <2>1. \A j \in 1 .. 1 : f[1] <= f[j]
    OBVIOUS
  <2> QED BY <1>2, <2>1
<1>4. m - 1 \in 1 .. n /\ LeastIn(m - 1)
  <2>1. m - 1 \in 1 .. n
    BY <1>2, <1>3
  <2>2. m - 1 \notin T
    <3> HIDE DEF T
    <3> QED BY <1>1, <1>2, <2>1
  <2> QED BY <2>1, <2>2
<1>5. PICK i \in 1 .. (m - 1) : \A j \in 1 .. (m - 1) : f[i] <= f[j]
  BY <1>4
<1> HIDE DEF T
<1>6. /\ i \in 1 .. m /\ m \in 1 .. m
      /\ \A j \in 1 .. m : j \in 1 .. (m - 1) \/ j = m
  BY <1>2, <1>4, <1>5
<1>7. \A j \in 1 .. m : f[j] \in Int
  BY <1>2
<1>8. CASE f[i] <= f[m]
  <2>1. \A j \in 1 .. m : f[i] <= f[j]
    BY <1>5, <1>6, <1>7, <1>8
  <2> QED BY <1>2, <1>6, <2>1
<1>9. CASE f[m] < f[i]
  <2>1. ASSUME NEW j \in 1 .. m PROVE f[m] <= f[j]
    <3>1. f[i] \in Int /\ f[j] \in Int /\ f[m] \in Int
      BY <1>6, <1>7
    <3>2. j = m \/ f[i] <= f[j]
      BY <1>5, <1>6
    <3> QED BY <1>9, <3>1, <3>2
  <2> QED BY <1>2, <1>6, <2>1
<1> QED BY <1>6, <1>7, <1>8, <1>9

\* A list has a largest element: a least one of its negation.
LEMMA MostOfList ==
  ASSUME NEW n \in Nat \ {0}, NEW f \in [1 .. n -> Int]
  PROVE  \E i \in 1 .. n : \A j \in 1 .. n : f[i] >= f[j]
<1> DEFINE g == [i \in 1 .. n |-> -f[i]]
<1>1. g \in [1 .. n -> Int]
  OBVIOUS
<1>2. PICK i \in 1 .. n : \A j \in 1 .. n : g[i] <= g[j]
  BY <1>1, LeastOfList
<1>3. \A j \in 1 .. n : f[j] \in Int /\ g[j] = -f[j]
  OBVIOUS
<1>4. \A j \in 1 .. n : f[i] >= f[j]
  BY <1>2, <1>3
<1> QED BY <1>4

\* A square is not negative.
LEMMA Square == ASSUME NEW a \in Int PROVE a * a \in Nat
<1>1. a * a >= 0
  <2>1. CASE a >= 0 BY <2>1
  <2>2. CASE a < 0 BY <2>2
  <2> QED BY <2>1, <2>2
<1> QED BY <1>1

(* A side of a right-angled triangle is shorter than what the other is.    *)
LEMMA SideIsShort ==
  ASSUME NEW a \in Int, NEW b \in Int, NEW c \in Nat, a * a + b * b < c * c
  PROVE  -c < a /\ a < c
<1>1. b * b >= 0
  BY Square
<1>2. a * a < c * c
  <2> DEFINE A == a * a B == b * b D == c * c
  <2>1. A \in Int /\ B \in Int /\ D \in Int /\ A + B < D /\ B >= 0
    BY <1>1
  <2> HIDE DEF A, B, D
  <2>2. A < D
    BY <2>1
  <2> QED BY <2>2 DEF A, D
<1>3. ~(a >= c)
  <2> SUFFICES ASSUME a >= c PROVE a * a >= c * c
    BY <1>2
  <2>1. a * a >= a * c /\ a * c >= c * c
    OBVIOUS
  <2> QED BY <2>1
<1>4. ~(-a >= c)
  <2> SUFFICES ASSUME -a >= c PROVE a * a >= c * c
    BY <1>2
  <2>1. (-a) * (-a) >= (-a) * c /\ (-a) * c >= c * c
    OBVIOUS
  <2>2. (-a) * (-a) = a * a
    OBVIOUS
  <2> QED BY <2>1, <2>2
<1> QED BY <1>3, <1>4

\* The quotient of a division by a cell.
LEMMA DivBounds ==
  ASSUME NEW d \in Nat, NEW c \in Nat \ {0}
  PROVE  /\ d \div c \in Nat
         /\ (d \div c) * c <= d /\ d < (d \div c) * c + c
OBVIOUS

\* Of two multiples the larger has the larger factor.
LEMMA Cancel ==
  ASSUME NEW a \in Int, NEW b \in Int, NEW c \in Nat \ {0}, a * c < b * c
  PROVE  a < b
<1>1. ~(a >= b)
  <2> SUFFICES ASSUME a >= b PROVE a * c >= b * c
    OBVIOUS
  <2> QED OBVIOUS
<1> QED BY <1>1

GridTypes == points \in Scans /\ query \in Point(Int)

(* The cells along an axis, from the bounds of the points there: that of a *)
(* point within reach is among those searched.                             *)
LEMMA CellIsSearched ==
  ASSUME GridAssumption, NEW axis \in {"x", "y"},
         query[axis] \in Int, All(axis) \subseteq Int,
         NEW lo \in All(axis), \A v \in All(axis) : lo <= v,
         NEW hi \in All(axis), \A v \in All(axis) : v <= hi,
         NEW v \in All(axis), -CellSize < query[axis] - v, query[axis] - v < CellSize
  PROVE  Cell(v, axis) \in Searched(axis)
<1> DEFINE low == Least(All(axis))
           high == Most(All(axis))
<1>1. low \in Int /\ low \in All(axis) /\ \A w \in All(axis) : low <= w
  BY DEF Least
<1>2. high \in Int /\ high \in All(axis) /\ \A w \in All(axis) : w <= high
  BY DEF Most
<1> DEFINE dp == v - (low - CellSize)
           dq == query[axis] - (low - CellSize)
           dm == high - (low - CellSize)
<1>3. CellSize \in Nat \ {0} /\ v \in Int
  BY DEF GridAssumption
<1>4. low <= v /\ v <= high
  BY <1>1, <1>2
<1> HIDE DEF low, high
<1>5. dp \in Nat /\ dq \in Nat /\ dm \in Nat /\ dp <= dm /\ dp < dq + CellSize /\ dq < dp + CellSize
  BY <1>1, <1>2, <1>3, <1>4
<1>6. /\ Cell(v, axis) = dp \div CellSize
      /\ Cell(query[axis], axis) = dq \div CellSize
      /\ Cell(high, axis) = dm \div CellSize
  BY <1>5 DEF Cell, Origin, low
<1> DEFINE a == dp \div CellSize
           b == dq \div CellSize
           m == dm \div CellSize
<1>7. /\ a \in Nat /\ b \in Nat /\ m \in Nat
      /\ a * CellSize <= dp /\ dp < a * CellSize + CellSize
      /\ b * CellSize <= dq /\ dq < b * CellSize + CellSize
      /\ m * CellSize <= dm /\ dm < m * CellSize + CellSize
  BY <1>3, <1>5, DivBounds
<1> HIDE DEF a, b, m, dp, dq, dm
<1>8. a < b + 2
  <2>1. a * CellSize < b * CellSize + CellSize + CellSize
    BY <1>3, <1>5, <1>7
  <2>2. (b + 2) * CellSize = b * CellSize + CellSize + CellSize
    BY <1>3, <1>7
  <2> QED BY <1>3, <1>7, <2>1, <2>2, Cancel
<1>9. b < a + 2
  <2>1. b * CellSize < a * CellSize + CellSize + CellSize
    BY <1>3, <1>5, <1>7
  <2>2. (a + 2) * CellSize = a * CellSize + CellSize + CellSize
    BY <1>3, <1>7
  <2> QED BY <1>3, <1>7, <2>1, <2>2, Cancel
<1>10. a < m + 1
  <2>1. a * CellSize < m * CellSize + CellSize
    BY <1>3, <1>5, <1>7
  <2>2. (m + 1) * CellSize = m * CellSize + CellSize
    BY <1>3, <1>7
  <2> QED BY <1>3, <1>7, <2>1, <2>2, Cancel
<1>11. Cells(axis) = m + 2
  BY <1>6 DEF Cells, m, high
<1>12. Cell(v, axis) = a /\ Cell(query[axis], axis) = b
  BY <1>6 DEF a, b
<1> QED BY <1>7, <1>8, <1>9, <1>10, <1>11, <1>12 DEF Searched

\* The squared distance of a query from a point.
LEMMA DistanceIsNatural ==
  ASSUME query \in Point(Int), NEW p \in Point(Int) PROVE Distance2(p) \in Nat
<1>1. query.x - p.x \in Int /\ query.y - p.y \in Int
  BY DEF Point
<1> DEFINE a == query.x - p.x  b == query.y - p.y
<1>2. a * a \in Nat /\ b * b \in Nat
  BY <1>1, Square
<1> HIDE DEF a, b
<1>3. a * a + b * b \in Nat
  BY <1>2
<1> QED BY <1>3 DEF Distance2, a, b

(* A point within the radius of the search is in a searched cell.          *)
LEMMA ReachIsSearched ==
  ASSUME GridAssumption, GridTypes, NEW i \in DOMAIN points, InReach(i)
  PROVE  Cell(points[i].x, "x") \in Searched("x") /\ Cell(points[i].y, "y") \in Searched("y")
<1>1. PICK n \in 1 .. MaxPoints : points \in [1 .. n -> Point(Coordinates)]
  BY DEF GridTypes, Scans
<1>2. n \in Nat \ {0} /\ CellSize \in Nat
  BY DEF GridAssumption
<1>3. \A j \in 1 .. n : points[j].x \in Int /\ points[j].y \in Int
  BY <1>1 DEF Point, GridAssumption
<1>4. points[i] \in Point(Int) /\ query.x \in Int /\ query.y \in Int
  BY <1>1, <1>3 DEF Point, GridTypes
<1>5. /\ -CellSize < query.x - points[i].x /\ query.x - points[i].x < CellSize
      /\ -CellSize < query.y - points[i].y /\ query.y - points[i].y < CellSize
  <2> DEFINE a == query.x - points[i].x  b == query.y - points[i].y
  <2>1. a \in Int /\ b \in Int /\ a * a + b * b < CellSize * CellSize
    BY <1>1, <1>3, <1>4 DEF InReach, Distance2
  <2>2. b * b + a * a < CellSize * CellSize
    <3>1. a * a \in Nat /\ b * b \in Nat
      BY <2>1, Square
    <3> HIDE DEF a, b
    <3> QED BY <2>1, <3>1
  <2> HIDE DEF a, b
  <2>3. -CellSize < a /\ a < CellSize /\ -CellSize < b /\ b < CellSize
    BY <1>2, <2>1, <2>2, SideIsShort
  <2> QED BY <2>3 DEF a, b
<1>6. ASSUME NEW axis \in {"x", "y"},
             NEW f \in [1 .. n -> Int], All(axis) = {f[j] : j \in 1 .. n},
             query[axis] \in Int, points[i][axis] \in All(axis),
             -CellSize < query[axis] - points[i][axis], query[axis] - points[i][axis] < CellSize
      PROVE  Cell(points[i][axis], axis) \in Searched(axis)
  <2>1. PICK k \in 1 .. n : \A j \in 1 .. n : f[k] <= f[j]
    BY <1>2, LeastOfList
  <2>2. PICK m \in 1 .. n : \A j \in 1 .. n : f[m] >= f[j]
    BY <1>2, MostOfList
  <2>3. /\ f[k] \in All(axis) /\ f[m] \in All(axis) /\ All(axis) \subseteq Int
        /\ \A v \in All(axis) : f[k] <= v /\ v <= f[m]
    BY <1>6, <2>1, <2>2
  <2> QED BY <1>6, <2>3, CellIsSearched
<1>7. DOMAIN points = 1 .. n
  BY <1>1
<1>8. Cell(points[i].x, "x") \in Searched("x")
  <2> DEFINE f == [j \in 1 .. n |-> points[j].x]
  <2>1. f \in [1 .. n -> Int] /\ All("x") = {f[j] : j \in 1 .. n} /\ points[i]["x"] \in All("x")
    BY <1>3, <1>7 DEF All
  <2> HIDE DEF f
  <2> QED BY <1>4, <1>5, <1>6, <2>1
<1>9. Cell(points[i].y, "y") \in Searched("y")
  <2> DEFINE f == [j \in 1 .. n |-> points[j].y]
  <2>1. f \in [1 .. n -> Int] /\ All("y") = {f[j] : j \in 1 .. n} /\ points[i]["y"] \in All("y")
    BY <1>3, <1>7 DEF All
  <2> HIDE DEF f
  <2> QED BY <1>4, <1>5, <1>6, <2>1
<1> QED BY <1>8, <1>9

\* The search of a grid as built from the points finds a nearest one.
LEMMA GridSearch == ASSUME GridAssumption, GridTypes PROVE GridFindsNearest
<1>1. PICK n \in 1 .. MaxPoints : points \in [1 .. n -> Point(Coordinates)]
  BY DEF GridTypes, Scans
<1>2. DOMAIN points = 1 .. n /\ \A i \in 1 .. n : points[i] \in Point(Int)
  BY <1>1 DEF Point, GridAssumption
<1>3. \A i \in 1 .. n : Distance2(points[i]) \in Nat
  BY <1>2, DistanceIsNatural DEF GridTypes
<1> DEFINE near == {i \in DOMAIN points :
                      /\ Cell(points[i].x, "x") \in Searched("x")
                      /\ Cell(points[i].y, "y") \in Searched("y")
                      /\ InReach(i)}
           nearest == CHOOSE i \in near : \A j \in near : Distance2(points[i]) <= Distance2(points[j])
<1>4. near = {i \in DOMAIN points : InReach(i)}
  BY ReachIsSearched
<1>5. Found = IF near = {} THEN 0 ELSE nearest
  BY DEF Found
<1>6. CASE near = {}
  BY <1>4, <1>5, <1>6 DEF GridFindsNearest
<1>7. CASE near # {}
  <2> DEFINE T == {Distance2(points[i]) : i \in near}
  <2>1. T \in SUBSET Nat /\ T # {}
    BY <1>2, <1>3, <1>7
  <2>2. PICK d \in T : \A e \in T : d <= e
    <3> HIDE DEF T
    <3> QED BY <2>1, LeastNatural
  <2>3. \E i \in near : \A j \in near : Distance2(points[i]) <= Distance2(points[j])
    BY <2>2
  <2> HIDE DEF near
  <2>4. nearest \in near /\ \A j \in near : Distance2(points[nearest]) <= Distance2(points[j])
    BY <2>3
  <2> HIDE DEF nearest, T
  <2>5. nearest \in 1 .. n /\ InReach(nearest)
    BY <1>2, <1>4, <2>4
  <2>6. ASSUME NEW j \in DOMAIN points
        PROVE  Distance2(points[nearest]) <= Distance2(points[j])
    <3>1. CASE j \in near
      BY <2>4, <3>1
    <3>2. CASE j \notin near
      <4>1. ~InReach(j) /\ j \in 1 .. n
        BY <1>2, <1>4, <3>2
      <4>2. CellSize * CellSize \in Nat
        BY DEF GridAssumption
      <4>3. /\ Distance2(points[nearest]) < CellSize * CellSize
            /\ ~(Distance2(points[j]) < CellSize * CellSize)
        BY <2>5, <4>1 DEF InReach
      <4> DEFINE C == CellSize * CellSize
      <4> HIDE DEF C
      <4> QED BY <1>3, <2>5, <4>1, <4>2, <4>3 DEF C
    <3> QED BY <3>1, <3>2
  <2>7. nearest # 0 /\ nearest \in DOMAIN points
    BY <1>2, <2>5
  <2> QED BY <1>5, <1>7, <2>5, <2>6, <2>7 DEF GridFindsNearest
<1> QED BY <1>6, <1>7

(* Whatever the scans and the query, with any width of a cell, the search  *)
(* finds a nearest point within its radius if there is one (find_nearest). *)
THEOREM GridAlwaysFindsNearest == GridSpec => []GridFindsNearest
<1>1. GridInit => GridTypes
  BY GridAssumption DEF GridInit, GridTypes, Point, GridAssumption
<1>2. GridTypes /\ [GridNext]_gridVars => GridTypes'
  BY GridAssumption DEF GridTypes, GridNext, gridVars, Point, GridAssumption, Scans
<1>3. GridTypes => GridFindsNearest
  BY GridAssumption, GridSearch
<1> QED BY <1>1, <1>2, <1>3, PTL DEF GridSpec

-----------------------------------------------------------------------------
\* The bytes of a scan

(* Induction up to n, over the set of the numbers for which it holds.      *)
LEMMA CountsUp ==
  ASSUME NEW n \in Nat, NEW I, 0 \in I, \A i \in 1 .. n : i - 1 \in I => i \in I
  PROVE  \A i \in 0 .. n : i \in I
<1> DEFINE T == {i \in 0 .. n : i \notin I}
<1>1. T \in SUBSET Nat
  OBVIOUS
<1> SUFFICES ASSUME T # {} PROVE FALSE
  OBVIOUS
<1>2. PICK i \in T : \A k \in T : i <= k
  <2> HIDE DEF T
  <2> QED BY <1>1, LeastNatural
<1>3. i \in 1 .. n /\ i \notin I /\ i - 1 \in 0 .. n /\ ~(i <= i - 1)
  BY <1>2
<1>4. i - 1 \notin T
  <2> HIDE DEF T
  <2> QED BY <1>2, <1>3
<1> QED BY <1>3, <1>4

\* What g computes from s in n steps of f.
StepByStep(g, n, s, f) == \A i \in 0 .. n : g[i] = IF i = 0 THEN s ELSE f[i][g[i - 1]]

(* What is computed step by step from a beginning exists.                  *)
LEMMA StepsExist ==
  ASSUME NEW S, NEW n \in Nat, NEW s \in S, NEW f \in [1 .. n -> [S -> S]]
  PROVE  \E g \in [0 .. n -> S] : StepByStep(g, n, s, f)
<1> DEFINE I == {m \in 0 .. n : \E g \in [0 .. m -> S] : StepByStep(g, m, s, f)}
<1>1. 0 \in I
  <2> DEFINE g == [i \in 0 .. 0 |-> s]
  <2>1. g \in [0 .. 0 -> S] /\ StepByStep(g, 0, s, f)
    BY DEF StepByStep
  <2> HIDE DEF g
  <2> QED BY <2>1
<1>2. ASSUME NEW m \in 1 .. n, m - 1 \in I PROVE m \in I
  <2>1. PICK e \in [0 .. (m - 1) -> S] : StepByStep(e, m - 1, s, f)
    BY <1>2
  <2> DEFINE g == [i \in 0 .. m |-> IF i = m THEN f[m][e[m - 1]] ELSE e[i]]
  <2>2. m - 1 \in 0 .. (m - 1) /\ f[m] \in [S -> S]
    BY <1>2
  <2>3. f[m][e[m - 1]] \in S
    BY <2>2
  <2>4. g \in [0 .. m -> S]
    BY <1>2, <2>3
  <2>5. ASSUME NEW i \in 0 .. m PROVE g[i] = IF i = 0 THEN s ELSE f[i][g[i - 1]]
    <3>1. CASE i = m
      <4>1. m # 0 /\ m - 1 \in 0 .. m /\ m - 1 # m
        BY <1>2
      <4>2. g[m] = f[m][e[m - 1]] /\ g[m - 1] = e[m - 1]
        BY <4>1
      <4> HIDE DEF g
      <4> QED BY <3>1, <4>1, <4>2
    <3>2. CASE i # m
      <4>1. i \in 0 .. (m - 1) /\ (i # 0 => i - 1 \in 0 .. m /\ i - 1 # m)
        BY <1>2, <3>2
      <4>2. e[i] = IF i = 0 THEN s ELSE f[i][e[i - 1]]
        BY <2>1, <4>1 DEF StepByStep
      <4>3. g[i] = e[i] /\ (i # 0 => g[i - 1] = e[i - 1])
        BY <3>2, <4>1
      <4> HIDE DEF g
      <4> QED BY <4>2, <4>3
    <3> QED BY <3>1, <3>2
  <2>6. StepByStep(g, m, s, f)
    <3> HIDE DEF g
    <3> QED BY <2>5 DEF StepByStep
  <2> HIDE DEF g
  <2> QED BY <1>2, <2>4, <2>6
<1> HIDE DEF I
<1>3. \A m \in 0 .. n : m \in I
  BY <1>1, <1>2, CountsUp
<1>4. n \in I
  BY <1>3
<1> QED BY <1>4 DEF I

-----------------------------------------------------------------------------
\* The data, of the scans Z
Capsules == [start : Int, first : BOOLEAN, serial : Int, scan : Int]
Bytes(Z) == [of : {c \in Capsules : c.scan \in Z}, place : Int, shows : Patterns, ok : BOOLEAN]
Handlers == [pos : Nat, part : Capsules, whole : BOOLEAN, prev : Capsules, rdy : BOOLEAN,
             last : BOOLEAN]
Nodes(Z) == [angle : Int, sync : BOOLEAN, scan : Z]
Holders(Z) == [buf : [{0, 1} -> Seq(Nodes(Z))], avail : {-1, 0, 1}, signal : BOOLEAN]

\* Samples and capsules
LEMMA RemainderIsInt == ASSUME NEW a \in Int, NEW b \in Nat \ {0} PROVE a % b \in Int
OBVIOUS

\* A node spread between two capsules is of the scan of the earlier one.
LEMMA SampleIsNode ==
  ASSUME DecoderAssumption, NEW Z, NEW k, NEW prev \in Capsules, prev.scan \in Z,
         NEW cur \in Capsules, NEW i \in Int, NEW sync \in BOOLEAN
  PROVE  Sample(k, prev, cur, i, sync) \in Nodes(Z)
<1>1. Fine \in Nat \ {0} /\ Turn \in Nat \ {0} /\ Turn * Fine \in Nat \ {0}
  BY DEF DecoderAssumption
<1>2. prev.start \in Int /\ Diff(prev, cur) \in Int
  BY <1>1 DEF Capsules, Diff
<1>3. Samples(k) \in Nat \ {0}
  BY DEF Samples
<1>4. Diff(prev, cur) * Fine \in Int
  BY <1>1, <1>2
<1>5. Inc(k, prev, cur) \in Int
  BY <1>3, <1>4 DEF Inc
<1>6. Raw(k, prev, cur, i) \in Int
  <2>1. prev.start * Fine \in Int /\ (i - 1) * Inc(k, prev, cur) \in Int
    BY <1>1, <1>2, <1>5
  <2> QED BY <2>1 DEF Raw
<1>7. Raw(k, prev, cur, i) % (Turn * Fine) \in Int
  BY <1>1, <1>6, RemainderIsInt
<1> QED BY <1>7 DEF Sample, Nodes

\* A node of a capsule that has its own angles is of its scan.
LEMMA OwnSampleIsNode ==
  ASSUME DecoderAssumption, NEW Z, NEW k, NEW c \in Capsules, c.scan \in Z, NEW i \in Int
  PROVE  OwnSample(k, c, i) \in Nodes(Z)
<1> DEFINE spacing == (Step * Fine) \div Samples(k)
           angle   == (c.start * Fine + (i - 1) * spacing) % (Turn * Fine)
<1>1. Fine \in Nat \ {0} /\ Turn * Fine \in Nat \ {0} /\ Step * Fine \in Nat
  BY DEF DecoderAssumption
<1>2. Samples(k) \in Nat \ {0}
  BY DEF Samples
<1>3. spacing \in Int
  BY <1>1, <1>2
<1>4. c.start \in Int
  BY DEF Capsules
<1>5. c.start * Fine + (i - 1) * spacing \in Int
  <2> HIDE DEF spacing
  <2> QED BY <1>1, <1>3, <1>4
<1>6. angle \in Int
  <2> HIDE DEF spacing
  <2> QED BY <1>1, <1>5, RemainderIsInt
<1>7. OwnSample(k, c, i) = [angle |-> angle, sync |-> angle < spacing, scan |-> c.scan]
  BY DEF OwnSample
<1> HIDE DEF spacing, angle
<1> QED BY <1>6, <1>7 DEF Nodes

\* The sync bits of a dense capsule follow from one to the next.
LEMMA BitsFollow ==
  ASSUME NEW k, NEW hh, hh.last \in BOOLEAN, NEW cur
  PROVE  /\ \A i \in 0 .. Samples(k) : DenseBits(k, hh, cur)[i] \in BOOLEAN
         /\ DenseBits(k, hh, cur)[0] = hh.last
         /\ \A i \in 1 .. Samples(k) : DenseBits(k, hh, cur)[i]
              = (Wraps(k, hh.prev, cur, i, 2) /\ ~DenseBits(k, hh, cur)[i - 1])
<1> DEFINE n == Samples(k)
           w(i) == Wraps(k, hh.prev, cur, i, 2)
           Fold(g) == g = [i \in 0 .. n |-> IF i = 0 THEN hh.last ELSE w(i) /\ ~g[i - 1]]
           f == [i \in 1 .. n |-> [b \in BOOLEAN |-> w(i) /\ ~b]]
<1>1. n \in Nat
  BY DEF Samples
<1> HIDE DEF n, w
<1>2. f \in [1 .. n -> [BOOLEAN -> BOOLEAN]]
  OBVIOUS
<1>3. ASSUME NEW i \in 1 .. n, NEW b \in BOOLEAN PROVE f[i][b] = (w(i) /\ ~b)
  OBVIOUS
<1> HIDE DEF f
<1>4. PICK g \in [0 .. n -> BOOLEAN] : StepByStep(g, n, hh.last, f)
  BY <1>1, <1>2, StepsExist
<1>5. ASSUME NEW i \in 0 .. n PROVE g[i] = IF i = 0 THEN hh.last ELSE w(i) /\ ~g[i - 1]
  <2>1. g[i] = IF i = 0 THEN hh.last ELSE f[i][g[i - 1]]
    BY <1>4 DEF StepByStep
  <2>2. CASE i = 0
    BY <2>1, <2>2
  <2>3. CASE i # 0
    <3>1. i \in 1 .. n /\ i - 1 \in 0 .. n
      BY <1>1, <2>3
    <3>2. g[i - 1] \in BOOLEAN
      BY <3>1
    <3> QED BY <1>3, <2>1, <2>3, <3>1, <3>2
  <2> QED BY <2>2, <2>3
<1>6. Fold(g)
  BY <1>5
<1> DEFINE d == CHOOSE e : Fold(e)
<1>7. Fold(d)
  BY <1>6
<1>8. DenseBits(k, hh, cur) = d
  BY DEF DenseBits, n, w
<1> HIDE DEF d
<1>9. d[0] = hh.last
  BY <1>1, <1>7
<1>10. ASSUME NEW i \in 1 .. n PROVE d[i] = (w(i) /\ ~d[i - 1])
  <2>1. i \in 0 .. n /\ i # 0
    BY <1>1
  <2> QED BY <1>7, <2>1
<1>11. ASSUME NEW i \in 0 .. n PROVE d[i] \in BOOLEAN
  BY <1>7
<1> QED BY <1>8, <1>9, <1>10, <1>11 DEF n, w

-----------------------------------------------------------------------------
\* A function on an initial segment is a sequence.
LEMMA ListIsSequence ==
  ASSUME NEW S, NEW n \in Nat, NEW f \in [1 .. n -> S]
  PROVE  f \in Seq(S)
  BY SeqDef

\* What a handler makes of a capsule that is whole.
DataIsGood(res, x, cur, Z) ==
  /\ res.h \in Handlers /\ res.h.pos = x.pos /\ res.h.rdy /\ res.h.prev = cur
  /\ res.out \in Seq(Nodes(Z))

\* What a capsule or an ultra capsule that is complete gives out.
LEMMA CapsuleDataIsGood ==
  ASSUME DecoderAssumption, NEW Z, NEW x \in Handlers, NEW cur \in Capsules,
         x.rdy => x.prev.scan \in Z
  PROVE  /\ DataIsGood(CapsuleData(x, cur), x, cur, Z)
         /\ DataIsGood(UltraCapsuleData(x, cur), x, cur, Z)
<1>1. [x EXCEPT !.prev = cur, !.rdy = TRUE] \in Handlers
  BY DEF Handlers
<1> DEFINE y == [x EXCEPT !.prev = cur, !.rdy = TRUE]
<1>2. y.pos = x.pos /\ y.rdy /\ y.prev = cur /\ x.prev \in Capsules
  BY DEF Handlers
<1>3. << >> \in Seq(Nodes(Z))
  BY EmptySeq
<1>4. ASSUME x.rdy, NEW k \in {"capsule", "ultra"}
      PROVE  [i \in 1 .. Samples(k) |-> Sample(k, x.prev, cur, i, Wraps(k, x.prev, cur, i, 1))]
               \in Seq(Nodes(Z))
  <2>1. Samples(k) \in Nat
    BY DEF Samples
  <2>2. ASSUME NEW i \in 1 .. Samples(k)
        PROVE  Sample(k, x.prev, cur, i, Wraps(k, x.prev, cur, i, 1)) \in Nodes(Z)
    <3>1. Wraps(k, x.prev, cur, i, 1) \in BOOLEAN /\ i \in Int
      BY <2>1 DEF Wraps
    <3> QED BY <1>2, <1>4, <3>1, SampleIsNode
  <2> QED BY <2>1, <2>2, ListIsSequence
<1> HIDE DEF y
<1>5. CapsuleData(x, cur).h = y /\ UltraCapsuleData(x, cur).h = y
  BY DEF CapsuleData, UltraCapsuleData, y
<1>6. CapsuleData(x, cur).out \in Seq(Nodes(Z))
  BY <1>3, <1>4 DEF CapsuleData
<1>7. UltraCapsuleData(x, cur).out \in Seq(Nodes(Z))
  BY <1>3, <1>4 DEF UltraCapsuleData
<1> QED BY <1>1, <1>2, <1>5, <1>6, <1>7 DEF DataIsGood, y

\* The same of the two dense formats, which remember the last sync bit.
LEMMA DenseDataIsGood ==
  ASSUME DecoderAssumption, NEW Z, NEW x \in Handlers, NEW cur \in Capsules,
         x.rdy => x.prev.scan \in Z
  PROVE  /\ DataIsGood(DenseCapsuleData(x, cur), x, cur, Z)
         /\ DataIsGood(UltraDenseCapsuleData(x, cur), x, cur, Z)
<1> DEFINE y == [x EXCEPT !.prev = cur, !.rdy = TRUE]
<1>1. y \in Handlers /\ y.pos = x.pos /\ y.rdy /\ y.prev = cur
  BY DEF Handlers
<1>2. << >> \in Seq(Nodes(Z))
  BY EmptySeq
<1>3. DataIsGood([h |-> y, out |-> << >>], x, cur, Z)
  BY <1>1, <1>2 DEF DataIsGood
<1>4. ASSUME x.rdy, NEW k PROVE DataIsGood(DenseExpand(k, x, cur), x, cur, Z)
  <2> DEFINE bit == DenseBits(k, x, cur)
             z == [x EXCEPT !.prev = cur, !.rdy = TRUE, !.last = bit[Samples(k)]]
  <2>1. Samples(k) \in Nat /\ x.last \in BOOLEAN /\ x.prev \in Capsules
    BY DEF Samples, Handlers
  <2>2. \A i \in 0 .. Samples(k) : bit[i] \in BOOLEAN
    BY <2>1, BitsFollow
  <2> HIDE DEF bit
  <2>3. bit[Samples(k)] \in BOOLEAN
    BY <2>1, <2>2
  <2>4. z \in Handlers /\ z.pos = x.pos /\ z.rdy /\ z.prev = cur
    BY <2>3 DEF Handlers
  <2>5. [i \in 1 .. Samples(k) |-> Sample(k, x.prev, cur, i, bit[i])] \in Seq(Nodes(Z))
    <3>1. ASSUME NEW i \in 1 .. Samples(k)
          PROVE  Sample(k, x.prev, cur, i, bit[i]) \in Nodes(Z)
      <4>1. bit[i] \in BOOLEAN /\ i \in Int
        BY <2>1, <2>2
      <4> QED BY <1>4, <2>1, <4>1, SampleIsNode
    <3> QED BY <2>1, <3>1, ListIsSequence
  <2>6. DenseExpand(k, x, cur)
          = [h |-> z, out |-> [i \in 1 .. Samples(k) |-> Sample(k, x.prev, cur, i, bit[i])]]
    BY DEF DenseExpand, bit
  <2> HIDE DEF z
  <2> QED BY <2>4, <2>5, <2>6 DEF DataIsGood
<1> HIDE DEF y
<1>5. DataIsGood(DenseCapsuleData(x, cur), x, cur, Z)
  BY <1>3, <1>4 DEF DenseCapsuleData, y
<1>6. DataIsGood(UltraDenseCapsuleData(x, cur), x, cur, Z)
  BY <1>3, <1>4 DEF UltraDenseCapsuleData, y
<1> QED BY <1>5, <1>6

-----------------------------------------------------------------------------
\* The byte that ends a capsule as it was sent.
EndsWhole(x, b) == x.pos >= CapsuleLen - 1 /\ Fits(x, b)

\* What a byte does to a handler: it begins anew, it keeps the byte, or a capsule is whole.
ByteIsGood(r, x, b, Z) ==
  /\ r.h \in Handlers /\ r.out \in Seq(Nodes(Z))
  /\ r.h.pos > 0 => r.h.part.scan \in Z
  /\ \/ ~r.h.rdy /\ r.h.pos = 0 /\ r.h.prev = x.prev
     \/ x.pos < CapsuleLen - 1 /\ r.h = Store(x, b)
     \/ EndsWhole(x, b) /\ r.h.prev = b.of /\ r.h.pos = 0

\* A byte that is stored.
LEMMA StoreIsGood ==
  ASSUME NEW Z, NEW x \in Handlers, NEW b \in Bytes(Z), x.pos > 0 => x.part.scan \in Z
  PROVE  /\ Store(x, b) \in Handlers /\ Store(x, b).part.scan \in Z
         /\ Store(x, b).pos = x.pos + 1 /\ Store(x, b).rdy = x.rdy
         /\ Store(x, b).prev = x.prev /\ Store(x, b).whole = Fits(x, b)
         /\ Store(x, b).part = IF x.pos = 0 THEN b.of ELSE x.part
<1>1. Fits(x, b) \in BOOLEAN
  BY DEF Fits, Handlers, Bytes
<1>2. b.of \in Capsules /\ b.of.scan \in Z
  BY DEF Bytes
<1> DEFINE part == IF x.pos = 0 THEN b.of ELSE x.part
           y == [pos |-> x.pos + 1, part |-> part, whole |-> Fits(x, b), prev |-> x.prev,
                 rdy |-> x.rdy, last |-> x.last]
<1>3. /\ x.pos \in Nat /\ x.part \in Capsules /\ x.prev \in Capsules /\ x.rdy \in BOOLEAN
      /\ x.last \in BOOLEAN
      /\ x = [pos |-> x.pos, part |-> x.part, whole |-> x.whole, prev |-> x.prev,
              rdy |-> x.rdy, last |-> x.last]
  BY DEF Handlers
<1>4. part \in Capsules /\ part.scan \in Z
  BY <1>2, <1>3
<1>5. Store(x, b) = [x EXCEPT !.pos = x.pos + 1, !.whole = Fits(x, b), !.part = part]
  BY DEF Store
<1> HIDE DEF part
<1>6. Store(x, b) = y
  BY <1>3, <1>5
<1>7. y \in Handlers
  BY <1>1, <1>3, <1>4 DEF Handlers
<1> QED BY <1>4, <1>6, <1>7 DEF part

\* A capsule that is dropped.
LEMMA DropIsGood ==
  ASSUME NEW x \in Handlers
  PROVE  /\ Drop(x) \in Handlers /\ Drop(x).pos = 0 /\ Drop(x).rdy = x.rdy
         /\ Drop(x).prev = x.prev /\ Drop(x).last = x.last
<1> DEFINE w == TRUE
<1>1. w \in BOOLEAN /\ Drop(x) = [x EXCEPT !.pos = 0, !.whole = w, !.part = NoCapsule]
  BY DEF Drop
<1> HIDE DEF w
<1>2. NoCapsule \in Capsules
  BY DEF NoCapsule, Capsules
<1>3. [x EXCEPT !.pos = 0, !.whole = w, !.part = NoCapsule] \in Handlers
  BY <1>1, <1>2 DEF Handlers
<1>4. /\ [x EXCEPT !.pos = 0, !.whole = w, !.part = NoCapsule].pos = 0
      /\ [x EXCEPT !.pos = 0, !.whole = w, !.part = NoCapsule].rdy = x.rdy
      /\ [x EXCEPT !.pos = 0, !.whole = w, !.part = NoCapsule].prev = x.prev
      /\ [x EXCEPT !.pos = 0, !.whole = w, !.part = NoCapsule].last = x.last
  BY DEF Handlers
<1> QED BY <1>1, <1>3, <1>4

\* A capsule that is dropped, with a verdict on the one before.
LEMMA ReadyIsGood ==
  ASSUME NEW x \in Handlers, NEW q \in BOOLEAN
  PROVE  /\ [Drop(x) EXCEPT !.rdy = q] \in Handlers /\ [Drop(x) EXCEPT !.rdy = q].rdy = q
         /\ [Drop(x) EXCEPT !.rdy = q].pos = 0 /\ [Drop(x) EXCEPT !.rdy = q].prev = x.prev
<1> DEFINE d == Drop(x)
<1>1. d \in Handlers /\ d.pos = 0 /\ d.prev = x.prev
  BY DropIsGood
<1> HIDE DEF d
<1>2. [d EXCEPT !.rdy = q] \in Handlers
  BY <1>1 DEF Handlers
<1>3. /\ [d EXCEPT !.rdy = q].rdy = q /\ [d EXCEPT !.rdy = q].pos = d.pos
      /\ [d EXCEPT !.rdy = q].prev = d.prev
  BY <1>1 DEF Handlers
<1> QED BY <1>1, <1>2, <1>3 DEF d

\* A capsule that is dropped as damaged.
LEMMA LostIsGood ==
  ASSUME NEW x \in Handlers
  PROVE  /\ Lost(x) \in Handlers /\ Lost(x).pos = 0 /\ Lost(x).rdy = FALSE
         /\ Lost(x).prev = x.prev
BY ReadyIsGood DEF Lost

\* A byte of the three formats that share the frame of onData.
LEMMA CapsuleByteIsGood ==
  ASSUME DecoderAssumption, NEW Z, NEW x \in Handlers, NEW b \in Bytes(Z),
         x.pos > 0 => x.part.scan \in Z, NEW res,
         EndsWhole(x, b) =>
           DataIsGood(res, [Drop(x) EXCEPT !.rdy = @ /\ ~b.of.first], b.of, Z),
         NEW r,
         r = CASE Mismatch("capsule", x, b) -> Nothing(Lost(x))
               [] ~Mismatch("capsule", x, b) /\ x.pos < CapsuleLen - 1 -> Nothing(Store(x, b))
               [] OTHER -> IF ~Fits(x, b) THEN Nothing(Lost(x))
                           ELSE [h |-> res.h, out |-> res.out, rewind |-> b.of.first]
  PROVE  ByteIsGood(r, x, b, Z)
<1>1. << >> \in Seq(Nodes(Z)) /\ x.pos \in Nat /\ CapsuleLen \in Nat
  BY EmptySeq DEF Handlers, DecoderAssumption
<1>2. ASSUME r = Nothing(Lost(x)) PROVE ByteIsGood(r, x, b, Z)
  <2>1. r.h = Lost(x) /\ r.out = << >>
    BY <1>2 DEF Nothing
  <2>2. Lost(x) \in Handlers /\ Lost(x).pos = 0 /\ Lost(x).rdy = FALSE /\ Lost(x).prev = x.prev
    BY LostIsGood
  <2>3. r.h \in Handlers /\ r.h.pos = 0 /\ ~r.h.rdy /\ ~(r.h.pos > 0) /\ r.h.prev = x.prev
    BY <2>1, <2>2
  <2> QED BY <1>1, <2>1, <2>3 DEF ByteIsGood
<1>3. ASSUME r = Nothing(Store(x, b)), x.pos < CapsuleLen - 1 PROVE ByteIsGood(r, x, b, Z)
  <2>1. r.h = Store(x, b) /\ r.out = << >>
    BY <1>3 DEF Nothing
  <2>2. Store(x, b) \in Handlers /\ Store(x, b).part.scan \in Z
    BY StoreIsGood
  <2> QED BY <1>1, <1>3, <2>1, <2>2 DEF ByteIsGood
<1>4. ASSUME r = [h |-> res.h, out |-> res.out, rewind |-> b.of.first], EndsWhole(x, b)
      PROVE  ByteIsGood(r, x, b, Z)
  <2> DEFINE y == [Drop(x) EXCEPT !.rdy = @ /\ ~b.of.first]
  <2>1. DataIsGood(res, y, b.of, Z)
    BY <1>4
  <2>2. y.pos = 0
    <3> DEFINE q == Drop(x).rdy /\ ~b.of.first
    <3>1. q \in BOOLEAN /\ y = [Drop(x) EXCEPT !.rdy = q]
      BY DropIsGood DEF Handlers
    <3> HIDE DEF q, y
    <3>2. [Drop(x) EXCEPT !.rdy = q].pos = 0
      BY <3>1, ReadyIsGood
    <3> QED BY <3>1, <3>2
  <2> HIDE DEF y
  <2>3. /\ res.h \in Handlers /\ res.h.pos = 0 /\ res.h.prev = b.of
        /\ res.out \in Seq(Nodes(Z))
    BY <2>1, <2>2 DEF DataIsGood
  <2> QED BY <1>4, <2>3 DEF ByteIsGood
<1>5. \/ r = Nothing(Lost(x))
      \/ r = Nothing(Store(x, b)) /\ x.pos < CapsuleLen - 1
      \/ r = [h |-> res.h, out |-> res.out, rewind |-> b.of.first] /\ EndsWhole(x, b)
  <2>1. CASE Mismatch("capsule", x, b)
    BY <2>1
  <2>2. CASE ~Mismatch("capsule", x, b) /\ x.pos < CapsuleLen - 1
    BY <2>2
  <2>3. CASE ~Mismatch("capsule", x, b) /\ ~(x.pos < CapsuleLen - 1)
    BY <1>1, <2>3 DEF EndsWhole
  <2> QED BY <2>1, <2>2, <2>3
<1> QED BY <1>2, <1>3, <1>4, <1>5

\* The kinds whose samples are spread between two capsules.
Spread == {"capsule", "ultra", "dense", "ultradense"}

\* A byte of a format that spreads its nodes between two capsules.
LEMMA SpreadByteIsGood ==
  ASSUME DecoderAssumption, NEW Z, NEW k \in Spread, NEW x \in Handlers, NEW b \in Bytes(Z),
         x.pos > 0 => x.part.scan \in Z,
         EndsWhole(x, b) /\ x.rdy /\ ~b.of.first => x.prev.scan \in Z
  PROVE  ByteIsGood(OnData(k, x, b), x, b, Z)
<1> DEFINE q == x.rdy /\ ~b.of.first
           y == [Drop(x) EXCEPT !.rdy = @ /\ ~b.of.first]
<1>1. b.of \in Capsules /\ b.of.scan \in Z /\ x.rdy \in BOOLEAN /\ q \in BOOLEAN
  BY DEF Bytes, Handlers
<1>2. y \in Handlers /\ (y.rdy <=> q) /\ y.prev = x.prev
  <2>1. y = [Drop(x) EXCEPT !.rdy = q]
    BY DropIsGood
  <2> HIDE DEF q, y
  <2>2. y \in Handlers /\ y.rdy = q /\ y.prev = x.prev
    BY <1>1, <2>1, ReadyIsGood
  <2> QED BY <1>1, <2>2
<1>3. EndsWhole(x, b) => (y.rdy => y.prev.scan \in Z)
  BY <1>2
<1> HIDE DEF y
<1>4. EndsWhole(x, b) =>
        /\ DataIsGood(CapsuleData(y, b.of), y, b.of, Z)
        /\ DataIsGood(UltraCapsuleData(y, b.of), y, b.of, Z)
        /\ DataIsGood(DenseCapsuleData(y, b.of), y, b.of, Z)
        /\ DataIsGood(UltraDenseCapsuleData(y, b.of), y, b.of, Z)
  BY <1>1, <1>2, <1>3, CapsuleDataIsGood, DenseDataIsGood
<1> DEFINE R(res) == CASE Mismatch("capsule", x, b) -> Nothing(Lost(x))
               [] ~Mismatch("capsule", x, b) /\ x.pos < CapsuleLen - 1 -> Nothing(Store(x, b))
               [] OTHER -> IF ~Fits(x, b) THEN Nothing(Lost(x))
                           ELSE [h |-> res.h, out |-> res.out, rewind |-> b.of.first]
<1>5. ASSUME NEW res, EndsWhole(x, b) => DataIsGood(res, y, b.of, Z)
      PROVE  ByteIsGood(R(res), x, b, Z)
  BY <1>5, CapsuleByteIsGood DEF y
<1>6. CASE k = "capsule"
  <2>1. OnData(k, x, b) = R(CapsuleData(y, b.of))
    BY <1>6 DEF OnData, CapsuleOnData, CapsuleByte, y
  <2> HIDE DEF R
  <2> QED BY <1>4, <1>5, <2>1
<1>7. CASE k = "ultra"
  <2>1. OnData(k, x, b) = R(UltraCapsuleData(y, b.of))
    BY <1>7 DEF OnData, UltraOnData, CapsuleByte, y
  <2> HIDE DEF R
  <2> QED BY <1>4, <1>5, <2>1
<1>8. CASE k = "dense"
  <2>1. OnData(k, x, b) = R(DenseCapsuleData(y, b.of))
    BY <1>8 DEF OnData, DenseOnData, CapsuleByte, y
  <2> HIDE DEF R
  <2> QED BY <1>4, <1>5, <2>1
<1>9. CASE k = "ultradense"
  <2>1. OnData(k, x, b) = R(UltraDenseCapsuleData(y, b.of))
    BY <1>9 DEF OnData, UltraDenseOnData, CapsuleByte, y
  <2> HIDE DEF R
  <2> QED BY <1>4, <1>5, <2>1
<1> QED BY <1>6, <1>7, <1>8, <1>9 DEF Spread

\* A byte of a format whose capsules stand alone.
LEMMA OwnByteIsGood ==
  ASSUME DecoderAssumption, NEW Z, NEW k, k \notin Spread, NEW x \in Handlers,
         NEW b \in Bytes(Z), x.pos > 0 => x.part.scan \in Z
  PROVE  /\ OnData(k, x, b).h \in Handlers /\ OnData(k, x, b).out \in Seq(Nodes(Z))
         /\ OnData(k, x, b).h.pos > 0 => OnData(k, x, b).h.part.scan \in Z
         /\ OnData(k, x, b).h.rdy = x.rdy
<1>1. << >> \in Seq(Nodes(Z)) /\ x.pos \in Nat /\ CapsuleLen \in Nat /\ CapsuleLen >= 3
  BY EmptySeq DEF Handlers, DecoderAssumption
<1>2. /\ b.of \in Capsules /\ b.of.scan \in Z /\ b.shows \in Patterns
      /\ x.part \in Capsules
  BY DEF Bytes, Handlers
<1> DEFINE Good(r) == /\ r.h \in Handlers /\ r.out \in Seq(Nodes(Z))
                      /\ r.h.pos > 0 => r.h.part.scan \in Z
                      /\ r.h.rdy = x.rdy
<1>3. ASSUME NEW r, r.h = x \/ r.h = Drop(x) \/ r.h = Store(x, b),
             r.out \in Seq(Nodes(Z))
      PROVE  Good(r)
  <2>1. CASE r.h = x
    BY <1>3, <2>1
  <2>2. CASE r.h = Drop(x)
    <3>1. Drop(x) \in Handlers /\ Drop(x).pos = 0 /\ Drop(x).rdy = x.rdy
      BY DropIsGood
    <3> QED BY <1>3, <2>2, <3>1
  <2>3. CASE r.h = Store(x, b)
    <3>1. Store(x, b) \in Handlers /\ Store(x, b).part.scan \in Z /\ Store(x, b).rdy = x.rdy
      BY StoreIsGood
    <3> QED BY <1>3, <2>3, <3>1
  <2> QED BY <1>3, <2>1, <2>2, <2>3
<1>4. ASSUME NEW y PROVE Nothing(y).h = y /\ Nothing(y).out = << >>
  BY DEF Nothing
<1>5. Good(HQOnData(x, b))
  <2> DEFINE s == [i \in 1 .. Samples("hq") |-> OwnSample("hq", b.of, i)]
             o == IF ~Fits(x, b) THEN << >> ELSE s
  <2>1. s \in Seq(Nodes(Z))
    <3>1. Samples("hq") \in Nat
      BY DEF Samples
    <3>2. ASSUME NEW i \in 1 .. Samples("hq") PROVE OwnSample("hq", b.of, i) \in Nodes(Z)
      BY <1>2, <3>1, OwnSampleIsNode
    <3> QED BY <3>1, <3>2, ListIsSequence
  <2> HIDE DEF s
  <2>2. o \in Seq(Nodes(Z))
    BY <1>1, <2>1
  <2>3. \/ HQOnData(x, b) = Nothing(x) \/ HQOnData(x, b) = Nothing(Store(x, b))
        \/ HQOnData(x, b) = [h |-> Drop(x), rewind |-> FALSE, out |-> o]
    BY DEF HQOnData, s
  <2> HIDE DEF o, Good
  <2> QED BY <1>1, <1>3, <1>4, <2>2, <2>3
<1>6. Good(NormalOnData(x, b))
  <2> DEFINE s == OwnSample("normal", x.part, 1)
             n == IF Fits(x, b) THEN s ELSE [s EXCEPT !.sync = b.shows = "s1"]
  <2>1. ASSUME x.pos > 0 PROVE n \in Nodes(Z)
    <3>1. s \in Nodes(Z)
      BY <1>2, <2>1, OwnSampleIsNode
    <3> HIDE DEF s
    <3> QED BY <3>1 DEF Nodes
  <2> HIDE DEF s
  <2>2. ASSUME x.pos > 0 PROVE <<n>> \in Seq(Nodes(Z))
    <3> HIDE DEF n
    <3> QED BY <2>1, <2>2
  <2>3. \/ NormalOnData(x, b) = Nothing(Drop(x)) \/ NormalOnData(x, b) = Nothing(Store(x, b))
        \/ x.pos > 0 /\ NormalOnData(x, b) = [h |-> Drop(x), rewind |-> FALSE, out |-> <<n>>]
    <3>1. CASE Mismatch("normal", x, b)
      BY <3>1 DEF NormalOnData
    <3>2. CASE ~Mismatch("normal", x, b) /\ x.pos < CapsuleLen - 1
      BY <3>2 DEF NormalOnData
    <3>3. CASE ~Mismatch("normal", x, b) /\ ~(x.pos < CapsuleLen - 1)
      <4>1. x.pos > 0
        BY <1>1, <3>3
      <4> QED BY <3>3, <4>1 DEF NormalOnData, s
    <3> QED BY <3>1, <3>2, <3>3
  <2> HIDE DEF n, Good
  <2> QED BY <1>1, <1>3, <1>4, <2>2, <2>3
<1>7. OnData(k, x, b) = HQOnData(x, b) \/ OnData(k, x, b) = NormalOnData(x, b)
  BY DEF OnData, Spread
<1> QED BY <1>5, <1>6, <1>7

-----------------------------------------------------------------------------
\* The scan holder
LEMMA BufferIsKept ==
  ASSUME NEW Z, NEW G \in Holders(Z)
  PROVE  /\ Filling(G) \in {0, 1} /\ G.buf \in [{0, 1} -> Seq(Nodes(Z))]
         /\ \A i \in {0, 1} : \A s \in Seq(Nodes(Z)) : [G EXCEPT !.buf[i] = s] \in Holders(Z)
<1>1. /\ Filling(G) \in {0, 1} /\ G.buf \in [{0, 1} -> Seq(Nodes(Z))]
      /\ G.avail \in {-1, 0, 1} /\ G.signal \in BOOLEAN
  BY DEF Filling, Holders
<1>2. ASSUME NEW i \in {0, 1}, NEW s \in Seq(Nodes(Z))
      PROVE  [G EXCEPT !.buf[i] = s] \in Holders(Z)
  <2>1. [G.buf EXCEPT ![i] = s] \in [{0, 1} -> Seq(Nodes(Z))]
    BY <1>1
  <2>2. [G EXCEPT !.buf[i] = s] = [G EXCEPT !.buf = [G.buf EXCEPT ![i] = s]]
    OBVIOUS
  <2> QED BY <1>1, <2>1, <2>2 DEF Holders
<1> QED BY <1>1, <1>2

\* A revolution begun anew has nothing of another scan.
LEMMA RewindIsKept ==
  ASSUME NEW Z, NEW H \in Holders(Z)
  PROVE  RewindScan(H) \in Holders(Z)
BY BufferIsKept, EmptySeq DEF RewindScan

\* Nor has one that a node is added to.
LEMMA HolderIsKept ==
  ASSUME DecoderAssumption, NEW Z, NEW H \in Holders(Z), NEW n \in Nodes(Z)
  PROVE  PushScanNode(H, n) \in Holders(Z)
<1>1. ASSUME NEW G \in Holders(Z) PROVE Append1(G, n) \in Holders(Z)
  <2> DEFINE s == G.buf[Filling(G)]
             t == IF Len(s) >= MaxSamples THEN [s EXCEPT ![Len(s)] = n] ELSE Append(s, n)
  <2>1. s \in Seq(Nodes(Z)) /\ Filling(G) \in {0, 1}
    BY BufferIsKept
  <2> HIDE DEF s
  <2>2. Append(s, n) \in Seq(Nodes(Z))
    BY <2>1, AppendProperties
  <2>3. ASSUME Len(s) >= MaxSamples PROVE [s EXCEPT ![Len(s)] = n] \in Seq(Nodes(Z))
    <3>1. MaxSamples \in Nat \ {0}
      BY DEF DecoderAssumption
    <3>2. s \in [1 .. Len(s) -> Nodes(Z)] /\ Len(s) \in Nat
      BY <2>1, LenProperties
    <3>3. [s EXCEPT ![Len(s)] = n] \in [1 .. Len(s) -> Nodes(Z)]
      BY <3>2
    <3> QED BY <3>2, <3>3, ListIsSequence
  <2>4. t \in Seq(Nodes(Z))
    BY <2>2, <2>3
  <2>5. Append1(G, n) = [G EXCEPT !.buf[Filling(G)] = t]
    BY DEF Append1, s
  <2> HIDE DEF t
  <2> QED BY <2>1, <2>4, <2>5, BufferIsKept
<1>2. FinishAndSwap(H) \in Holders(Z)
  <2> DEFINE i == 1 - Filling(H)
             buf == [H.buf EXCEPT ![i] = << >>]
  <2>1. i \in {0, 1} /\ Filling(H) \in {-1, 0, 1} /\ << >> \in Seq(Nodes(Z))
    BY BufferIsKept, EmptySeq
  <2>2. buf \in [{0, 1} -> Seq(Nodes(Z))]
    <3> HIDE DEF i
    <3> QED BY <2>1, BufferIsKept
  <2>3. FinishAndSwap(H) = [H EXCEPT !.avail = Filling(H), !.buf = buf, !.signal = TRUE]
    BY DEF FinishAndSwap
  <2> HIDE DEF buf, i
  <2> QED BY <2>1, <2>2, <2>3 DEF Holders
<1>3. \/ PushScanNode(H, n) = Append1(FinishAndSwap(H), n)
      \/ PushScanNode(H, n) = Append1(H, n)
      \/ PushScanNode(H, n) = H
  BY DEF PushScanNode, Nodes
<1> QED BY <1>1, <1>2, <1>3

\* Nodes are published one after the other.
PublishSteps(d, H, res, Z) ==
  /\ d[0] = IF res.rewind THEN RewindScan(H) ELSE H
  /\ \A i \in 1 .. Len(res.out) : d[i] = PushScanNode(d[i - 1], res.out[i])
  /\ \A i \in 0 .. Len(res.out) : d[i] \in Holders(Z)
  /\ Publish(H, res) = d[Len(res.out)]

\* A list of samples is published one after the other.
LEMMA PublishGoesOn ==
  ASSUME DecoderAssumption, NEW Z, NEW H \in Holders(Z), NEW res, res.out \in Seq(Nodes(Z))
  PROVE  \E d : PublishSteps(d, H, res, Z)
<1> DEFINE n == Len(res.out)
           S == Holders(Z)
           p(G, i) == PushScanNode(G, res.out[i])
           s0 == IF res.rewind THEN RewindScan(H) ELSE H
           Fold(g) == g = [i \in 0 .. n |-> IF i = 0 THEN s0 ELSE p(g[i - 1], i)]
           f == [i \in 1 .. n |-> [G \in S |-> p(G, i)]]
<1>1. n \in Nat /\ \A i \in 1 .. n : res.out[i] \in Nodes(Z)
  BY LenProperties, ElementOfSeq
<1>2. ASSUME NEW i \in 1 .. n, NEW G \in S PROVE p(G, i) \in S
  BY <1>1, HolderIsKept
<1>3. s0 \in S
  BY RewindIsKept
<1> HIDE DEF n, p, s0, S
<1>4. f \in [1 .. n -> [S -> S]]
  BY <1>2
<1>5. ASSUME NEW i \in 1 .. n, NEW G \in S PROVE f[i][G] = p(G, i)
  OBVIOUS
<1> HIDE DEF f
<1>6. PICK g \in [0 .. n -> S] : StepByStep(g, n, s0, f)
  BY <1>1, <1>3, <1>4, StepsExist
<1>7. ASSUME NEW i \in 0 .. n PROVE g[i] = IF i = 0 THEN s0 ELSE p(g[i - 1], i)
  <2>1. g[i] = IF i = 0 THEN s0 ELSE f[i][g[i - 1]]
    BY <1>6 DEF StepByStep
  <2>2. CASE i = 0
    BY <2>1, <2>2
  <2>3. CASE i # 0
    <3>1. i \in 1 .. n /\ i - 1 \in 0 .. n
      BY <1>1, <2>3
    <3>2. g[i - 1] \in S
      BY <3>1
    <3> QED BY <1>5, <2>1, <2>3, <3>1, <3>2
  <2> QED BY <2>2, <2>3
<1>8. Fold(g)
  BY <1>7
<1> DEFINE d == CHOOSE e : Fold(e)
<1>9. Fold(d)
  BY <1>8
<1>10. Publish(H, res) = d[n]
  BY DEF Publish, n, p, s0
<1> HIDE DEF d
<1> DEFINE I == {i \in 0 .. n : d[i] \in S}
<1>11. 0 \in I
  BY <1>1, <1>3, <1>9
<1>12. ASSUME NEW i \in 1 .. n, i - 1 \in I PROVE i \in I
  <2>1. i \in 0 .. n /\ i # 0 /\ d[i - 1] \in S
    BY <1>1, <1>12
  <2>2. d[i] = p(d[i - 1], i)
    BY <1>9, <2>1
  <2> QED BY <1>2, <2>1, <2>2
<1> HIDE DEF I
<1>13. \A i \in 0 .. n : i \in I
  BY <1>1, <1>11, <1>12, CountsUp
<1>14. \A i \in 0 .. n : d[i] \in S
  BY <1>13 DEF I
<1>15. d[0] = s0
  BY <1>1, <1>9
<1>16. \A i \in 1 .. n : d[i] = p(d[i - 1], i)
  <2> SUFFICES ASSUME NEW i \in 1 .. n PROVE d[i] = p(d[i - 1], i)
    OBVIOUS
  <2>1. i \in 0 .. n /\ i # 0
    BY <1>1
  <2> QED BY <1>9, <2>1
<1>17. PublishSteps(d, H, res, Z)
  BY <1>10, <1>14, <1>15, <1>16 DEF S, n, p, s0, PublishSteps
<1> QED BY <1>17

\* Nor one that the nodes of a byte are added to, however many.
LEMMA PublishIsKept ==
  ASSUME DecoderAssumption, NEW Z, NEW H \in Holders(Z), NEW res, res.out \in Seq(Nodes(Z))
  PROVE  Publish(H, res) \in Holders(Z)
<1>1. PICK d : PublishSteps(d, H, res, Z)
  BY PublishGoesOn
<1>2. Len(res.out) \in 0 .. Len(res.out)
  BY LenProperties
<1> QED BY <1>1, <1>2 DEF PublishSteps

-----------------------------------------------------------------------------
\* The handler and the holder while a handler reads bytes.
Read(k, x, H, bytes) ==
  LET read[n \in 0 .. Len(bytes)] ==
        IF n = 0 THEN [h |-> x, holder |-> H]
        ELSE LET before == read[n - 1]
                 res == OnData(k, before.h, bytes[n])
             IN [h |-> res.h, holder |-> Publish(before.holder, res)]
  IN read

\* A message is read from its first byte to its last.
LEMMA DeliverIsRead ==
  ASSUME NEW bytes, Deliver(bytes)
  PROVE  /\ h' = Read(kind, h, holder, bytes)[Len(bytes)].h
         /\ holder' = Read(kind, h, holder, bytes)[Len(bytes)].holder
         /\ unp' = [unp EXCEPT !.active = TRUE]
BY DEF Deliver, Read

\* What is of some scans is of scans.
LEMMA OfSomeScan ==
  /\ \A Z \in SUBSET Int : /\ Nodes(Z) \subseteq Nodes(Int) /\ Bytes(Z) \subseteq Bytes(Int)
                           /\ Holders(Z) \subseteq Holders(Int)
  /\ \A x \in Handlers : x.part.scan \in Int /\ x.prev.scan \in Int
<1>1. ASSUME NEW Z \in SUBSET Int
      PROVE  Nodes(Z) \subseteq Nodes(Int) /\ Bytes(Z) \subseteq Bytes(Int)
  BY DEF Nodes, Bytes
<1>2. ASSUME NEW Z \in SUBSET Int, NEW s \in Seq(Nodes(Z)) PROVE s \in Seq(Nodes(Int))
  <2>1. s \in [1 .. Len(s) -> Nodes(Z)] /\ Len(s) \in Nat
    BY LenProperties
  <2>2. s \in [1 .. Len(s) -> Nodes(Int)]
    BY <1>1, <2>1
  <2> QED BY <2>1, <2>2, ListIsSequence
<1>3. ASSUME NEW Z \in SUBSET Int PROVE Holders(Z) \subseteq Holders(Int)
  BY <1>2 DEF Holders
<1>4. \A x \in Handlers : x.part.scan \in Int /\ x.prev.scan \in Int
  BY DEF Handlers, Capsules
<1> QED BY <1>1, <1>3, <1>4

\* A byte keeps the types.
LEMMA ByteIsKept ==
  ASSUME DecoderAssumption, NEW k, NEW x \in Handlers, NEW b \in Bytes(Int)
  PROVE  OnData(k, x, b).h \in Handlers /\ OnData(k, x, b).out \in Seq(Nodes(Int))
<1>1. x.part.scan \in Int /\ x.prev.scan \in Int
  BY OfSomeScan
<1>2. CASE k \in Spread
  BY <1>1, <1>2, SpreadByteIsGood DEF ByteIsGood
<1>3. CASE k \notin Spread
  BY <1>1, <1>3, OwnByteIsGood
<1> QED BY <1>2, <1>3

\* One byte after the other.
ReadSteps(k, x, H, bytes) ==
  /\ Read(k, x, H, bytes)[0] = [h |-> x, holder |-> H]
  /\ \A i \in 1 .. Len(bytes) :
       Read(k, x, H, bytes)[i]
         = [h |-> OnData(k, Read(k, x, H, bytes)[i - 1].h, bytes[i]).h,
            holder |-> Publish(Read(k, x, H, bytes)[i - 1].holder,
                               OnData(k, Read(k, x, H, bytes)[i - 1].h, bytes[i]))]

\* Reading a message is a sequence of steps, one for a byte.
LEMMA ReadGoesOn ==
  ASSUME DecoderAssumption, NEW k, NEW x \in Handlers, NEW H \in Holders(Int),
         NEW bytes \in Seq(Bytes(Int))
  PROVE  ReadSteps(k, x, H, bytes)
<1> DEFINE n == Len(bytes)
           S == [h : Handlers, holder : Holders(Int)]
           s0 == [h |-> x, holder |-> H]
           p(s, i) == [h |-> OnData(k, s.h, bytes[i]).h,
                       holder |-> Publish(s.holder, OnData(k, s.h, bytes[i]))]
           Fold(g) == g = [i \in 0 .. n |-> IF i = 0 THEN s0 ELSE p(g[i - 1], i)]
           f == [i \in 1 .. n |-> [s \in S |-> p(s, i)]]
<1>1. n \in Nat /\ \A i \in 1 .. n : bytes[i] \in Bytes(Int)
  BY LenProperties, ElementOfSeq
<1>2. ASSUME NEW i \in 1 .. n, NEW s \in S PROVE p(s, i) \in S
  <2>1. s.h \in Handlers /\ s.holder \in Holders(Int)
    OBVIOUS
  <2>2. OnData(k, s.h, bytes[i]).h \in Handlers /\ OnData(k, s.h, bytes[i]).out \in Seq(Nodes(Int))
    BY <1>1, <2>1, ByteIsKept
  <2>3. Publish(s.holder, OnData(k, s.h, bytes[i])) \in Holders(Int)
    BY <2>1, <2>2, PublishIsKept
  <2> QED BY <2>2, <2>3
<1>3. s0 \in S
  OBVIOUS
<1> HIDE DEF n, p, s0, S
<1>4. f \in [1 .. n -> [S -> S]]
  BY <1>2
<1>5. ASSUME NEW i \in 1 .. n, NEW s \in S PROVE f[i][s] = p(s, i)
  OBVIOUS
<1> HIDE DEF f
<1>6. PICK g \in [0 .. n -> S] : StepByStep(g, n, s0, f)
  BY <1>1, <1>3, <1>4, StepsExist
<1>7. ASSUME NEW i \in 0 .. n PROVE g[i] = IF i = 0 THEN s0 ELSE p(g[i - 1], i)
  <2>1. g[i] = IF i = 0 THEN s0 ELSE f[i][g[i - 1]]
    BY <1>6 DEF StepByStep
  <2>2. CASE i = 0
    BY <2>1, <2>2
  <2>3. CASE i # 0
    <3>1. i \in 1 .. n /\ i - 1 \in 0 .. n
      BY <1>1, <2>3
    <3>2. g[i - 1] \in S
      BY <3>1
    <3> QED BY <1>5, <2>1, <2>3, <3>1, <3>2
  <2> QED BY <2>2, <2>3
<1>8. Fold(g)
  BY <1>7
<1> DEFINE d == CHOOSE e : Fold(e)
<1>9. Fold(d)
  BY <1>8
<1>10. Read(k, x, H, bytes) = d
  BY DEF Read, n, p, s0
<1> HIDE DEF d
<1>11. d[0] = s0
  BY <1>1, <1>9
<1>12. ASSUME NEW i \in 1 .. n PROVE d[i] = p(d[i - 1], i)
  <2>1. i \in 0 .. n /\ i # 0
    BY <1>1
  <2> QED BY <1>9, <2>1
<1> QED BY <1>10, <1>11, <1>12 DEF n, p, s0, ReadSteps

\* What a handler has is of these scans.
Clean(x, Z) == (x.pos > 0 => x.part.scan \in Z) /\ (x.rdy => x.prev.scan \in Z)

\* A capsule of an earlier scan is still there, and all bytes so far are in the buffer.
LeftOver(x, bytes, i) ==
  /\ x.rdy /\ x.pos = i /\ x.pos < CapsuleLen
  /\ i > 0 /\ x.whole => \A j \in 1 .. i : bytes[j].of = x.part

\* What has been read is fine: nothing of another scan, or of one all of whose capsule
\* is still to come.
SoFar(k, y, Z, bytes, i) ==
  /\ y.pos > 0 => y.part.scan \in Z
  /\ Clean(y, Z) \/ (k \in Spread /\ LeftOver(y, bytes, i))

\* What the byte i leaves.
AfterByte(k, y, o, Z, bytes, i) ==
  /\ o.h \in Handlers /\ o.out \in Seq(Nodes(Z)) /\ SoFar(k, o.h, Z, bytes, i)
  /\ Clean(y, Z) => Clean(o.h, Z)
  /\ k \notin Spread => o.h.rdy = y.rdy

\* One of these steps, over bytes of the scans Z only.
LEMMA NextByteIsClean ==
  ASSUME DecoderAssumption, NEW Z, NEW k, NEW y \in Handlers, NEW bytes, NEW i \in Nat \ {0},
         bytes[i] \in Bytes(Z), SoFar(k, y, Z, bytes, i - 1),
         Clean(y, Z) \/ \E j \in 1 .. CapsuleLen : bytes[j].of.first
  PROVE  AfterByte(k, y, OnData(k, y, bytes[i]), Z, bytes, i)
<1> DEFINE b == bytes[i]
           o == OnData(k, y, bytes[i])
<1> SUFFICES AfterByte(k, y, o, Z, bytes, i)
  OBVIOUS
<1>0. o = OnData(k, y, b)
  OBVIOUS
<1>1. /\ y.pos \in Nat /\ y.rdy \in BOOLEAN /\ CapsuleLen \in Nat /\ CapsuleLen >= 3
      /\ b.of \in Capsules /\ b.of.scan \in Z /\ b \in Bytes(Z)
      /\ y.pos > 0 => y.part.scan \in Z
  BY DEF Handlers, Bytes, DecoderAssumption, SoFar
<1> HIDE DEF b, o
<1>a. Drop(y).prev = y.prev
  BY DropIsGood
<1>b. /\ Store(y, b) \in Handlers /\ Store(y, b).part.scan \in Z
      /\ Store(y, b).pos = y.pos + 1 /\ Store(y, b).rdy = y.rdy
      /\ Store(y, b).prev = y.prev /\ Store(y, b).whole = Fits(y, b)
      /\ Store(y, b).part = IF y.pos = 0 THEN b.of ELSE y.part
  BY <1>1, StoreIsGood
<1>2. CASE k \notin Spread
  <2>1. /\ o.h \in Handlers /\ o.out \in Seq(Nodes(Z)) /\ (o.h.pos > 0 => o.h.part.scan \in Z)
        /\ o.h.rdy = y.rdy
    BY <1>1, <1>2, <1>0, OwnByteIsGood
  <2>2. Clean(y, Z) /\ (o.h.rdy => y.prev.scan \in Z)
    BY <1>2, <2>1 DEF SoFar, Clean
  <2>3. o.h.prev = y.prev
    <3>1. \/ o.h = y \/ o.h = Drop(y) \/ o.h = Store(y, b)
      BY <1>0, <1>2 DEF OnData, Spread, HQOnData, NormalOnData, Nothing
    <3> QED BY <1>a, <1>b, <3>1
  <2> QED BY <1>2, <2>1, <2>2, <2>3 DEF SoFar, Clean, AfterByte
<1>3. CASE k \in Spread
  <2>1. CASE Clean(y, Z)
    <3>1. ByteIsGood(o, y, b, Z)
      BY <1>1, <1>3, <2>1, <1>0, SpreadByteIsGood DEF Clean
    <3>2. Clean(o.h, Z)
      <4>1. CASE ~o.h.rdy /\ o.h.pos = 0
        BY <4>1 DEF Clean
      <4>2. CASE o.h = Store(y, b)
        BY <1>b, <2>1, <4>2 DEF Clean
      <4>3. CASE o.h.prev = b.of /\ o.h.pos = 0
        BY <1>1, <4>3 DEF Clean
      <4> QED BY <3>1, <4>1, <4>2, <4>3 DEF ByteIsGood
    <3> QED BY <1>3, <3>1, <3>2 DEF ByteIsGood, SoFar, AfterByte
  <2>2. CASE ~Clean(y, Z)
    <3>1. /\ y.rdy /\ y.pos = i - 1 /\ y.pos < CapsuleLen
          /\ (i > 1 /\ y.whole => \A j \in 1 .. i - 1 : bytes[j].of = y.part)
      BY <2>2 DEF SoFar, LeftOver
    <3>2. ASSUME Fits(y, b) PROVE \A j \in 1 .. i : bytes[j].of = b.of
      <4>1. CASE i = 1
        BY <4>1 DEF b
      <4>2. CASE i > 1
        <5>1. y.whole /\ b.of = y.part
          BY <3>1, <3>2, <4>2 DEF Fits
        <5> QED BY <3>1, <4>2, <5>1 DEF b
      <4> QED BY <4>1, <4>2
    <3>3. EndsWhole(y, b) => b.of.first
      <4> SUFFICES ASSUME EndsWhole(y, b) PROVE b.of.first
        OBVIOUS
      <4>1. i = CapsuleLen /\ Fits(y, b)
        BY <1>1, <3>1 DEF EndsWhole
      <4>2. PICK j \in 1 .. CapsuleLen : bytes[j].of.first
        BY <2>2
      <4>3. bytes[j].of = b.of
        BY <3>2, <4>1
      <4> QED BY <4>2, <4>3
    <3>4. ByteIsGood(o, y, b, Z)
      BY <1>1, <1>3, <3>3, <1>0, SpreadByteIsGood
    <3>5. Clean(o.h, Z) \/ LeftOver(o.h, bytes, i)
      <4>1. CASE ~o.h.rdy /\ o.h.pos = 0
        BY <4>1 DEF Clean
      <4>2. CASE y.pos < CapsuleLen - 1 /\ o.h = Store(y, b)
        <5>0. /\ o.h.rdy = y.rdy /\ o.h.pos = y.pos + 1 /\ o.h.whole = Fits(y, b)
              /\ o.h.part = IF y.pos = 0 THEN b.of ELSE y.part
          BY <1>b, <4>2, Zenon
        <5>1. /\ o.h.rdy /\ o.h.pos = i /\ o.h.pos < CapsuleLen
              /\ o.h.whole = Fits(y, b)
              /\ o.h.part = IF y.pos = 0 THEN b.of ELSE y.part
          BY <1>1, <3>1, <4>2, <5>0
        <5>2. Fits(y, b) => b.of = o.h.part
          BY <1>1, <5>1 DEF Fits
        <5> QED BY <3>2, <5>1, <5>2 DEF LeftOver
      <4>3. CASE o.h.prev = b.of /\ o.h.pos = 0
        BY <1>1, <4>3 DEF Clean
      <4>4. \/ ~o.h.rdy /\ o.h.pos = 0
            \/ y.pos < CapsuleLen - 1 /\ o.h = Store(y, b)
            \/ o.h.prev = b.of /\ o.h.pos = 0
        BY <3>4 DEF ByteIsGood
      <4> QED BY <4>1, <4>2, <4>3, <4>4
    <3>6. o.h \in Handlers /\ o.out \in Seq(Nodes(Z)) /\ (o.h.pos > 0 => o.h.part.scan \in Z)
      BY <3>4 DEF ByteIsGood
    <3> QED BY <1>3, <2>2, <3>5, <3>6 DEF SoFar, AfterByte
  <2> QED BY <2>1, <2>2
<1> QED BY <1>2, <1>3

\* A handler can start on these bytes.
Readable(k, x, bytes, Z) ==
  \/ Clean(x, Z)
  \/ /\ k \in Spread /\ x.pos = 0 /\ Len(bytes) = CapsuleLen
     /\ \E j \in 1 .. CapsuleLen : bytes[j].of.first

\* What has become of it at the end.
AfterRead(k, x, r, Z) ==
  /\ r.h \in Handlers /\ Clean(r.h, Z) /\ r.holder \in Holders(Z)
  /\ k \notin Spread => r.h.rdy = x.rdy

(* A handler that reads a message of this scan has then nothing of another *)
(* one, and has published nothing of it, if the message is the first since *)
(* a reset and has a byte of the first capsule.                            *)
LEMMA ReadIsClean ==
  ASSUME DecoderAssumption, NEW Z \in SUBSET Int, NEW k, NEW x \in Handlers,
         NEW H \in Holders(Z), NEW bytes \in Seq(Bytes(Z)), Readable(k, x, bytes, Z)
  PROVE  AfterRead(k, x, Read(k, x, H, bytes)[Len(bytes)], Z)
<1> DEFINE n == Len(bytes)
           d == Read(k, x, H, bytes)
           FineSoFar(s, i) ==
             /\ s.h \in Handlers /\ s.holder \in Holders(Z) /\ SoFar(k, s.h, Z, bytes, i)
             /\ Clean(s.h, Z) \/ (n = CapsuleLen /\ \E j \in 1 .. CapsuleLen : bytes[j].of.first)
             /\ k \notin Spread => s.h.rdy = x.rdy
           I == {i \in 0 .. n : FineSoFar(d[i], i)}
<1>1. /\ n \in Nat /\ \A i \in 1 .. n : bytes[i] \in Bytes(Z)
      /\ CapsuleLen \in Nat /\ CapsuleLen >= 3 /\ x.pos \in Nat
  BY LenProperties, ElementOfSeq DEF DecoderAssumption, Handlers
<1>2. /\ d[0] = [h |-> x, holder |-> H]
      /\ \A i \in 1 .. n :
           d[i] = [h |-> OnData(k, d[i - 1].h, bytes[i]).h,
                   holder |-> Publish(d[i - 1].holder, OnData(k, d[i - 1].h, bytes[i]))]
  <2>1. x \in Handlers /\ H \in Holders(Int)
    BY OfSomeScan
  <2>2. bytes \in Seq(Bytes(Int))
    <3>1. bytes \in [1 .. n -> Bytes(Int)]
      BY <1>1, LenProperties, OfSomeScan
    <3> QED BY <1>1, <3>1, ListIsSequence
  <2>3. ReadSteps(k, x, H, bytes)
    BY <2>1, <2>2, ReadGoesOn
  <2> QED BY <2>3 DEF ReadSteps
<1> DEFINE r == d[n]
<1>3. r = d[n] /\ r = Read(k, x, H, bytes)[Len(bytes)]
  OBVIOUS
<1> HIDE DEF d, n, r
<1>4. FineSoFar(d[0], 0)
  <2>1. d[0].h = x /\ d[0].holder = H
    BY <1>2
  <2>2. CASE Clean(x, Z)
    BY <2>1, <2>2 DEF Clean, SoFar
  <2>3. CASE ~Clean(x, Z)
    <3>1. /\ x.pos = 0 /\ x.rdy /\ k \in Spread /\ n = CapsuleLen
          /\ \E j \in 1 .. CapsuleLen : bytes[j].of.first
      BY <2>3 DEF Clean, n, Readable
    <3>2. LeftOver(x, bytes, 0)
      BY <1>1, <3>1 DEF LeftOver
    <3> QED BY <2>1, <3>1, <3>2 DEF SoFar
  <2> QED BY <2>2, <2>3
<1>5. ASSUME NEW i \in 1 .. n, FineSoFar(d[i - 1], i - 1) PROVE FineSoFar(d[i], i)
  <2> DEFINE y == d[i - 1].h
             o == OnData(k, y, bytes[i])
  <2>1. y \in Handlers /\ d[i - 1].holder \in Holders(Z) /\ SoFar(k, y, Z, bytes, i - 1)
    BY <1>5
  <2>2. /\ Clean(y, Z) \/ (n = CapsuleLen /\ \E j \in 1 .. CapsuleLen : bytes[j].of.first)
        /\ k \notin Spread => y.rdy = x.rdy
    BY <1>5
  <2>3. i \in Nat \ {0} /\ bytes[i] \in Bytes(Z)
    BY <1>1
  <2>4. d[i].h = o.h /\ d[i].holder = Publish(d[i - 1].holder, o)
    <3>1. d[i] = [h |-> o.h, holder |-> Publish(d[i - 1].holder, o)]
      BY <1>2
    <3> HIDE DEF o
    <3> QED BY <3>1
  <2> HIDE DEF y, o
  <2>5. /\ o.h \in Handlers /\ o.out \in Seq(Nodes(Z)) /\ SoFar(k, o.h, Z, bytes, i)
        /\ Clean(y, Z) => Clean(o.h, Z)
        /\ k \notin Spread => o.h.rdy = y.rdy
    <3>1. Clean(y, Z) \/ \E j \in 1 .. CapsuleLen : bytes[j].of.first
      BY <2>2
    <3>2. AfterByte(k, y, OnData(k, y, bytes[i]), Z, bytes, i)
      BY <2>1, <2>3, <3>1, NextByteIsClean
    <3> QED BY <3>2 DEF AfterByte, o
  <2>6. Clean(o.h, Z) \/ (n = CapsuleLen /\ \E j \in 1 .. CapsuleLen : bytes[j].of.first)
    BY <2>2, <2>5
  <2>7. d[i].holder \in Holders(Z)
    BY <2>1, <2>4, <2>5, PublishIsKept
  <2> QED BY <2>2, <2>4, <2>5, <2>6, <2>7
<1> HIDE DEF FineSoFar
<1>6. 0 \in I
  BY <1>1, <1>4
<1>7. ASSUME NEW i \in 1 .. n, i - 1 \in I PROVE i \in I
  BY <1>1, <1>5, <1>7
<1> HIDE DEF I
<1>8. \A i \in 0 .. n : i \in I
  BY <1>1, <1>6, <1>7, CountsUp
<1>9. FineSoFar(r, n)
  <2>1. n \in I
    BY <1>1, <1>8
  <2> QED BY <1>3, <2>1 DEF I
<1>10. Clean(r.h, Z)
  <2>1. SoFar(k, r.h, Z, bytes, n) /\ (Clean(r.h, Z) \/ n = CapsuleLen)
    BY <1>9 DEF FineSoFar
  <2> QED BY <1>1, <2>1 DEF SoFar, LeftOver
<1>11. AfterRead(k, x, r, Z)
  BY <1>9, <1>10 DEF FineSoFar, AfterRead
<1> QED BY <1>3, <1>11

-----------------------------------------------------------------------------
(* The invariant.                                                          *)
Dense == {"dense", "ultradense"}

CodecStates == {"sync1", "sync2", "size", "type", "swallow", "payload"}
Codecs(Z) == [state : CodecStates, rx : Seq(Bytes(Z))]

Devices == [state : {"idle", "header", "scan"}, at : Nat, cap : Capsules, halt : BOOLEAN]

StreamTypes ==
  /\ kind \in Kinds /\ dev \in Devices /\ (dev.state = "header" => dev.at < HeaderLen)
  /\ codec \in Codecs(Int)
  /\ unp \in [enabled : BOOLEAN, active : BOOLEAN]
  /\ h \in Handlers /\ holder \in Holders({scan})
  /\ scan \in Nat /\ noise \in Nat /\ noise <= MaxNoise

\* What is sent is of the scan that was started last.
SentIsOfScan == /\ dev.state # "idle" => dev.cap.scan = scan
                /\ dev.state = "idle" => ~dev.halt

\* A handler that was reset has no bytes, and only the dense ones keep a capsule; one
\* at work has nothing of an earlier scan.
HandlerSound ==
  /\ ~unp.active => h.pos = 0 /\ (h.rdy => kind \in Dense)
  /\ kind \notin Spread => ~h.rdy
  /\ unp.active => unp.enabled /\ Clean(h, {scan})

\* While samples are wanted the codec is in step with the device: it has found the
\* descriptor, and has only bytes of this scan.
CodecInStep ==
  /\ ~dev.halt /\ dev.state \in {"header", "scan"}
  /\ codec \in Codecs({scan})
  /\ dev.state = "header" =>
       /\ codec.rx = << >> /\ ~unp.active /\ dev.cap.first
       /\ codec.state = CASE dev.at = 0 -> "sync1" [] dev.at = 1 -> "sync2"
                          [] dev.at = 2 -> "size" [] OTHER -> "type"
  /\ dev.state = "scan" => codec.state = "payload"

\* A dense handler that still has a capsule of an earlier scan will see a byte of the
\* first capsule of this one, unless all its bytes were lost.
FirstIsSeen ==
  ~unp.active /\ h.rdy /\ dev.state = "scan" =>
    \/ \E j \in 1 .. Len(codec.rx) : codec.rx[j].of.first
    \/ noise >= IF dev.cap.first THEN dev.at ELSE CapsuleLen

StreamSound == unp.enabled => CodecInStep /\ FirstIsSeen

StreamInv == StreamTypes /\ SentIsOfScan /\ HandlerSound /\ StreamSound

\* Less than a capsule is lost or damaged.  A dense handler keeps its last capsule over a
\* reset and forgets it with the first capsule of a scan; were all bytes of that one lost,
\* it would spread samples between capsules of two scans.
FewLost == MaxNoise < CapsuleLen \/ Kinds \cap Dense = {}

\* So not all bytes of that capsule have been.
SomeArrived == noise < CapsuleLen \/ kind \notin Dense

\* They did if fewer bytes were hit than a capsule has.
LEMMA FewAreNotAll ==
  ASSUME FewLost, StreamTypes, DecoderAssumption, StreamAssumption
  PROVE  SomeArrived
<1>1. MaxNoise \in Nat /\ CapsuleLen \in Nat /\ noise \in Nat /\ noise <= MaxNoise /\ kind \in Kinds
  BY DEF StreamTypes, DecoderAssumption, StreamAssumption
<1> QED BY <1>1 DEF FewLost, SomeArrived

\* The device goes on to a capsule of the same scan.
LEMMA NextCapsuleIsCapsule ==
  ASSUME DecoderAssumption, NEW c \in Capsules
  PROVE  /\ NextCapsule(c) \in Capsules /\ NextCapsule(c).scan = c.scan /\ ~NextCapsule(c).first
         /\ NextCapsule(c).serial = (c.serial + 1) % Serials
<1>1. Turn \in Nat \ {0} /\ c.start + Step \in Int /\ c.serial + 1 \in Int /\ Serials \in Nat \ {0}
  BY DEF DecoderAssumption, Capsules, Serials
<1>2. (c.start + Step) % Turn \in Int /\ (c.serial + 1) % Serials \in Int
  BY <1>1, RemainderIsInt
<1> DEFINE a == (c.start + Step) % Turn
           s == (c.serial + 1) % Serials
           w == FALSE
<1>3. NextCapsule(c) = [c EXCEPT !.start = a, !.first = w, !.serial = s]
  BY DEF NextCapsule
<1>4. w \in BOOLEAN /\ ~w
  OBVIOUS
<1> HIDE DEF a, s, w
<1>5. a \in Int /\ s \in Int
  BY <1>2 DEF a, s
<1>6. [c EXCEPT !.start = a, !.first = w, !.serial = s] \in Capsules
  BY <1>4, <1>5 DEF Capsules
<1>7. [c EXCEPT !.start = a, !.first = w, !.serial = s].scan = c.scan
  BY DEF Capsules
<1>8. [c EXCEPT !.start = a, !.first = w, !.serial = s].first = w
  BY DEF Capsules
<1>9. [c EXCEPT !.start = a, !.first = w, !.serial = s].serial = s
  BY DEF Capsules
<1> QED BY <1>3, <1>4, <1>6, <1>7, <1>8, <1>9 DEF s

\* The device goes on by a byte.
LEMMA AdvanceIsSound ==
  ASSUME DecoderAssumption, dev \in Devices, dev.state \in {"header", "scan"},
         dev.state = "header" => dev.at < HeaderLen, Advance
  PROVE  /\ dev' \in Devices /\ dev'.halt = dev.halt /\ dev'.cap.scan = dev.cap.scan
         /\ dev.state = "header" =>
              /\ dev'.cap = dev.cap
              /\ \/ dev.at < HeaderLen - 1 /\ dev'.state = "header" /\ dev'.at = dev.at + 1
                 \/ dev.at = HeaderLen - 1 /\ dev'.state = "scan" /\ dev'.at = 0
         /\ dev.state = "scan" =>
              /\ dev'.state = "scan"
              /\ \/ dev'.cap = dev.cap /\ dev'.at = dev.at + 1 /\ dev.at # CapsuleLen - 1
                 \/ /\ ~dev'.cap.first /\ dev.at = CapsuleLen - 1
                    /\ dev'.cap = NextCapsule(dev.cap) /\ dev'.at = 0
<1>1. /\ dev.at \in Nat /\ dev.cap \in Capsules /\ dev.halt \in BOOLEAN
      /\ dev = [state |-> dev.state, at |-> dev.at, cap |-> dev.cap, halt |-> dev.halt]
      /\ CapsuleLen \in Nat /\ CapsuleLen >= 3 /\ HeaderLen = 4
  BY DEF Devices, DecoderAssumption, HeaderLen
<1>2. /\ NextCapsule(dev.cap) \in Capsules /\ NextCapsule(dev.cap).scan = dev.cap.scan
      /\ ~NextCapsule(dev.cap).first
  BY <1>1, NextCapsuleIsCapsule
<1> DEFINE c == NextCapsule(dev.cap)
<1>3. \/ /\ dev.state = "header" /\ dev.at = HeaderLen - 1
         /\ dev' = [dev EXCEPT !.state = "scan", !.at = 0]
      \/ /\ dev.state = "scan" /\ dev.at = CapsuleLen - 1
         /\ dev' = [dev EXCEPT !.at = 0, !.cap = c]
      \/ /\ ~(dev.state = "header" /\ dev.at = HeaderLen - 1)
         /\ ~(dev.state = "scan" /\ dev.at = CapsuleLen - 1)
         /\ dev' = [dev EXCEPT !.at = dev.at + 1]
  BY DEF Advance
<1> HIDE DEF c
<1>4. CASE /\ dev.state = "header" /\ dev.at = HeaderLen - 1
           /\ dev' = [dev EXCEPT !.state = "scan", !.at = 0]
  <2>1. dev' = [state |-> "scan", at |-> 0, cap |-> dev.cap, halt |-> dev.halt]
    BY <1>1, <1>4
  <2> QED BY <1>1, <1>4, <2>1 DEF Devices
<1>5. CASE /\ dev.state = "scan" /\ dev.at = CapsuleLen - 1
           /\ dev' = [dev EXCEPT !.at = 0, !.cap = c]
  <2>1. dev' = [state |-> "scan", at |-> 0, cap |-> c, halt |-> dev.halt]
    BY <1>1, <1>5
  <2> QED BY <1>1, <1>2, <1>5, <2>1 DEF Devices, c
<1>6. CASE /\ ~(dev.state = "header" /\ dev.at = HeaderLen - 1)
           /\ ~(dev.state = "scan" /\ dev.at = CapsuleLen - 1)
           /\ dev' = [dev EXCEPT !.at = dev.at + 1]
  <2>1. dev' = [state |-> dev.state, at |-> dev.at + 1, cap |-> dev.cap, halt |-> dev.halt]
    BY <1>1, <1>6
  <2> QED BY <1>1, <1>6, <2>1 DEF Devices
<1> QED BY <1>3, <1>4, <1>5, <1>6

\* The codec has the bytes it had and perhaps the new one.
LEMMA CodecIsKept ==
  ASSUME NEW Z, codec \in Codecs(Z), NEW b \in Bytes(Z), OnDecodeData(b)
  PROVE  codec' \in Codecs(Z)
<1>1. /\ codec.state \in CodecStates /\ codec.rx \in Seq(Bytes(Z))
      /\ codec = [state |-> codec.state, rx |-> codec.rx]
  BY DEF Codecs
<1>2. Append(codec.rx, b) \in Seq(Bytes(Z)) /\ << >> \in Seq(Bytes(Z))
  BY <1>1, AppendProperties, EmptySeq
<1>3. CASE codec.state = "payload"
  <2>1. \E msg \in Seq(Bytes(Z)) : codec' = [codec EXCEPT !.rx = msg]
    BY <1>2, <1>3 DEF OnDecodeData, DecodePayload
  <2>2. \E msg \in Seq(Bytes(Z)) : codec' = [state |-> codec.state, rx |-> msg]
    BY <1>1, <2>1
  <2> QED BY <1>1, <2>2 DEF Codecs
<1>4. CASE codec.state # "payload"
  <2>1. PICK exact \in BOOLEAN, endless \in BOOLEAN : DecodeHeader(b, exact, endless)
    BY <1>4 DEF OnDecodeData
  <2>2. \E s \in CodecStates : codec' = [codec EXCEPT !.state = s]
    BY <1>1, <1>4, <2>1 DEF DecodeHeader, CodecStates
  <2>3. \E s \in CodecStates : codec' = [state |-> s, rx |-> codec.rx]
    BY <1>1, <2>2
  <2> QED BY <1>1, <2>3 DEF Codecs
<1> QED BY <1>3, <1>4

\* A byte that is not wanted, or is not the last of a message, changes the codec only.
LEMMA NothingDelivered ==
  ASSUME NEW b, OnDecodeData(b), DecoderAssumption,
         ~unp.enabled \/ codec.state # "payload" \/ Len(Append(codec.rx, b)) # CapsuleLen
  PROVE  UNCHANGED <<h, holder, unp>>
BY DEF OnDecodeData, DecodePayload, DecodeHeader, OnSampleData

\* A byte of the header finds the codec at the same place.
LEMMA HeaderIsSound ==
  ASSUME StreamInv, DecoderAssumption, SendHeader
  PROVE  StreamInv'
<1> DEFINE b == [of |-> Header, place |-> dev.at, shows |-> HeaderPattern(dev.at), ok |-> TRUE]
<1>1. /\ dev \in Devices /\ dev.state = "header" /\ dev.at < HeaderLen /\ dev.at \in Nat
      /\ Advance /\ OnDecodeData(b) /\ HeaderLen = 4
      /\ UNCHANGED <<kind, reader, scan, noise, alike, unheard>>
  BY DEF StreamInv, StreamTypes, SendHeader, Devices, HeaderLen
<1>2. /\ dev' \in Devices /\ dev'.halt = dev.halt /\ dev'.cap = dev.cap
      /\ \/ dev.at < 3 /\ dev'.state = "header" /\ dev'.at = dev.at + 1
         \/ dev.at = 3 /\ dev'.state = "scan" /\ dev'.at = 0
  BY <1>1, AdvanceIsSound
<1>3. unp.enabled => codec.state # "payload"
  <2> SUFFICES ASSUME unp.enabled PROVE codec.state # "payload"
    OBVIOUS
  <2>1. codec.state = CASE dev.at = 0 -> "sync1" [] dev.at = 1 -> "sync2"
                          [] dev.at = 2 -> "size" [] OTHER -> "type"
    BY <1>1 DEF StreamInv, StreamSound, CodecInStep
  <2> QED BY <1>1, <2>1
<1>4. UNCHANGED <<h, holder, unp>>
  <2> HIDE DEF b
  <2> QED BY <1>1, <1>3, NothingDelivered
<1>b. \A Z : 0 \in Z => b \in Bytes(Z)
  <2> DEFINE w == FALSE
  <2>1. w \in BOOLEAN /\ NoCapsule = [start |-> 0, first |-> w, serial |-> 0, scan |-> 0]
    BY DEF NoCapsule
  <2> HIDE DEF w
  <2>2. Header = [start |-> 0, first |-> w, serial |-> 4, scan |-> 0]
    BY <2>1 DEF Header, Serials
  <2>3. Header \in Capsules /\ Header.scan = 0
    BY <2>1, <2>2 DEF Capsules
  <2>4. HeaderPattern(dev.at) \in Patterns
    BY DEF HeaderPattern, Patterns
  <2> QED BY <1>1, <2>3, <2>4 DEF Bytes
<1>c. codec' \in Codecs(Int)
  <2> HIDE DEF b
  <2> QED BY <1>1, <1>b, CodecIsKept DEF StreamInv, StreamTypes
<1>5. StreamTypes'
  BY <1>1, <1>2, <1>4, <1>c DEF StreamInv, StreamTypes
<1>6. SentIsOfScan' /\ HandlerSound'
  BY <1>1, <1>2, <1>4 DEF StreamInv, SentIsOfScan, HandlerSound
<1>7. ASSUME unp.enabled PROVE CodecInStep' /\ FirstIsSeen'
  <2>1. /\ ~dev.halt /\ codec.rx = << >> /\ ~unp.active /\ dev.cap.first
        /\ codec \in Codecs({scan})
        /\ codec.state = CASE dev.at = 0 -> "sync1" [] dev.at = 1 -> "sync2"
                           [] dev.at = 2 -> "size" [] OTHER -> "type"
    BY <1>1, <1>7 DEF StreamInv, StreamSound, CodecInStep
  <2>2. PICK exact \in BOOLEAN, endless \in BOOLEAN :
          (b.of = Header => exact) /\ DecodeHeader(b, exact, endless)
    BY <1>1, <1>3, <1>7 DEF OnDecodeData
  <2>3. exact /\ b.of = Header /\ b.shows = HeaderPattern(dev.at)
    BY <2>2
  <2>4. DecodeHeader(b, exact, endless)
    BY <2>2
  <2> HIDE DEF b
  <2>5. /\ dev.at = 0 => codec' = [codec EXCEPT !.state = "sync2"]
        /\ dev.at = 1 => codec' = [codec EXCEPT !.state = "size"]
        /\ dev.at = 2 => codec' = [codec EXCEPT !.state = "type"]
        /\ dev.at = 3 => codec' = [codec EXCEPT !.state = "payload"]
    <3>1. dev.at = 0 => codec' = [codec EXCEPT !.state = "sync2"]
      BY <2>1, <2>3, <2>4 DEF DecodeHeader, HeaderPattern
    <3>2. dev.at = 1 => codec' = [codec EXCEPT !.state = "size"]
      BY <2>1, <2>3, <2>4 DEF DecodeHeader, HeaderPattern
    <3>3. dev.at = 2 => codec' = [codec EXCEPT !.state = "type"]
      BY <2>1, <2>3, <2>4 DEF DecodeHeader
    <3>4. dev.at = 3 => codec' = [codec EXCEPT !.state = "payload"]
      BY <2>1, <2>4 DEF DecodeHeader
    <3> QED BY <3>1, <3>2, <3>3, <3>4
  <2>6. codec = [state |-> codec.state, rx |-> << >>] /\ << >> \in Seq(Bytes({scan}))
    BY <2>1 DEF Codecs
  <2>7. /\ dev.at = 0 => codec' = [state |-> "sync2", rx |-> << >>]
        /\ dev.at = 1 => codec' = [state |-> "size", rx |-> << >>]
        /\ dev.at = 2 => codec' = [state |-> "type", rx |-> << >>]
        /\ dev.at = 3 => codec' = [state |-> "payload", rx |-> << >>]
    BY <2>5, <2>6
  <2>8. codec' \in Codecs({scan}) /\ codec'.rx = << >>
    <3>1. dev.at \in {0, 1, 2, 3}
      BY <1>1
    <3>2. \E s \in CodecStates : codec' = [state |-> s, rx |-> << >>]
      BY <2>7, <3>1 DEF CodecStates
    <3> QED BY <2>6, <3>2 DEF Codecs
  <2>9. CodecInStep'
    <3>1. /\ ~dev'.halt /\ dev'.state \in {"header", "scan"} /\ codec' \in Codecs({scan'})
      BY <1>1, <1>2, <1>4, <2>1, <2>8
    <3>2. dev'.state = "header" => /\ codec'.rx = << >> /\ ~unp'.active /\ dev'.cap.first
      BY <1>1, <1>2, <1>4, <2>1, <2>8
    <3>3. dev'.state = "header" =>
            codec'.state = CASE dev'.at = 0 -> "sync1" [] dev'.at = 1 -> "sync2"
                             [] dev'.at = 2 -> "size" [] OTHER -> "type"
      BY <1>1, <1>2, <2>7
    <3>4. dev'.state = "scan" => codec'.state = "payload"
      BY <1>1, <1>2, <2>7
    <3> QED BY <3>1, <3>2, <3>3, <3>4 DEF CodecInStep
  <2>10. FirstIsSeen'
    BY <1>1, <1>2, <1>4, <1>5, <2>1 DEF FirstIsSeen, StreamTypes
  <2> QED BY <2>9, <2>10
<1> QED BY <1>4, <1>5, <1>6, <1>7 DEF StreamInv, StreamSound

\* The first message that a handler gets in a scan has a byte of the first capsule.
LEMMA FirstIsThere ==
  ASSUME DecoderAssumption, StreamTypes, NEW b, b.of = dev.cap, FirstIsSeen,
         codec.rx \in Seq(Bytes({scan})), b \in Bytes({scan}), ~unp.active, h.rdy,
         dev.state = "scan"
  PROVE  \/ \E j \in 1 .. Len(Append(codec.rx, b)) : Append(codec.rx, b)[j].of.first
         \/ ~dev.cap.first /\ noise >= CapsuleLen
<1> DEFINE msg == Append(codec.rx, b)
<1>1. /\ Len(codec.rx) \in Nat /\ Len(msg) = Len(codec.rx) + 1
      /\ \A j \in 1 .. Len(codec.rx) : msg[j] = codec.rx[j]
      /\ msg[Len(codec.rx) + 1] = b
  BY AppendProperties, LenProperties
<1> HIDE DEF msg
<1>2. CASE \E j \in 1 .. Len(codec.rx) : codec.rx[j].of.first
  <2>1. PICK j \in 1 .. Len(codec.rx) : codec.rx[j].of.first
    BY <1>2
  <2>2. j \in 1 .. Len(msg) /\ msg[j].of.first
    BY <1>1, <2>1
  <2> QED BY <2>2 DEF msg
<1>3. CASE dev.cap.first
  <2>1. Len(msg) \in 1 .. Len(msg) /\ msg[Len(msg)].of.first
    BY <1>1, <1>3
  <2> QED BY <2>1 DEF msg
<1> QED BY <1>2, <1>3 DEF FirstIsSeen

\* A byte of a capsule, damaged or not.
LEMMA CapsuleIsSound ==
  ASSUME StreamInv, SomeArrived, DecoderAssumption, dev.state = "scan", Advance,
         NEW b \in [of : {dev.cap}, place : {dev.at}, shows : Patterns, ok : BOOLEAN],
         OnDecodeData(b), kind' = kind, scan' = scan,
         noise' \in Nat, noise' >= noise, noise' <= MaxNoise
  PROVE  StreamInv'
<1> DEFINE msg == Append(codec.rx, b)
<1>1. /\ StreamTypes /\ dev \in Devices /\ dev.at \in Nat /\ dev.cap.scan = scan
      /\ dev.cap \in Capsules /\ scan \in Int /\ noise \in Nat
  BY DEF StreamInv, StreamTypes, SentIsOfScan, Devices
<1>2. /\ dev' \in Devices /\ dev'.halt = dev.halt /\ dev'.cap.scan = scan
      /\ dev'.state = "scan"
      /\ \/ dev'.cap = dev.cap /\ dev'.at = dev.at + 1
         \/ ~dev'.cap.first
  BY <1>1, AdvanceIsSound
<1>3. b \in Bytes({scan}) /\ b.of = dev.cap
  BY <1>1 DEF Bytes
<1>4. b \in Bytes(Int)
  BY <1>1, <1>3, OfSomeScan
<1>5. codec' \in Codecs(Int)
  BY <1>4, CodecIsKept DEF StreamInv, StreamTypes
<1>6. SentIsOfScan'
  BY <1>2 DEF SentIsOfScan
<1>7. ASSUME unp.enabled
      PROVE  /\ CodecInStep /\ FirstIsSeen /\ codec.state = "payload"
             /\ codec \in Codecs({scan}) /\ codec.rx \in Seq(Bytes({scan}))
             /\ codec' \in Codecs({scan}) /\ DecodePayload(b)
  <2>1. CodecInStep /\ FirstIsSeen /\ codec.state = "payload" /\ codec \in Codecs({scan})
    BY <1>7 DEF StreamInv, StreamSound, CodecInStep
  <2>2. codec' \in Codecs({scan})
    BY <1>3, <2>1, CodecIsKept
  <2> QED BY <2>1, <2>2 DEF Codecs, OnDecodeData
<1>8. CASE ~unp.enabled \/ Len(msg) # CapsuleLen
  <2>1. UNCHANGED <<h, holder, unp>>
    BY <1>8, NothingDelivered
  <2>2. StreamTypes'
    BY <1>1, <1>2, <1>5, <2>1 DEF StreamTypes
  <2>3. HandlerSound'
    BY <2>1 DEF StreamInv, HandlerSound
  <2>4. ASSUME unp.enabled PROVE CodecInStep' /\ FirstIsSeen'
    <3>1. codec'.state = "payload" /\ codec'.rx = msg
      BY <1>7, <1>8, <2>4 DEF DecodePayload, Codecs
    <3>2. CodecInStep'
      BY <1>2, <1>7, <2>4, <3>1 DEF CodecInStep
    <3>3. FirstIsSeen'
      <4> SUFFICES ASSUME ~unp.active, h.rdy
                   PROVE  \/ \E j \in 1 .. Len(msg) : msg[j].of.first
                          \/ noise' >= IF dev'.cap.first THEN dev'.at ELSE CapsuleLen
        BY <2>1, <3>1 DEF FirstIsSeen
      <4>1. (\E j \in 1 .. Len(msg) : msg[j].of.first) \/ (~dev.cap.first /\ noise >= CapsuleLen)
        BY <1>1, <1>3, <1>7, <2>4, FirstIsThere
      <4> HIDE DEF msg
      <4> QED BY <1>1, <1>2, <4>1 DEF DecoderAssumption
    <3> QED BY <3>2, <3>3
  <2> QED BY <1>6, <2>1, <2>2, <2>3, <2>4 DEF StreamInv, StreamSound
<1>9. CASE unp.enabled /\ Len(msg) = CapsuleLen
  <2>1. msg \in Seq(Bytes({scan}))
    BY <1>3, <1>7, <1>9, AppendProperties
  <2>2. Deliver(msg) /\ codec' = [codec EXCEPT !.rx = << >>]
    BY <1>7, <1>9 DEF DecodePayload, OnSampleData
  <2>3. /\ h \in Handlers /\ holder \in Holders({scan})
        /\ unp \in [enabled : BOOLEAN, active : BOOLEAN]
    BY <1>1 DEF StreamTypes
  <2>4. Readable(kind, h, msg, {scan})
    <3>1. CASE unp.active
      BY <3>1 DEF StreamInv, HandlerSound, Readable
    <3>2. CASE ~unp.active /\ ~h.rdy
      BY <3>2 DEF StreamInv, HandlerSound, Clean, Readable
    <3>3. CASE ~unp.active /\ h.rdy
      <4>1. h.pos = 0 /\ kind \in Dense
        BY <3>3 DEF StreamInv, HandlerSound
      <4>2. ~(noise >= CapsuleLen)
        BY <1>1, <4>1 DEF SomeArrived, DecoderAssumption
      <4>3. \E j \in 1 .. Len(msg) : msg[j].of.first
        BY <1>1, <1>3, <1>7, <1>9, <3>3, <4>2, FirstIsThere
      <4> QED BY <1>9, <4>1, <4>3 DEF Dense, Spread, Readable
    <3> QED BY <3>1, <3>2, <3>3
  <2> HIDE DEF msg
  <2>5. /\ h' = Read(kind, h, holder, msg)[Len(msg)].h
        /\ holder' = Read(kind, h, holder, msg)[Len(msg)].holder
        /\ unp' = [unp EXCEPT !.active = TRUE]
    BY <2>2, DeliverIsRead
  <2>6. {scan} \in SUBSET Int
    BY <1>1
  <2>7. /\ h' \in Handlers /\ Clean(h', {scan}) /\ holder' \in Holders({scan})
        /\ (kind \notin Spread => h'.rdy = h.rdy)
    <3>1. AfterRead(kind, h, Read(kind, h, holder, msg)[Len(msg)], {scan})
      BY <2>1, <2>3, <2>4, <2>6, ReadIsClean
    <3> QED BY <2>5, <3>1 DEF AfterRead
  <2>8. unp'.enabled /\ unp'.active /\ unp' \in [enabled : BOOLEAN, active : BOOLEAN]
    <3>1. unp = [enabled |-> unp.enabled, active |-> unp.active]
      BY <2>3
    <3> DEFINE w == TRUE
    <3>2. w \in BOOLEAN /\ w /\ unp' = [unp EXCEPT !.active = w]
      BY <2>5
    <3> HIDE DEF w
    <3>3. unp' \in [enabled : BOOLEAN, active : BOOLEAN]
      BY <2>3, <3>2
    <3>4. unp'.active = w /\ unp'.enabled = unp.enabled
      BY <2>3, <3>2
    <3> QED BY <1>9, <3>2, <3>3, <3>4
  <2>9. StreamTypes'
    BY <1>1, <1>2, <1>5, <2>7, <2>8 DEF StreamTypes
  <2>10. HandlerSound'
    BY <2>7, <2>8 DEF StreamInv, HandlerSound
  <2>11. CodecInStep'
    <3>1. codec'.state = "payload"
      BY <1>7, <1>9, <2>2 DEF Codecs
    <3> QED BY <1>2, <1>7, <1>9, <3>1 DEF CodecInStep
  <2>12. FirstIsSeen'
    BY <2>8 DEF FirstIsSeen
  <2> QED BY <1>6, <2>9, <2>10, <2>11, <2>12 DEF StreamInv, StreamSound
<1> QED BY <1>8, <1>9

\* A byte is lost on the way.
LEMMA LostIsSound ==
  ASSUME StreamInv, DecoderAssumption, LoseByte, StreamAssumption
  PROVE  StreamInv'
<1>1. /\ StreamTypes /\ dev \in Devices /\ dev.at \in Nat /\ dev.state = "scan" /\ Advance
      /\ noise \in Nat /\ noise' = noise + 1 /\ noise' <= MaxNoise /\ CapsuleLen \in Nat
      /\ UNCHANGED <<kind, codec, unp, h, holder, scan>> /\ MaxNoise \in Nat
  BY DEF StreamInv, StreamTypes, Devices, LoseByte, StreamAssumption, DecoderAssumption
<1>2. /\ dev' \in Devices /\ dev'.halt = dev.halt /\ dev'.cap.scan = dev.cap.scan
      /\ dev'.state = "scan"
      /\ \/ dev'.cap = dev.cap /\ dev'.at = dev.at + 1
         \/ ~dev'.cap.first /\ dev.at = CapsuleLen - 1
  BY <1>1, AdvanceIsSound
<1>3. StreamTypes'
  BY <1>1, <1>2 DEF StreamTypes
<1>4. SentIsOfScan' /\ HandlerSound'
  BY <1>1, <1>2 DEF StreamInv, SentIsOfScan, HandlerSound
<1>5. ASSUME unp.enabled PROVE CodecInStep' /\ FirstIsSeen'
  <2>1. CodecInStep /\ FirstIsSeen
    BY <1>5 DEF StreamInv, StreamSound
  <2>2. CodecInStep'
    BY <1>1, <1>2, <2>1 DEF CodecInStep
  <2>3. FirstIsSeen'
    <3>1. CASE dev'.cap = dev.cap /\ dev'.at = dev.at + 1
      BY <1>1, <1>2, <2>1, <3>1 DEF FirstIsSeen
    <3>2. CASE ~dev'.cap.first /\ dev.at = CapsuleLen - 1
      BY <1>1, <1>2, <2>1, <3>2 DEF FirstIsSeen
    <3> QED BY <1>2, <3>1, <3>2
  <2> QED BY <2>2, <2>3
<1> QED BY <1>1, <1>3, <1>4, <1>5 DEF StreamInv, StreamSound

\* The unpacker is reset, enabled or disabled.
LEMMA ResetIsSound ==
  ASSUME StreamTypes, HandlerSound, NEW e \in BOOLEAN, ResetUnpacker(e), kind' = kind
  PROVE  /\ h' \in Handlers /\ HandlerSound' /\ unp'.enabled = e /\ ~unp'.active
         /\ unp' \in [enabled : BOOLEAN, active : BOOLEAN]
<1> DEFINE w == FALSE
<1>1. w \in BOOLEAN /\ ~w /\ unp' = [enabled |-> e, active |-> w]
  BY DEF ResetUnpacker
<1> HIDE DEF w
<1>2. unp'.enabled = e /\ ~unp'.active /\ unp' \in [enabled : BOOLEAN, active : BOOLEAN]
  BY <1>1
<1>3. h \in Handlers /\ (kind \notin Spread => ~h.rdy)
  BY DEF StreamTypes, HandlerSound
<1>4. h' \in Handlers /\ h'.pos = 0 /\ (h'.rdy => h.rdy /\ kind \in Dense)
  <2>1. CASE ~unp.active
    BY <1>3, <2>1 DEF ResetUnpacker, HandlerSound
  <2>2. CASE unp.active
    <3>1. h' = ResetHandler(kind, h)
      BY <2>2 DEF ResetUnpacker
    <3>2. /\ Drop(h) \in Handlers /\ Drop(h).pos = 0 /\ Drop(h).rdy = h.rdy
          /\ Lost(h) \in Handlers /\ Lost(h).pos = 0 /\ Lost(h).rdy = FALSE
      BY <1>3, DropIsGood, LostIsGood
    <3>3. CASE kind = "capsule" \/ kind = "ultra"
      <4>1. h' = Lost(h)
        BY <3>1, <3>3 DEF ResetHandler, ResetCapsule, ResetUltra, Lost
      <4> QED BY <3>2, <4>1
    <3>4. CASE kind = "ultradense"
      <4> DEFINE v == FALSE
                 d == Drop(h)
      <4>1. v \in BOOLEAN /\ h' = [d EXCEPT !.last = v]
        BY <3>1, <3>4 DEF ResetHandler, ResetUltraDense
      <4>2. d \in Handlers /\ d.pos = 0 /\ d.rdy = h.rdy
        BY <3>2
      <4> HIDE DEF v, d
      <4>3. h' \in Handlers
        BY <4>1, <4>2 DEF Handlers
      <4>4. h'.pos = 0 /\ h'.rdy = h.rdy
        BY <4>1, <4>2 DEF Handlers
      <4> QED BY <3>4, <4>3, <4>4 DEF Dense
    <3>5. CASE kind \notin {"capsule", "ultra", "ultradense"}
      <4>1. h' = Drop(h)
        BY <3>1, <3>5 DEF ResetHandler, ResetDense, ResetHQ, ResetNormal
      <4>2. kind = "dense" \/ kind \notin Spread
        BY <3>5 DEF Spread
      <4> QED BY <1>3, <3>2, <4>1, <4>2 DEF Dense
    <3> QED BY <3>3, <3>4, <3>5
  <2> QED BY <2>1, <2>2
<1>5. HandlerSound'
  BY <1>2, <1>3, <1>4 DEF HandlerSound
<1> QED BY <1>2, <1>4, <1>5

\* An empty holder has nothing of any scan.
LEMMA EmptyHolderIsHolder == ASSUME NEW Z PROVE EmptyHolder \in Holders(Z)
<1> DEFINE w == FALSE
           buf == [i \in {0, 1} |-> << >>]
<1>1. w \in BOOLEAN /\ EmptyHolder = [buf |-> buf, avail |-> -1, signal |-> w]
  BY DEF EmptyHolder
<1>2. buf \in [{0, 1} -> Seq(Nodes(Z))]
  BY EmptySeq
<1> HIDE DEF w, buf
<1> QED BY <1>1, <1>2 DEF Holders

\* No capsule counts as one of scan 0.
LEMMA NoCapsuleIsCapsule == NoCapsule \in Capsules /\ NoCapsule.scan = 0
BY DEF NoCapsule, Capsules

\* A scan is stopped.
LEMMA StopIsSound ==
  ASSUME StreamInv, Stop
  PROVE  StreamInv'
<1>1. /\ StreamTypes /\ dev \in Devices /\ HandlerSound /\ ResetUnpacker(FALSE) /\ DecodeReset
      /\ UNCHANGED <<kind, holder, scan, noise>> /\ dev.state # "idle"
      /\ dev' = [dev EXCEPT !.halt = TRUE]
  BY DEF StreamInv, StreamTypes, Stop
<1>2. /\ h' \in Handlers /\ HandlerSound' /\ unp'.enabled = FALSE
      /\ unp' \in [enabled : BOOLEAN, active : BOOLEAN]
  BY <1>1, ResetIsSound
<1>3. dev' \in Devices /\ dev'.state = dev.state /\ dev'.at = dev.at /\ dev'.cap = dev.cap
  BY <1>1 DEF Devices
<1>4. codec' \in Codecs(Int)
  BY <1>1, EmptySeq DEF DecodeReset, Codecs, CodecStates
<1>5. StreamTypes' /\ SentIsOfScan'
  BY <1>1, <1>2, <1>3, <1>4 DEF StreamInv, StreamTypes, SentIsOfScan
<1> QED BY <1>2, <1>5 DEF StreamInv, StreamSound

\* The next one is started.
LEMMA StartIsSound ==
  ASSUME StreamInv, Start
  PROVE  StreamInv'
<1>1. /\ StreamTypes /\ dev \in Devices /\ HandlerSound /\ ResetUnpacker(TRUE) /\ DecodeReset
      /\ holder' = EmptyHolder /\ kind' = kind /\ noise' = noise /\ scan' = scan + 1
      /\ scan \in Nat /\ noise \in Nat
  BY DEF StreamInv, StreamTypes, Start, ResetHolder
<1>2. /\ h' \in Handlers /\ HandlerSound' /\ unp'.enabled = TRUE /\ ~unp'.active
      /\ unp' \in [enabled : BOOLEAN, active : BOOLEAN]
  BY <1>1, ResetIsSound
<1>3. PICK a \in 0 .. Step - 1 :
        dev' = [dev EXCEPT !.state = "header", !.at = 0,
                  !.cap = [start |-> a, first |-> TRUE, serial |-> 0, scan |-> scan + 1]]
  BY DEF Start
<1> DEFINE w == TRUE
           c == [start |-> a, first |-> w, serial |-> 0, scan |-> scan + 1]
<1>4. w \in BOOLEAN /\ w /\ dev' = [dev EXCEPT !.state = "header", !.at = 0, !.cap = c]
  BY <1>3
<1>5. c \in Capsules /\ c.scan = scan + 1 /\ c.first = w
  <2> HIDE DEF w
  <2> QED BY <1>1, <1>4 DEF Capsules
<1> HIDE DEF w, c
<1>6. /\ dev' \in Devices /\ dev'.state = "header" /\ dev'.at = 0 /\ dev'.cap = c
      /\ dev'.halt = dev.halt
  BY <1>1, <1>4, <1>5 DEF Devices
<1>7. codec' = [state |-> "sync1", rx |-> << >>] /\ \A Z : codec' \in Codecs(Z)
  BY <1>1, EmptySeq DEF DecodeReset, Codecs, CodecStates
<1>8. holder' \in Holders({scan + 1})
  BY <1>1, EmptyHolderIsHolder
<1>9. StreamTypes' /\ SentIsOfScan'
  <2>1. dev'.at < HeaderLen
    BY <1>6 DEF HeaderLen
  <2>2. scan' \in Nat /\ noise' \in Nat /\ noise' <= MaxNoise /\ kind' \in Kinds
    BY <1>1 DEF StreamTypes
  <2>3. holder' \in Holders({scan'}) /\ dev'.cap.scan = scan'
    BY <1>1, <1>5, <1>6, <1>8
  <2>4. codec' \in Codecs(Int)
    BY <1>7
  <2> QED BY <1>2, <1>6, <2>1, <2>2, <2>3, <2>4 DEF StreamTypes, SentIsOfScan
<1>10. ~dev.halt
  <2>1. dev.state = "idle"
    BY DEF Start
  <2> QED BY <2>1 DEF StreamInv, SentIsOfScan
<1>11. CodecInStep'
  <2>1. codec' \in Codecs({scan'}) /\ codec'.rx = << >> /\ codec'.state = "sync1"
    BY <1>7
  <2>2. dev'.cap.first /\ dev'.state = "header" /\ dev'.at = 0 /\ ~dev'.halt
    BY <1>4, <1>5, <1>6, <1>10
  <2> QED BY <1>2, <2>1, <2>2 DEF CodecInStep
<1>12. FirstIsSeen'
  BY <1>6 DEF FirstIsSeen
<1> QED BY <1>2, <1>9, <1>11, <1>12 DEF StreamInv, StreamSound

\* The device obeys a stop.
LEMMA DeviceStopsIsSound ==
  ASSUME StreamInv, DeviceStops
  PROVE  StreamInv'
<1>1. /\ StreamTypes /\ dev \in Devices /\ HandlerSound /\ dev.halt
      /\ UNCHANGED <<kind, codec, unp, h, holder, scan, noise>>
      /\ dev' = [dev EXCEPT !.state = "idle", !.at = 0, !.cap = NoCapsule, !.halt = FALSE]
  BY DEF StreamInv, StreamTypes, DeviceStops
<1>2. dev' \in Devices /\ dev'.state = "idle" /\ ~dev'.halt
  <2> DEFINE w == FALSE
  <2>1. /\ w \in BOOLEAN /\ ~w
        /\ dev' = [dev EXCEPT !.state = "idle", !.at = 0, !.cap = NoCapsule, !.halt = w]
    BY <1>1
  <2> HIDE DEF w
  <2>2. dev' \in Devices
    <3>1. dev' = [state |-> "idle", at |-> 0, cap |-> NoCapsule, halt |-> w]
      <4>1. dev = [state |-> dev.state, at |-> dev.at, cap |-> dev.cap, halt |-> dev.halt]
        BY <1>1 DEF Devices
      <4> QED BY <2>1, <4>1
    <3> QED BY <2>1, <3>1, NoCapsuleIsCapsule DEF Devices
  <2>3. dev'.state = "idle" /\ dev'.halt = w
    BY <1>1, <2>1 DEF Devices
  <2> QED BY <2>1, <2>2, <2>3
<1>3. StreamTypes' /\ SentIsOfScan' /\ HandlerSound'
  BY <1>1, <1>2 DEF StreamTypes, SentIsOfScan, HandlerSound
<1>4. ~unp.enabled
  BY <1>1 DEF StreamInv, StreamSound, CodecInStep
<1> QED BY <1>1, <1>3, <1>4 DEF StreamInv, StreamSound

\* Before the first scan there is nothing.
LEMMA InitIsSound == Init => StreamInv
<1> SUFFICES ASSUME Init PROVE StreamInv
  OBVIOUS
<1> DEFINE w == FALSE
<1>1. /\ w \in BOOLEAN /\ ~w
      /\ dev = [state |-> "idle", at |-> 0, cap |-> NoCapsule, halt |-> w]
      /\ codec = [state |-> "sync1", rx |-> << >>]
      /\ unp = [enabled |-> w, active |-> w]
      /\ holder = EmptyHolder /\ kind \in Kinds /\ scan = 0 /\ noise = 0
  BY DEF Init
<1>2. h \in Handlers /\ h.pos = 0 /\ ~h.rdy
  <2> DEFINE v == TRUE
  <2>1. v \in BOOLEAN /\ h = [pos |-> 0, part |-> NoCapsule, whole |-> v, prev |-> NoCapsule,
                              rdy |-> w, last |-> w]
    BY DEF Init, FreshHandler
  <2> HIDE DEF v, w
  <2>2. h \in Handlers
    BY <1>1, <2>1, NoCapsuleIsCapsule DEF Handlers
  <2> QED BY <1>1, <2>1, <2>2
<1> HIDE DEF w
<1>3. dev \in Devices /\ dev.state = "idle" /\ ~dev.halt
  BY <1>1, NoCapsuleIsCapsule DEF Devices
<1>4. codec \in Codecs(Int)
  BY <1>1, EmptySeq DEF Codecs, CodecStates
<1>5. unp \in [enabled : BOOLEAN, active : BOOLEAN] /\ ~unp.enabled /\ ~unp.active
  BY <1>1
<1>6. noise <= MaxNoise /\ noise \in Nat /\ scan \in Nat /\ holder \in Holders({scan})
  BY <1>1, StreamAssumption, EmptyHolderIsHolder
<1> QED BY <1>1, <1>2, <1>3, <1>4, <1>5, <1>6
        DEF StreamInv, StreamTypes, SentIsOfScan, HandlerSound, StreamSound

\* The invariant is inductive.
LEMMA StepIsSound ==
  ASSUME SomeArrived, StreamInv, [Next]_vars
  PROVE  StreamInv'
<1> USE DecoderAssumption, StreamAssumption
<1>1. CASE SendHeader
  BY <1>1, HeaderIsSound
<1>2. CASE SendByte
  <2>1. PICK s \in CapsulePatterns(dev.at) :
          OnDecodeData([of |-> dev.cap, place |-> dev.at, shows |-> s, ok |-> TRUE])
    BY <1>2 DEF SendByte
  <2> DEFINE b == [of |-> dev.cap, place |-> dev.at, shows |-> s, ok |-> TRUE]
  <2>2. b \in [of : {dev.cap}, place : {dev.at}, shows : Patterns, ok : BOOLEAN]
    BY DEF CapsulePatterns, Patterns
  <2>3. OnDecodeData(b)
    BY <2>1
  <2> HIDE DEF b
  <2>4. /\ dev.state = "scan" /\ Advance /\ kind' = kind /\ scan' = scan
        /\ noise' = noise /\ noise \in Nat /\ noise <= MaxNoise
    BY <1>2 DEF SendByte, StreamInv, StreamTypes
  <2> QED BY <2>2, <2>3, <2>4, CapsuleIsSound
<1>3. CASE DamageByte
  <2>1. PICK s \in Patterns :
          OnDecodeData([of |-> dev.cap, place |-> dev.at, shows |-> s, ok |-> FALSE])
    BY <1>3 DEF DamageByte
  <2> DEFINE b == [of |-> dev.cap, place |-> dev.at, shows |-> s, ok |-> FALSE]
  <2>2. b \in [of : {dev.cap}, place : {dev.at}, shows : Patterns, ok : BOOLEAN]
    OBVIOUS
  <2>3. OnDecodeData(b)
    BY <2>1
  <2> HIDE DEF b
  <2>4. /\ dev.state = "scan" /\ Advance /\ kind' = kind /\ scan' = scan
        /\ noise' = noise + 1 /\ noise \in Nat /\ noise < MaxNoise /\ MaxNoise \in Nat
    BY <1>3 DEF DamageByte, StreamInv, StreamTypes
  <2>5. noise' \in Nat /\ noise' >= noise /\ noise' <= MaxNoise
    BY <2>4
  <2> QED BY <2>2, <2>3, <2>4, <2>5, CapsuleIsSound
<1>4. CASE LoseByte
  BY <1>4, LostIsSound
<1>5. CASE DeviceStops
  BY <1>5, DeviceStopsIsSound
<1>6. CASE Stop
  BY <1>6, StopIsSound
<1>7. CASE Start
  BY <1>7, StartIsSound
<1>8. CASE GrabWait
  <2> DEFINE w == FALSE
  <2>1. /\ w \in BOOLEAN /\ holder' = [holder EXCEPT !.signal = w] /\ holder \in Holders({scan})
        /\ UNCHANGED <<kind, dev, codec, unp, h, scan, noise>>
    BY <1>8 DEF GrabWait, StreamInv, StreamTypes
  <2> HIDE DEF w
  <2>2. holder' \in Holders({scan})
    BY <2>1 DEF Holders
  <2> QED BY <2>1, <2>2 DEF StreamInv, StreamTypes, SentIsOfScan, HandlerSound, StreamSound,
                            CodecInStep, FirstIsSeen
<1>9. CASE UNCHANGED <<kind, dev, codec, unp, h, holder, scan, noise>>
  BY <1>9 DEF StreamInv, StreamTypes, SentIsOfScan, HandlerSound, StreamSound, CodecInStep,
              FirstIsSeen
<1> QED BY <1>1, <1>2, <1>3, <1>4, <1>5, <1>6, <1>7, <1>8, <1>9 DEF Next, GrabCopy, vars

\* What the buffers of the scan holder hold was sent in the scan that was started last:
\* nothing of an earlier one survives a stop and a start, in the codec, in a handler or in
\* the holder (stop, startScanExpress, the reset of the unpacker and of its handlers).
THEOREM NothingEverFromBefore ==
  ASSUME FewLost
  PROVE  Spec => []NothingFromBefore
<1>1. StreamInv => NothingFromBefore
  <2> SUFFICES ASSUME StreamInv, NEW i \in {0, 1}, NEW j \in DOMAIN holder.buf[i]
               PROVE  holder.buf[i][j].scan = scan
    BY DEF NothingFromBefore
  <2>1. holder.buf[i] \in Seq(Nodes({scan}))
    BY DEF StreamInv, StreamTypes, Holders
  <2>2. holder.buf[i][j] \in Nodes({scan})
    BY <2>1, ElementOfSeq, LenProperties
  <2> QED BY <2>2 DEF Nodes
<1>2. StreamInv /\ [Next]_vars => StreamInv'
  BY StepIsSound, FewAreNotAll, DecoderAssumption, StreamAssumption DEF StreamInv
<1> QED BY <1>1, <1>2, InitIsSound, PTL DEF Spec

-----------------------------------------------------------------------------
\* Only neighbours join

\* The capsule d was sent after the capsule c.
Follows(c, d) == d.scan = c.scan /\ d.serial = (c.serial + 1) % Serials

\* Of a message: where the capsules in it end, the next begins.
Placed(msg) ==
  /\ \A j \in 1 .. Len(msg) : msg[j].place < CapsuleLen
  /\ \A j \in 1 .. Len(msg) : j < Len(msg) /\ msg[j].place = CapsuleLen - 1
                                => Follows(msg[j].of, msg[j + 1].of)

\* Where the byte after i is of the capsule after c; behind the last byte that is one of End.
GoesTo(c, msg, i, End) == IF i < Len(msg) THEN Follows(c, msg[i + 1].of) ELSE c \in End

\* What a handler begins or goes on with is the capsule after the one it keeps.
Ordered(y, msg, i, End) ==
  y.rdy => IF y.pos > 0 THEN Follows(y.prev, y.part) ELSE GoesTo(y.prev, msg, i, End)

Joins(p, q) == q.first \/ Follows(p, q)

\* The handler x, some bytes later: as it was, or with what this message gave it.
Moved(x, y, i) ==
  \/ y.prev = x.prev /\ y.rdy = x.rdy
  \/ (y.prev = x.prev \/ (x.rdy => Joins(x.prev, y.prev))) /\ y.pos < i

Ordering(x, y, msg, i, End) ==
  /\ y \in Handlers /\ Moved(x, y, i)
  /\ Ordered(y, msg, i, End) \/ LeftOver(y, msg, i)

\* A stored byte leaves the previous capsule alone.
LEMMA StoreKeeps ==
  ASSUME NEW y \in Handlers, NEW b
  PROVE  /\ Store(y, b).pos = y.pos + 1 /\ Store(y, b).rdy = y.rdy
         /\ Store(y, b).prev = y.prev /\ Store(y, b).whole = Fits(y, b)
         /\ Store(y, b).part = IF y.pos = 0 THEN b.of ELSE y.part
<1> DEFINE w == Fits(y, b)
           q == IF y.pos = 0 THEN b.of ELSE y.part
<1>1. Store(y, b) = [y EXCEPT !.pos = y.pos + 1, !.whole = w, !.part = q]
  BY DEF Store
<1> HIDE DEF w, q
<1>2. /\ Store(y, b).pos = y.pos + 1 /\ Store(y, b).rdy = y.rdy
      /\ Store(y, b).prev = y.prev /\ Store(y, b).whole = w /\ Store(y, b).part = q
  BY <1>1 DEF Handlers
<1> QED BY <1>2 DEF w, q

\* One byte of a message keeps the order of capsules.
LEMMA NextByteJoins ==
  ASSUME DecoderAssumption, NEW k \in Spread, NEW msg \in Seq(Bytes(Int)),
         Len(msg) = CapsuleLen, Placed(msg), NEW End,
         msg[CapsuleLen].place = CapsuleLen - 1 => msg[CapsuleLen].of \in End,
         NEW x \in Handlers, NEW y, NEW i \in 1 .. CapsuleLen, Ordering(x, y, msg, i - 1, End),
         Ordered(y, msg, i - 1, End) \/ \E j \in 1 .. CapsuleLen : msg[j].of.first
  PROVE  /\ Ordering(x, OnData(k, y, msg[i]).h, msg, i, End)
         /\ Ordered(y, msg, i - 1, End) => Ordered(OnData(k, y, msg[i]).h, msg, i, End)
<1> DEFINE b == msg[i]
           o == OnData(k, y, b)
<1> SUFFICES /\ Ordering(x, o.h, msg, i, End)
             /\ Ordered(y, msg, i - 1, End) => Ordered(o.h, msg, i, End)
  OBVIOUS
<1>1. /\ b \in Bytes(Int) /\ b.of \in Capsules /\ b.of.scan \in Int /\ b.place < CapsuleLen
      /\ b.place \in Int /\ CapsuleLen \in Nat /\ CapsuleLen >= 3 /\ i \in 1 .. CapsuleLen
      /\ y \in Handlers /\ y.pos \in Nat /\ y.rdy \in BOOLEAN
  <2>1. i \in 1 .. CapsuleLen /\ i \in 1 .. Len(msg) /\ CapsuleLen \in Nat /\ CapsuleLen >= 3
    BY DEF DecoderAssumption
  <2>2. b \in Bytes(Int) /\ b.place < CapsuleLen
    BY <2>1, ElementOfSeq DEF Placed
  <2>3. y \in Handlers
    BY DEF Ordering
  <2> HIDE DEF b, o
  <2>4. b.of \in Capsules /\ b.of.scan \in Int /\ b.place \in Int
    BY <2>2 DEF Bytes
  <2>5. y.pos \in Nat /\ y.rdy \in BOOLEAN
    BY <2>3 DEF Handlers
  <2> QED BY <2>1, <2>2, <2>3, <2>4, <2>5
<1>2. ByteIsGood(o, y, b, Int)
  <2>1. y.part.scan \in Int /\ y.prev.scan \in Int
    BY <1>1 DEF Handlers, Capsules
  <2> QED BY <1>1, <2>1, SpreadByteIsGood
<1>3. b.place = CapsuleLen - 1 => GoesTo(b.of, msg, i, End)
  <2>1. CASE i < CapsuleLen
    BY <1>1, <2>1 DEF Placed, GoesTo
  <2>2. CASE i = CapsuleLen
    BY <2>2 DEF GoesTo
  <2> QED BY <1>1, <2>1, <2>2
<1>4. Moved(x, y, i - 1) /\ (Ordered(y, msg, i - 1, End) \/ LeftOver(y, msg, i - 1))
  BY DEF Ordering
<1>5. Ordered(y, msg, i - 1, End) /\ y.rdy /\ y.pos = 0 => Follows(y.prev, b.of)
  BY <1>1 DEF Ordered, GoesTo
<1> HIDE DEF b, o
<1>6. o.h \in Handlers
  BY <1>2 DEF ByteIsGood
<1>7. CASE ~o.h.rdy /\ o.h.pos = 0 /\ o.h.prev = y.prev
  <2>1. Ordered(o.h, msg, i, End)
    BY <1>7 DEF Ordered
  <2>2. Moved(x, o.h, i)
    <3>1. y.prev = x.prev \/ (x.rdy => Joins(x.prev, y.prev))
      BY <1>4 DEF Moved
    <3> QED BY <1>1, <1>7, <3>1 DEF Moved
  <2> QED BY <1>6, <2>1, <2>2 DEF Ordering
<1>8. CASE y.pos < CapsuleLen - 1 /\ o.h = Store(y, b)
  <2>1. /\ o.h.pos = y.pos + 1 /\ o.h.rdy = y.rdy /\ o.h.prev = y.prev
        /\ o.h.whole = Fits(y, b) /\ o.h.part = IF y.pos = 0 THEN b.of ELSE y.part
    <3>2. /\ Store(y, b).pos = y.pos + 1 /\ Store(y, b).rdy = y.rdy
          /\ Store(y, b).prev = y.prev /\ Store(y, b).whole = Fits(y, b)
          /\ Store(y, b).part = IF y.pos = 0 THEN b.of ELSE y.part
      BY <1>1, StoreKeeps
    <3> QED BY <1>8, <3>2, Zenon
  <2>2. Moved(x, o.h, i)
    <3>1. CASE y.prev = x.prev /\ y.rdy = x.rdy
      BY <2>1, <3>1 DEF Moved
    <3>2. CASE (y.prev = x.prev \/ (x.rdy => Joins(x.prev, y.prev))) /\ y.pos < i - 1
      <4>1. o.h.pos < i
        BY <1>1, <2>1, <3>2
      <4> QED BY <2>1, <3>2, <4>1 DEF Moved
    <3> QED BY <1>4, <3>1, <3>2 DEF Moved
  <2>3. ASSUME Ordered(y, msg, i - 1, End) PROVE Ordered(o.h, msg, i, End)
    <3> SUFFICES ASSUME y.rdy PROVE Follows(o.h.prev, o.h.part)
      BY <1>1, <2>1 DEF Ordered
    <3>1. CASE y.pos = 0
      BY <1>5, <2>1, <2>3, <3>1
    <3>2. CASE y.pos > 0
      BY <2>1, <2>3, <3>2 DEF Ordered
    <3> QED BY <1>1, <3>1, <3>2
  <2>4. ASSUME LeftOver(y, msg, i - 1) PROVE LeftOver(o.h, msg, i)
    <3>1. y.rdy /\ y.pos = i - 1 /\ (i > 1 /\ y.whole => \A j \in 1 .. i - 1 : msg[j].of = y.part)
      BY <1>1, <2>4 DEF LeftOver
    <3>2. o.h.rdy /\ o.h.pos = i /\ o.h.pos < CapsuleLen
      BY <1>1, <1>8, <2>1, <3>1
    <3>3. ASSUME Fits(y, b) PROVE \A j \in 1 .. i : msg[j].of = o.h.part
      <4>1. CASE i = 1
        BY <1>1, <2>1, <3>1, <4>1 DEF b
      <4>2. CASE i > 1
        <5>1. y.pos > 0 /\ y.whole /\ b.of = y.part /\ o.h.part = y.part
          BY <1>1, <2>1, <3>1, <3>3, <4>2 DEF Fits
        <5> QED BY <3>1, <4>2, <5>1 DEF b
      <4> QED BY <1>1, <4>1, <4>2
    <3> QED BY <2>1, <3>2, <3>3 DEF LeftOver
  <2> QED BY <1>4, <1>6, <2>2, <2>3, <2>4 DEF Ordering
<1>9. CASE EndsWhole(y, b) /\ o.h.prev = b.of /\ o.h.pos = 0
  <2>1. y.pos = CapsuleLen - 1 /\ b.place = CapsuleLen - 1 /\ y.whole /\ b.of = y.part
    BY <1>1, <1>9 DEF EndsWhole, Fits
  <2>2. Ordered(o.h, msg, i, End)
    BY <1>3, <1>9, <2>1 DEF Ordered
  <2>3. ASSUME x.rdy PROVE Joins(x.prev, o.h.prev)
    <3>1. y.prev = x.prev /\ y.rdy
      <4>1. ~(y.pos < i - 1)
        BY <1>1, <2>1
      <4> QED BY <1>4, <2>3, <4>1 DEF Moved
    <3>2. CASE Ordered(y, msg, i - 1, End)
      <4>1. Follows(y.prev, y.part)
        BY <1>1, <2>1, <3>1, <3>2 DEF Ordered
      <4> QED BY <1>9, <2>1, <3>1, <4>1 DEF Joins
    <3>3. CASE ~Ordered(y, msg, i - 1, End)
      <4>1. LeftOver(y, msg, i - 1) /\ \E j \in 1 .. CapsuleLen : msg[j].of.first
        BY <1>4, <3>3
      <4>2. i = CapsuleLen /\ \A j \in 1 .. i - 1 : msg[j].of = y.part
        BY <1>1, <2>1, <4>1 DEF LeftOver
      <4>3. \A j \in 1 .. CapsuleLen : msg[j].of = b.of
        BY <1>1, <2>1, <4>2 DEF b
      <4>4. b.of.first
        BY <4>1, <4>3
      <4> QED BY <1>9, <4>4 DEF Joins
    <3> QED BY <3>2, <3>3
  <2>4. Moved(x, o.h, i)
    BY <1>1, <1>9, <2>3 DEF Moved
  <2> QED BY <1>6, <2>2, <2>4 DEF Ordering
<1> QED BY <1>2, <1>7, <1>8, <1>9 DEF ByteIsGood

\* What a message leaves of the order.
AfterJoin(x, y, msg, End) == Ordered(y, msg, CapsuleLen, End) /\ Moved(x, y, CapsuleLen)

\* A whole message does, and joins at most one capsule to the one before.
LEMMA ReadJoins ==
  ASSUME DecoderAssumption, NEW k \in Spread, NEW x \in Handlers, NEW H \in Holders(Int),
         NEW msg \in Seq(Bytes(Int)), Len(msg) = CapsuleLen, Placed(msg), NEW End,
         msg[CapsuleLen].place = CapsuleLen - 1 => msg[CapsuleLen].of \in End,
         Ordered(x, msg, 0, End) \/ (x.pos = 0 /\ \E j \in 1 .. CapsuleLen : msg[j].of.first)
  PROVE  AfterJoin(x, Read(k, x, H, msg)[CapsuleLen].h, msg, End)
<1> DEFINE n == CapsuleLen
           d == Read(k, x, H, msg)
           FineSoFar(y, i) ==
             /\ Ordering(x, y, msg, i, End)
             /\ Ordered(y, msg, i, End) \/ \E j \in 1 .. CapsuleLen : msg[j].of.first
           I == {i \in 0 .. n : FineSoFar(d[i].h, i)}
<1>1. n \in Nat /\ n >= 3 /\ x.pos \in Nat
  BY DEF DecoderAssumption, Handlers
<1>2. ReadSteps(k, x, H, msg)
  BY ReadGoesOn
<1>3. d[0].h = x
  BY <1>2 DEF ReadSteps
<1>a. ASSUME NEW i \in 1 .. n PROVE d[i].h = OnData(k, d[i - 1].h, msg[i]).h
  <2> DEFINE o == OnData(k, d[i - 1].h, msg[i])
  <2>1. d[i] = [h |-> o.h, holder |-> Publish(d[i - 1].holder, o)]
    BY <1>2 DEF ReadSteps
  <2> HIDE DEF d, o
  <2>2. d[i].h = o.h
    BY <2>1
  <2> QED BY <2>2 DEF o
<1> HIDE DEF d, n
<1>4. FineSoFar(d[0].h, 0)
  <2>1. Moved(x, x, 0)
    BY DEF Moved
  <2>2. Ordered(x, msg, 0, End) \/ LeftOver(x, msg, 0)
    BY <1>1 DEF Ordered, LeftOver, n
  <2> QED BY <1>3, <2>1, <2>2 DEF Ordering
<1>5. ASSUME NEW i \in 1 .. n, FineSoFar(d[i - 1].h, i - 1) PROVE FineSoFar(d[i].h, i)
  <2> DEFINE y == d[i - 1].h
             o == d[i].h
  <2>0. i \in 1 .. CapsuleLen
    BY DEF n
  <2>1. /\ Ordering(x, y, msg, i - 1, End)
        /\ Ordered(y, msg, i - 1, End) \/ \E j \in 1 .. CapsuleLen : msg[j].of.first
    BY <1>5
  <2>2. o = OnData(k, y, msg[i]).h
    BY <1>a
  <2> HIDE DEF y, o
  <2>3. Ordering(x, o, msg, i, End) /\ (Ordered(y, msg, i - 1, End) => Ordered(o, msg, i, End))
    BY <2>0, <2>1, <2>2, NextByteJoins
  <2> QED BY <2>1, <2>3 DEF o
<1> HIDE DEF FineSoFar
<1>6. 0 \in I
  BY <1>1, <1>4
<1>7. ASSUME NEW i \in 1 .. n, i - 1 \in I PROVE i \in I
  BY <1>1, <1>5, <1>7
<1> HIDE DEF I
<1>8. \A i \in 0 .. n : i \in I
  BY <1>1, <1>6, <1>7, CountsUp
<1>9. n \in I
  BY <1>1, <1>8
<1> DEFINE y == d[n].h
<1>10. FineSoFar(y, n)
  BY <1>9 DEF I
<1> HIDE DEF y
<1>11. Ordering(x, y, msg, CapsuleLen, End)
  <2>1. Ordering(x, y, msg, n, End)
    BY <1>10 DEF FineSoFar
  <2> QED BY <2>1 DEF n
<1>12. Ordered(y, msg, CapsuleLen, End)
  BY <1>11 DEF Ordering, LeftOver
<1>13. Moved(x, y, CapsuleLen)
  BY <1>11 DEF Ordering
<1>14. AfterJoin(x, y, msg, End)
  BY <1>12, <1>13 DEF AfterJoin
<1> QED BY <1>14 DEF y, d, n

\* The capsules after which the device sends its next byte.  All bytes in between were lost.
Preceding == {c \in Capsules : Follows(c, dev.cap) /\ noise >= dev.at}

\* The bytes at hand are in the order they were sent in, and the capsule a handler keeps is
\* followed by theirs.
InOrder ==
  /\ dev.state = "scan" => dev.at < CapsuleLen
  /\ unp.enabled /\ dev.state = "scan" =>
       /\ Placed(codec.rx)
       /\ Len(codec.rx) > 0 /\ codec.rx[Len(codec.rx)].place = CapsuleLen - 1
            => codec.rx[Len(codec.rx)].of \in Preceding
       /\ unp.active => Ordered(h, codec.rx, 0, Preceding)

\* What OnlyNeighboursJoin says of a step.
JoinStep == h.rdy /\ h'.prev # h.prev => Joins(h.prev, h'.prev)

\* A byte of a capsule, damaged or not.
LEMMA CapsuleInOrder ==
  ASSUME StreamInv, StreamInv', InOrder, MaxNoise < CapsuleLen, DecoderAssumption,
         dev.state = "scan", Advance,
         NEW b \in [of : {dev.cap}, place : {dev.at}, shows : Patterns, ok : BOOLEAN],
         OnDecodeData(b), kind' = kind, noise' \in Nat, noise' >= noise
  PROVE  InOrder' /\ JoinStep
<1> DEFINE msg == Append(codec.rx, b)
<1>1. /\ StreamTypes /\ dev \in Devices /\ dev.at \in Nat /\ dev.cap.scan = scan
      /\ dev.cap \in Capsules /\ scan \in Int /\ noise \in Nat /\ dev.at < CapsuleLen
      /\ CapsuleLen \in Nat /\ CapsuleLen >= 3
      /\ h \in Handlers /\ holder \in Holders({scan}) /\ HandlerSound
  BY DEF StreamInv, StreamTypes, SentIsOfScan, Devices, InOrder, DecoderAssumption
<1>2. /\ dev'.state = "scan"
      /\ \/ dev'.cap = dev.cap /\ dev'.at = dev.at + 1 /\ dev.at # CapsuleLen - 1
         \/ dev.at = CapsuleLen - 1 /\ dev'.cap = NextCapsule(dev.cap) /\ dev'.at = 0
  BY <1>1, AdvanceIsSound
<1>3. b \in Bytes({scan}) /\ b.of = dev.cap /\ b.place = dev.at
  BY <1>1 DEF Bytes
<1>4. dev'.at < CapsuleLen
  BY <1>1, <1>2
<1>5. b.place = CapsuleLen - 1 => b.of \in Preceding'
  <2> SUFFICES ASSUME dev.at = CapsuleLen - 1 PROVE dev.cap \in Preceding'
    BY <1>3
  <2>1. dev'.cap = NextCapsule(dev.cap) /\ dev'.at = 0
    BY <1>2
  <2>2. Follows(dev.cap, dev'.cap)
    BY <1>1, <2>1, NextCapsuleIsCapsule DEF Follows
  <2> QED BY <1>1, <2>1, <2>2 DEF Preceding
<1>6. ASSUME unp.enabled
      PROVE  /\ CodecInStep /\ FirstIsSeen /\ codec.state = "payload" /\ DecodePayload(b)
             /\ codec.rx \in Seq(Bytes({scan})) /\ codec = [state |-> codec.state, rx |-> codec.rx]
  BY <1>6 DEF StreamInv, StreamSound, CodecInStep, Codecs, OnDecodeData
<1>7. ASSUME unp.enabled
      PROVE  /\ msg \in Seq(Bytes({scan})) /\ Len(codec.rx) \in Nat /\ Len(msg) = Len(codec.rx) + 1
             /\ \A j \in 1 .. Len(codec.rx) : msg[j] = codec.rx[j]
             /\ msg[Len(codec.rx) + 1] = b
  BY <1>3, <1>6, <1>7, AppendProperties, LenProperties
<1> HIDE DEF msg
<1>8. ASSUME unp.enabled PROVE Placed(msg)
  <2>1. Placed(codec.rx)
    BY <1>8 DEF InOrder
  <2>2. ASSUME NEW j \in 1 .. Len(msg) PROVE msg[j].place < CapsuleLen
    <3>1. CASE j \in 1 .. Len(codec.rx)
      BY <1>7, <1>8, <2>1, <3>1 DEF Placed
    <3>2. CASE j = Len(codec.rx) + 1
      BY <1>1, <1>3, <1>7, <1>8, <3>2
    <3> QED BY <1>7, <1>8, <3>1, <3>2
  <2>3. ASSUME NEW j \in 1 .. Len(msg), j < Len(msg), msg[j].place = CapsuleLen - 1
        PROVE  Follows(msg[j].of, msg[j + 1].of)
    <3>1. j \in 1 .. Len(codec.rx) /\ msg[j] = codec.rx[j]
      <4>1. j \in 1 .. Len(codec.rx)
        BY <1>7, <1>8, <2>3
      <4> QED BY <1>7, <1>8, <4>1
    <3>2. CASE j < Len(codec.rx)
      <4>1. msg[j + 1] = codec.rx[j + 1]
        <5>1. j + 1 \in 1 .. Len(codec.rx)
          BY <1>7, <1>8, <3>1, <3>2
        <5> QED BY <1>7, <1>8, <5>1
      <4>2. codec.rx[j].place = CapsuleLen - 1
        BY <2>3, <3>1
      <4>3. Follows(codec.rx[j].of, codec.rx[j + 1].of)
        BY <2>1, <3>1, <3>2, <4>2 DEF Placed
      <4> QED BY <3>1, <4>1, <4>3
    <3>3. CASE j = Len(codec.rx)
      <4>1. codec.rx[j].of \in Preceding
        BY <1>7, <1>8, <2>3, <3>1, <3>3 DEF InOrder
      <4>2. msg[j + 1].of = dev.cap
        BY <1>3, <1>7, <1>8, <3>3
      <4> QED BY <3>1, <4>1, <4>2 DEF Preceding
    <3> QED BY <1>7, <1>8, <3>1, <3>2, <3>3
  <2> QED BY <2>2, <2>3 DEF Placed
<1>9. ASSUME unp.enabled, unp.active, NEW End PROVE Ordered(h, msg, 0, End)
  <2>1. Ordered(h, codec.rx, 0, Preceding)
    BY <1>9 DEF InOrder
  <2> SUFFICES ASSUME h.rdy, ~(h.pos > 0) PROVE Follows(h.prev, msg[1].of)
    BY <1>7, <1>9, <2>1 DEF Ordered, GoesTo
  <2>2. CASE Len(codec.rx) > 0
    <3>1. msg[1] = codec.rx[1]
      BY <1>7, <1>9, <2>2
    <3> QED BY <2>1, <2>2, <3>1 DEF Ordered, GoesTo
  <2>3. CASE Len(codec.rx) = 0
    <3>1. h.prev \in Preceding /\ msg[1].of = dev.cap
      BY <1>3, <1>7, <1>9, <2>1, <2>3 DEF Ordered, GoesTo
    <3> QED BY <3>1 DEF Preceding
  <2> QED BY <1>7, <1>9, <2>2, <2>3
<1>10. CASE ~unp.enabled \/ Len(msg) # CapsuleLen
  <2>1. UNCHANGED <<h, holder, unp>>
    BY <1>10, NothingDelivered DEF msg
  <2>2. JoinStep
    BY <2>1 DEF JoinStep
  <2>3. ASSUME unp.enabled
        PROVE  /\ Placed(codec'.rx)
               /\ Len(codec'.rx) > 0 /\ codec'.rx[Len(codec'.rx)].place = CapsuleLen - 1
                    => codec'.rx[Len(codec'.rx)].of \in Preceding'
               /\ unp.active => Ordered(h, codec'.rx, 0, Preceding')
    <3>1. codec'.rx = msg
      BY <1>6, <1>10, <2>3 DEF DecodePayload, msg
    <3>2. msg[Len(msg)] = b
      BY <1>7, <2>3
    <3>3. unp.active => Ordered(h, msg, 0, Preceding')
      BY <1>9, <2>3
    <3> QED BY <1>5, <1>8, <2>3, <3>1, <3>2, <3>3
  <2> QED BY <1>4, <2>1, <2>2, <2>3 DEF InOrder
<1>11. CASE unp.enabled /\ Len(msg) = CapsuleLen
  <2>1. Deliver(msg) /\ codec' = [codec EXCEPT !.rx = << >>]
    BY <1>6, <1>11 DEF DecodePayload, OnSampleData, msg
  <2>2. codec'.rx = << >>
    BY <1>6, <1>11, <2>1
  <2>3. h' = Read(kind, h, holder, msg)[CapsuleLen].h
    BY <1>11, <2>1, DeliverIsRead
  <2>4. /\ \A Z \in SUBSET Int : Bytes(Z) \subseteq Bytes(Int) /\ Holders(Z) \subseteq Holders(Int)
        /\ {scan} \in SUBSET Int
    BY <1>1, OfSomeScan
  <2>5. holder \in Holders(Int)
    BY <1>1, <2>4
  <2>6. msg \in Seq(Bytes(Int))
    <3>1. msg \in [1 .. Len(msg) -> Bytes({scan})] /\ Len(msg) \in Nat
      BY <1>7, <1>11, LenProperties
    <3>2. msg \in [1 .. Len(msg) -> Bytes(Int)]
      BY <2>4, <3>1
    <3> QED BY <3>1, <3>2, ListIsSequence
  <2>7. ASSUME kind \in Spread PROVE AfterJoin(h, h', msg, Preceding')
    <3>1. PICK End : End = Preceding'
      OBVIOUS
    <3>2. msg[CapsuleLen].place = CapsuleLen - 1 => msg[CapsuleLen].of \in End
      BY <1>5, <1>7, <1>11, <3>1
    <3>3. Ordered(h, msg, 0, End) \/ (h.pos = 0 /\ \E j \in 1 .. CapsuleLen : msg[j].of.first)
      <4>1. CASE unp.active
        BY <1>9, <1>11, <4>1
      <4>2. CASE ~h.rdy
        BY <4>2 DEF Ordered
      <4>3. CASE ~unp.active /\ h.rdy
        <5>1. h.pos = 0
          BY <1>1, <4>3 DEF HandlerSound
        <5>2. ~(noise >= CapsuleLen)
          <6>1. MaxNoise \in Nat /\ noise <= MaxNoise
            BY <1>1, StreamAssumption DEF StreamTypes
          <6> QED BY <1>1, <6>1
        <5>3. \E j \in 1 .. Len(msg) : msg[j].of.first
          BY <1>1, <1>3, <1>6, <1>11, <4>3, <5>2, FirstIsThere DEF msg
        <5> QED BY <1>11, <5>1, <5>3
      <4> QED BY <4>1, <4>2, <4>3
    <3>4. AfterJoin(h, Read(kind, h, holder, msg)[CapsuleLen].h, msg, End)
      BY <1>1, <1>8, <1>11, <2>5, <2>6, <2>7, <3>2, <3>3, ReadJoins
    <3> QED BY <2>3, <3>1, <3>4
  <2>8. ASSUME kind \notin Spread PROVE ~h.rdy /\ ~h'.rdy
    BY <2>8 DEF StreamInv, HandlerSound
  <2>9. JoinStep
    <3>1. CASE kind \in Spread
      BY <2>7, <3>1 DEF AfterJoin, Moved, JoinStep
    <3>2. CASE kind \notin Spread
      BY <2>8, <3>2 DEF JoinStep
    <3> QED BY <3>1, <3>2
  <2>10. Ordered(h', << >>, 0, Preceding')
    <3>1. CASE kind \in Spread
      BY <1>1, <1>11, <2>7, <3>1 DEF AfterJoin, Ordered, GoesTo
    <3>2. CASE kind \notin Spread
      BY <2>8, <3>2 DEF Ordered
    <3> QED BY <3>1, <3>2
  <2>11. Placed(<< >>)
    BY DEF Placed
  <2> QED BY <1>4, <2>2, <2>9, <2>10, <2>11 DEF InOrder
<1> QED BY <1>10, <1>11

\* Before the first scan there is no order to keep.
LEMMA InOrderInit == Init => InOrder
  BY DEF Init, InOrder

\* A reset handler keeps its capsule.
LEMMA ResetKeeps ==
  ASSUME NEW e, ResetUnpacker(e), h \in Handlers
  PROVE  h'.prev = h.prev
<1>1. Drop(h).prev = h.prev
  BY DropIsGood
<1>2. CASE unp.active
  <2> DEFINE d == Drop(h)
             w == FALSE
  <2>1. \/ h' = d \/ h' = [d EXCEPT !.rdy = w] \/ h' = [d EXCEPT !.last = w]
    BY <1>2 DEF ResetUnpacker, ResetHandler, ResetCapsule, ResetUltra, ResetDense,
                ResetUltraDense, ResetHQ, ResetNormal
  <2>2. d \in Handlers
    BY DropIsGood
  <2> HIDE DEF d, w
  <2>3. [d EXCEPT !.rdy = w].prev = d.prev /\ [d EXCEPT !.last = w].prev = d.prev
    BY <2>2 DEF Handlers
  <2>4. h'.prev = d.prev
    BY <2>1, <2>3
  <2> QED BY <1>1, <2>4 DEF d
<1>3. CASE ~unp.active
  BY <1>3 DEF ResetUnpacker
<1> QED BY <1>2, <1>3

\* The order is inductive, given the invariant before.
LEMMA StepInOrder ==
  ASSUME MaxNoise < CapsuleLen, StreamInv, StreamInv', InOrder, [Next]_vars
  PROVE  InOrder' /\ JoinStep
<1> USE DecoderAssumption
<1>0. /\ dev \in Devices /\ h \in Handlers /\ CapsuleLen \in Nat /\ CapsuleLen >= 3
      /\ dev.at \in Nat
  BY DEF StreamInv, StreamTypes, DecoderAssumption, Devices
<1>1. CASE SendHeader
  <2>1. UNCHANGED <<h, holder, unp>>
    <3> DEFINE b == [of |-> Header, place |-> dev.at, shows |-> HeaderPattern(dev.at), ok |-> TRUE]
    <3>1. OnDecodeData(b) /\ dev.state = "header"
      BY <1>1 DEF SendHeader
    <3>2. unp.enabled => codec.state # "payload"
      BY <3>1 DEF StreamInv, StreamSound, CodecInStep
    <3> HIDE DEF b
    <3> QED BY <3>1, <3>2, NothingDelivered
  <2>2. dev'.state = "scan" => dev'.at = 0
    BY <1>0, <1>1, AdvanceIsSound DEF SendHeader, StreamInv, StreamTypes
  <2>3. unp.enabled => ~unp.active /\ codec'.rx = << >>
    <3> SUFFICES ASSUME unp.enabled PROVE ~unp.active /\ codec'.rx = << >>
      OBVIOUS
    <3>1. /\ ~unp.active /\ codec.rx = << >> /\ codec.state # "payload"
          /\ codec = [state |-> codec.state, rx |-> codec.rx]
      BY <1>1 DEF SendHeader, StreamInv, StreamTypes, StreamSound, CodecInStep, Codecs
    <3>2. \E s : codec' = [codec EXCEPT !.state = s]
      BY <1>1, <3>1 DEF SendHeader, OnDecodeData, DecodeHeader
    <3> QED BY <3>1, <3>2
  <2>4. Placed(<< >>)
    BY DEF Placed
  <2>5. JoinStep
    BY <2>1 DEF JoinStep
  <2> QED BY <1>0, <2>1, <2>2, <2>3, <2>4, <2>5 DEF InOrder
<1>2. CASE SendByte
  <2>1. PICK s \in CapsulePatterns(dev.at) :
          OnDecodeData([of |-> dev.cap, place |-> dev.at, shows |-> s, ok |-> TRUE])
    BY <1>2 DEF SendByte
  <2> DEFINE b == [of |-> dev.cap, place |-> dev.at, shows |-> s, ok |-> TRUE]
  <2>2. b \in [of : {dev.cap}, place : {dev.at}, shows : Patterns, ok : BOOLEAN]
    BY DEF CapsulePatterns, Patterns
  <2>3. OnDecodeData(b)
    BY <2>1
  <2> HIDE DEF b
  <2>4. /\ dev.state = "scan" /\ Advance /\ kind' = kind
        /\ noise' \in Nat /\ noise' >= noise
    BY <1>2 DEF SendByte, StreamInv, StreamTypes
  <2> QED BY <2>2, <2>3, <2>4, CapsuleInOrder
<1>3. CASE DamageByte
  <2>1. PICK s \in Patterns :
          OnDecodeData([of |-> dev.cap, place |-> dev.at, shows |-> s, ok |-> FALSE])
    BY <1>3 DEF DamageByte
  <2> DEFINE b == [of |-> dev.cap, place |-> dev.at, shows |-> s, ok |-> FALSE]
  <2>2. b \in [of : {dev.cap}, place : {dev.at}, shows : Patterns, ok : BOOLEAN]
    OBVIOUS
  <2>3. OnDecodeData(b)
    BY <2>1
  <2> HIDE DEF b
  <2>4. /\ dev.state = "scan" /\ Advance /\ kind' = kind
        /\ noise' \in Nat /\ noise' >= noise
    BY <1>3 DEF DamageByte, StreamInv, StreamTypes
  <2> QED BY <2>2, <2>3, <2>4, CapsuleInOrder
<1>4. CASE LoseByte
  <2>1. /\ dev.state = "scan" /\ Advance /\ noise \in Nat /\ noise' = noise + 1
        /\ noise' <= MaxNoise /\ MaxNoise \in Nat
        /\ UNCHANGED <<kind, codec, unp, h, holder, scan>> /\ dev.at < CapsuleLen
    BY <1>4, StreamAssumption DEF LoseByte, StreamInv, StreamTypes, InOrder
  <2>2. /\ dev'.state = "scan"
        /\ \/ dev'.cap = dev.cap /\ dev'.at = dev.at + 1 /\ dev.at # CapsuleLen - 1
           \/ dev.at = CapsuleLen - 1 /\ dev'.at = 0
    BY <1>0, <2>1, AdvanceIsSound
  <2>3. Preceding \subseteq Preceding'
    <3> SUFFICES ASSUME NEW c \in Preceding PROVE c \in Preceding'
      OBVIOUS
    <3>1. c \in Capsules /\ Follows(c, dev.cap) /\ noise >= dev.at
      BY DEF Preceding
    <3>2. dev'.cap = dev.cap /\ dev'.at = dev.at + 1
      BY <1>0, <2>1, <2>2, <3>1
    <3> QED BY <1>0, <2>1, <3>1, <3>2 DEF Preceding
  <2>4. dev'.at < CapsuleLen
    BY <1>0, <2>1, <2>2
  <2>5. JoinStep
    BY <2>1 DEF JoinStep
  <2>6. ASSUME unp.enabled, unp.active PROVE Ordered(h, codec.rx, 0, Preceding')
    BY <2>1, <2>3, <2>6 DEF InOrder, Ordered, GoesTo
  <2> QED BY <2>1, <2>2, <2>3, <2>4, <2>5, <2>6 DEF InOrder
<1>5. CASE DeviceStops
  <2>1. dev' = [dev EXCEPT !.state = "idle", !.at = 0, !.cap = NoCapsule, !.halt = FALSE]
    BY <1>5 DEF DeviceStops
  <2>2. dev'.state = "idle"
    BY <1>0, <2>1 DEF Devices
  <2> QED BY <1>5, <2>2 DEF DeviceStops, InOrder, JoinStep
<1>6. CASE Stop
  <2>1. ResetUnpacker(FALSE) /\ dev' = [dev EXCEPT !.halt = TRUE]
    BY <1>6 DEF Stop
  <2>2. h'.prev = h.prev /\ ~unp'.enabled
    BY <1>0, <2>1, ResetKeeps DEF ResetUnpacker
  <2>3. dev'.state = dev.state /\ dev'.at = dev.at
    BY <1>0, <2>1 DEF Devices
  <2> QED BY <2>2, <2>3 DEF InOrder, JoinStep
<1>7. CASE Start
  <2>1. ResetUnpacker(TRUE)
    BY <1>7 DEF Start
  <2>2. h'.prev = h.prev
    BY <1>0, <2>1, ResetKeeps
  <2>3. dev'.state = "header"
    BY <1>0, <1>7 DEF Start, Devices
  <2> QED BY <2>2, <2>3 DEF InOrder, JoinStep
<1>8. CASE UNCHANGED <<kind, dev, codec, unp, h, noise>>
  BY <1>8 DEF InOrder, JoinStep, Preceding
<1> QED BY <1>1, <1>2, <1>3, <1>4, <1>5, <1>6, <1>7, <1>8 DEF Next, GrabWait, GrabCopy, vars

\* Samples are spread between two capsules only if the second was sent right after the
\* first: after a byte too few, too many or wrong a handler begins anew (CapsuleByte, the
\* codec's messages, startScanExpress after a stop).  Losses of a whole capsule are the
\* exception: nothing in a capsule tells how many are missing before it.
THEOREM OnlyNeighboursEverJoin ==
  ASSUME MaxNoise < CapsuleLen
  PROVE  Spec => OnlyNeighboursJoin
<1> DEFINE Inv == StreamInv /\ InOrder
<1>1. Init => Inv
  BY InitIsSound, InOrderInit
<1>2. FewLost
  BY DEF FewLost
<1>3. Inv /\ [Next]_vars => Inv' /\ JoinStep
  BY <1>2, StepIsSound, StepInOrder, FewAreNotAll, DecoderAssumption, StreamAssumption DEF StreamInv
<1>4. JoinStep => (h.rdy /\ h'.prev # h.prev /\ ~h'.prev.first
                   => /\ h'.prev.scan = h.prev.scan
                      /\ h'.prev.serial = (h.prev.serial + 1) % Serials)
  BY DEF JoinStep, Joins, Follows
<1>5. Inv /\ [Next]_vars => [h.rdy /\ h'.prev # h.prev /\ ~h'.prev.first
                   => /\ h'.prev.scan = h.prev.scan
                      /\ h'.prev.serial = (h.prev.serial + 1) % Serials]_vars
  BY <1>3, <1>4
<1> HIDE DEF Inv
<1> QED BY <1>1, <1>3, <1>5, PTL DEF Spec, OnlyNeighboursJoin

-----------------------------------------------------------------------------
(* A revolution of T parts: K capsules of S samples each begin M parts      *)
(* apart, the first at A, and the samples of a capsule are I parts apart.   *)
Revolution(S, I, A, M, T, K) ==
  /\ S \in {1, 2, 3, 4} /\ {I, A, M, T} \subseteq Nat /\ K \in Nat \ {0, 1}
  /\ S * I <= M /\ M < S * I + S /\ A < M /\ 2 * M <= T

\* Where the capsule j begins.
Begins(X, j, A, M, T, K) ==
  /\ X \in Int /\ j \in 0 .. K - 1
  /\ j = 0 => X = A
  /\ j > 0 => X >= A + M
  /\ j < K - 1 => X <= A + T - 2 * M
  /\ j = K - 1 => X = A + T - M

\* The angle of a sample, and whether the angle after it is in the first w spaces of a turn.
Angle(X, i, I, T) == (X + (i - 1) * I) % T
Near(X, i, w, I, T) == (X + i * I) % T < w * I

\* Remainders of numbers within a turn of a turn.
LEMMA RemainderOfTurn ==
  ASSUME NEW T \in Nat \ {0}, NEW v \in Int
  PROVE  /\ v % T \in 0 .. T - 1
         /\ v \in 0 .. T - 1 => v % T = v
         /\ v \in T .. 2 * T - 1 => v % T = v - T
         /\ v \in -T .. -1 => v % T = v + T
<1>1. v % T \in 0 .. T - 1
  OBVIOUS
<1>2. v \in 0 .. T - 1 => v % T = v
  OBVIOUS
<1>3. v \in T .. 2 * T - 1 => v % T = v - T
  OBVIOUS
<1>4. v \in -T .. -1 => v % T = v + T
  OBVIOUS
<1> QED BY <1>1, <1>2, <1>3, <1>4

\* At most four times a space, without the product.
LEMMA FewSpaces ==
  ASSUME NEW I \in Nat, NEW i \in 0 .. 4
  PROVE  /\ i * I \in Nat
         /\ i = 0 => i * I = 0
         /\ i = 1 => i * I = I
         /\ i = 2 => i * I = 2 * I
         /\ i = 3 => i * I = 3 * I
         /\ i = 4 => i * I = 4 * I
<1>1. i \in {0, 1, 2, 3, 4}
  OBVIOUS
<1> QED BY <1>1

\* Without the remainders.
Reduced(v, T) == IF v < 0 THEN v + T ELSE IF v < T THEN v ELSE v - T

\* They are the remainders.
LEMMA RemainderIsReduced ==
  ASSUME NEW T \in Nat \ {0}, NEW v \in Int, v >= -T, v < 2 * T
  PROVE  v % T = Reduced(v, T)
<1>1. CASE v < 0
  <2>1. v \in -T .. -1
    BY <1>1
  <2> QED BY <1>1, <2>1, RemainderOfTurn DEF Reduced
<1>2. CASE v >= 0 /\ v < T
  <2>1. v \in 0 .. T - 1 /\ ~(v < 0)
    BY <1>2
  <2> QED BY <1>2, <2>1, RemainderOfTurn DEF Reduced
<1>3. CASE v >= T
  <2>1. v \in T .. 2 * T - 1 /\ ~(v < 0) /\ ~(v < T)
    BY <1>3
  <2> QED BY <2>1, RemainderOfTurn DEF Reduced
<1> QED BY <1>1, <1>2, <1>3

\* The angles of a capsule, and of the one before it, are within a turn of a turn.
LEMMA AngleIsReduced ==
  ASSUME NEW S, NEW I, NEW A, NEW M, NEW T, NEW K, Revolution(S, I, A, M, T, K),
         NEW X, NEW j, Begins(X, j, A, M, T, K), NEW i \in 0 .. S
  PROVE  /\ (X + i * I) % T = Reduced(X + i * I, T)
         /\ (X - M + i * I) % T = Reduced(X - M + i * I, T)
<1>1. /\ S \in {1, 2, 3, 4} /\ I \in Nat /\ A \in Nat /\ M \in Nat /\ T \in Nat /\ K \in Nat
      /\ K > 1 /\ S * I <= M /\ A < M /\ 2 * M <= T /\ X \in Int /\ j \in 0 .. K - 1
  BY DEF Revolution, Begins
<1>2. X >= A /\ X <= A + T - M
  BY <1>1 DEF Begins
<1>3. i * I \in Nat /\ i * I <= M
  <2>1. i \in 0 .. 4 /\ S \in 0 .. 4
    BY <1>1
  <2> QED BY <1>1, <2>1, FewSpaces
<1> DEFINE p == i * I
<1>4. p \in Nat /\ p <= M
  BY <1>3
<1> HIDE DEF p
<1>5. /\ T \in Nat \ {0} /\ X + p \in Int /\ X + p >= -T /\ X + p < 2 * T
      /\ X - M + p \in Int /\ X - M + p >= -T /\ X - M + p < 2 * T
  BY <1>1, <1>2, <1>4
<1>6. (X + p) % T = Reduced(X + p, T)
  BY <1>5, RemainderIsReduced
<1>7. (X - M + p) % T = Reduced(X - M + p, T)
  BY <1>5, RemainderIsReduced
<1> QED BY <1>6, <1>7 DEF p

\* The distance of the end of a space in the last capsule from the wrap.
Past(i, I, A, M) == A - M + i * I

\* These distances, for the up to four samples of a capsule.
LEMMA PastIsInt ==
  ASSUME NEW S, NEW I, NEW A, NEW M, NEW T, NEW K, Revolution(S, I, A, M, T, K)
  PROVE  /\ \A i \in 0 .. S : Past(i, I, A, M) \in Int
         /\ Past(0, I, A, M) = A - M /\ Past(1, I, A, M) = A - M + I
         /\ S >= 2 => Past(2, I, A, M) = A - M + 2 * I
         /\ S >= 3 => Past(3, I, A, M) = A - M + 3 * I
         /\ S >= 4 => Past(4, I, A, M) = A - M + 4 * I
<1>1. S \in {1, 2, 3, 4} /\ I \in Nat /\ A \in Nat /\ M \in Nat
  BY DEF Revolution
<1>2. ASSUME NEW i \in 0 .. S PROVE Past(i, I, A, M) \in Int
  <2>1. i \in 0 .. 4
    BY <1>1
  <2>2. i * I \in Nat
    BY <1>1, <2>1, FewSpaces
  <2> QED BY <1>1, <2>2 DEF Past
<1> QED BY <1>1, <1>2 DEF Past

\* Where the angle after a sample is near the beginning of a turn.
LEMMA NearIsPast ==
  ASSUME NEW S, NEW I, NEW A, NEW M, NEW T, NEW K, Revolution(S, I, A, M, T, K),
         NEW X, NEW j, Begins(X, j, A, M, T, K), NEW i \in 1 .. S, NEW w \in {1, 2}, w <= S
  PROVE  /\ Near(X, i, w, I, T)
             <=> \/ j = 0 /\ i = 1 /\ w = 2 /\ A < I
                 \/ j = K - 1 /\ Past(i, I, A, M) >= 0 /\ Past(i, I, A, M) < w * I
         /\ w = 2 /\ i >= 2 =>
              (Near(X - M, i, w, I, T)
                 <=> j = 0 /\ Past(i, I, A, M) >= 0 /\ Past(i, I, A, M) < w * I)
<1>1. /\ S \in {1, 2, 3, 4} /\ I \in Nat /\ A \in Nat /\ M \in Nat /\ T \in Nat /\ K \in Nat
      /\ K > 1 /\ S * I <= M /\ A < M /\ 2 * M <= T /\ X \in Int /\ j \in 0 .. K - 1
  BY DEF Revolution, Begins
<1>2. /\ j = 0 => X = A
      /\ j > 0 => X >= A + M
      /\ j < K - 1 => X <= A + T - 2 * M
      /\ j = K - 1 => X = A + T - M
  BY DEF Begins
<1>3. /\ (X + i * I) % T = Reduced(X + i * I, T)
      /\ (X - M + i * I) % T = Reduced(X - M + i * I, T)
  <2>1. i \in 0 .. S
    BY <1>1
  <2> QED BY <2>1, AngleIsReduced
<1> DEFINE p == i * I
           q == w * I
<1>4. /\ p \in Nat /\ p <= M /\ q \in Nat /\ q <= M /\ p >= I
      /\ i = 1 => p = I
      /\ i >= 2 => p >= 2 * I
      /\ w = 1 => q = I
      /\ w = 2 => q = 2 * I
  <2>1. i \in 0 .. 4 /\ S \in 0 .. 4 /\ i \in {1, 2, 3, 4} /\ w \in 0 .. 4
    BY <1>1
  <2>2. S * I = (IF S = 1 THEN I ELSE IF S = 2 THEN 2 * I ELSE IF S = 3 THEN 3 * I ELSE 4 * I)
    BY <1>1, <2>1, FewSpaces
  <2>3. /\ p \in Nat /\ p = (IF i = 1 THEN I ELSE IF i = 2 THEN 2 * I ELSE IF i = 3 THEN 3 * I ELSE 4 * I)
    BY <1>1, <2>1, FewSpaces
  <2>4. q \in Nat /\ q = (IF w = 1 THEN I ELSE 2 * I)
    BY <1>1, <2>1, FewSpaces
  <2> HIDE DEF p, q
  <2> QED BY <1>1, <2>1, <2>2, <2>3, <2>4
<1>5. Past(i, I, A, M) = A - M + p
  BY DEF Past
<1>6. /\ Near(X, i, w, I, T) <=> Reduced(X + p, T) < q
      /\ Near(X - M, i, w, I, T) <=> Reduced(X - M + p, T) < q
  BY <1>3 DEF Near
<1> HIDE DEF p, q
<1>7. Near(X, i, w, I, T)
        <=> \/ j = 0 /\ i = 1 /\ w = 2 /\ A < I
            \/ j = K - 1 /\ A - M + p >= 0 /\ A - M + p < q
  <2>1. Near(X, i, w, I, T) <=> Reduced(X + p, T) < q
    BY <1>6
  <2>2. CASE j = 0
    BY <1>1, <1>2, <1>4, <2>1, <2>2 DEF Reduced
  <2>3. CASE j = K - 1
    BY <1>1, <1>2, <1>4, <2>1, <2>3 DEF Reduced
  <2>4. CASE j # 0 /\ j # K - 1
    <3>1. X + p >= 0 /\ X + p < T /\ ~(X + p < q)
      BY <1>1, <1>2, <1>4, <2>4
    <3>2. Reduced(X + p, T) = X + p
      BY <1>1, <1>4, <3>1 DEF Reduced
    <3> QED BY <2>1, <2>4, <3>1, <3>2
  <2> QED BY <2>2, <2>3, <2>4
<1>8. ASSUME w = 2, i >= 2
      PROVE  Near(X - M, i, w, I, T) <=> j = 0 /\ A - M + p >= 0 /\ A - M + p < q
  <2>1. CASE j = 0
    BY <1>1, <1>2, <1>4, <1>6, <1>8, <2>1 DEF Reduced
  <2>2. CASE j # 0
    <3>1. X - M + p >= 0 /\ X - M + p < T /\ ~(X - M + p < q)
      BY <1>1, <1>2, <1>4, <1>8, <2>2
    <3>2. Reduced(X - M + p, T) = X - M + p
      BY <1>1, <1>4, <3>1 DEF Reduced
    <3> QED BY <1>6, <2>2, <3>1, <3>2
  <2> QED BY <2>1, <2>2
<1>9. Near(X, i, w, I, T)
        <=> \/ j = 0 /\ i = 1 /\ w = 2 /\ A < I
            \/ j = K - 1 /\ Past(i, I, A, M) >= 0 /\ Past(i, I, A, M) < q
  BY <1>5, <1>7
<1>10. w = 2 /\ i >= 2 =>
         (Near(X - M, i, w, I, T)
            <=> j = 0 /\ Past(i, I, A, M) >= 0 /\ Past(i, I, A, M) < q)
  BY <1>5, <1>8
<1> QED BY <1>9, <1>10 DEF q

\* The angle of a sample.
LEMMA AngleIs ==
  ASSUME NEW S, NEW I, NEW A, NEW M, NEW T, NEW K, Revolution(S, I, A, M, T, K),
         NEW X, NEW j, Begins(X, j, A, M, T, K), NEW i \in 1 .. S
  PROVE  /\ j < K - 1 => Angle(X, i, I, T) = X + (i - 1) * I
         /\ j = K - 1 => Angle(X, i, I, T) = IF Past(i - 1, I, A, M) < 0
                                            THEN T + Past(i - 1, I, A, M)
                                            ELSE Past(i - 1, I, A, M)
         /\ j > 0 => Angle(X - M, i, I, T) = X - M + (i - 1) * I
         /\ j = 0 => Angle(X - M, i, I, T) = IF Past(i - 1, I, A, M) < 0
                                            THEN T + Past(i - 1, I, A, M)
                                            ELSE Past(i - 1, I, A, M)
<1>1. /\ S \in {1, 2, 3, 4} /\ I \in Nat /\ A \in Nat /\ M \in Nat /\ T \in Nat /\ K \in Nat
      /\ K > 1 /\ S * I <= M /\ A < M /\ 2 * M <= T /\ X \in Int /\ j \in 0 .. K - 1
  BY DEF Revolution, Begins
<1>2. /\ j = 0 => X = A
      /\ j > 0 => X >= A + M
      /\ j < K - 1 => X <= A + T - 2 * M
      /\ j = K - 1 => X = A + T - M
  BY DEF Begins
<1> DEFINE n == i - 1
           p == n * I
<1>3. n \in 0 .. S
  BY <1>1
<1>4. /\ (X + p) % T = Reduced(X + p, T)
      /\ (X - M + p) % T = Reduced(X - M + p, T)
  <2> HIDE DEF n
  <2> QED BY <1>3, AngleIsReduced
<1>5. p \in Nat /\ p <= M
  <2>1. n \in 0 .. 4 /\ S \in 0 .. 4
    BY <1>1, <1>3
  <2> HIDE DEF n
  <2>2. S * I = (IF S = 1 THEN I ELSE IF S = 2 THEN 2 * I ELSE IF S = 3 THEN 3 * I ELSE 4 * I)
    BY <1>1, <2>1, FewSpaces
  <2>3. p \in Nat /\ p = (IF n = 0 THEN 0 ELSE IF n = 1 THEN I ELSE IF n = 2 THEN 2 * I
                           ELSE IF n = 3 THEN 3 * I ELSE 4 * I)
    BY <1>1, <2>1, FewSpaces
  <2> HIDE DEF p
  <2> QED BY <1>1, <1>3, <2>1, <2>2, <2>3
<1>6. /\ Angle(X, i, I, T) = Reduced(X + p, T)
      /\ Angle(X - M, i, I, T) = Reduced(X - M + p, T)
      /\ Past(i - 1, I, A, M) = A - M + p
  BY <1>4 DEF Angle, Past
<1> HIDE DEF n, p
<1>7. j < K - 1 => Angle(X, i, I, T) = X + p
  BY <1>1, <1>2, <1>5, <1>6 DEF Reduced
<1>8. j = K - 1 => Angle(X, i, I, T) = IF A - M + p < 0 THEN T + A - M + p ELSE A - M + p
  BY <1>1, <1>2, <1>5, <1>6 DEF Reduced
<1>9. j > 0 => Angle(X - M, i, I, T) = X - M + p
  BY <1>1, <1>2, <1>5, <1>6 DEF Reduced
<1>10. j = 0 => Angle(X - M, i, I, T) = IF A - M + p < 0 THEN T + A - M + p ELSE A - M + p
  BY <1>1, <1>2, <1>5, <1>6 DEF Reduced
<1>11. T + (A - M + p) = T + A - M + p
  BY <1>1, <1>5
<1>12. p = (i - 1) * I
  BY DEF p, n
<1> QED BY <1>6, <1>7, <1>8, <1>9, <1>10, <1>11, <1>12

\* The distances grow by the spaces, from before the wrap to about the first angle.
LEMMA PastGrows ==
  ASSUME NEW S, NEW I, NEW A, NEW M, NEW T, NEW K, Revolution(S, I, A, M, T, K)
  PROVE  /\ Past(0, I, A, M) < 0 /\ Past(S, I, A, M) <= A /\ Past(S, I, A, M) > A - S
         /\ \A i \in 1 .. S : Past(i, I, A, M) = Past(i - 1, I, A, M) + I
<1>1. /\ S \in {1, 2, 3, 4} /\ I \in Nat /\ A \in Nat /\ M \in Nat
      /\ S * I <= M /\ M < S * I + S /\ A < M
  BY DEF Revolution
<1>2. ASSUME NEW i \in 1 .. S PROVE Past(i, I, A, M) = Past(i - 1, I, A, M) + I
  <2>1. i \in 0 .. 4 /\ i - 1 \in 0 .. 4 /\ i \in {1, 2, 3, 4}
    BY <1>1
  <2>2. i * I = (i - 1) * I + I /\ (i - 1) * I \in Nat
    BY <1>1, <2>1
  <2> QED BY <1>1, <2>2 DEF Past
<1>3. Past(0, I, A, M) = A - M /\ Past(S, I, A, M) = A - M + S * I
  BY <1>1 DEF Past
<1>4. S * I \in Nat
  BY <1>1
<1> DEFINE p == S * I
<1> HIDE DEF p
<1>5. p \in Nat /\ p <= M /\ M < p + S /\ Past(S, I, A, M) = A - M + p
  BY <1>1, <1>3, <1>4 DEF p
<1> QED BY <1>1, <1>2, <1>3, <1>5

\* Of a format that has its own angles (`own'), looks for the wrap in the space after a
\* sample (`single'), or in the two spaces after it (`double').
Syncs(g, X, i, S, I, M, T) ==
  CASE g = "own"    -> Angle(X, i, I, T) < I
    [] g = "single" -> Near(X, i, 1, I, T)
    [] g = "double" -> /\ Near(X, i, 2, I, T)
                       /\ ~(IF i = 1 THEN Near(X - M, S, 2, I, T) ELSE Near(X, i - 1, 2, I, T))

\* The wrap is between the spaces i - 1 and i of the last capsule.
Crosses(i, I, A, M) == Past(i - 1, I, A, M) < 0 /\ Past(i, I, A, M) >= 0

Formats(S) == IF S >= 2 THEN {"own", "single", "double"} ELSE {"own", "single"}

\* Where a sync bit is: on the sample before the wrap is crossed or on the one after it, as
\* the format has it, and on the first of a turn that begins close to the wrap.
LEMMA SyncIsCrossing ==
  ASSUME NEW S, NEW I, NEW A, NEW M, NEW T, NEW K, Revolution(S, I, A, M, T, K),
         NEW X, NEW j, Begins(X, j, A, M, T, K), NEW i \in 1 .. S, NEW g \in Formats(S)
  PROVE  /\ g = "own" =>
              (Syncs(g, X, i, S, I, M, T)
                 <=> \/ j = 0 /\ i = 1 /\ A < I
                     \/ j = K - 1 /\ i > 1 /\ Crosses(i - 1, I, A, M))
         /\ g = "single" =>
              (Syncs(g, X, i, S, I, M, T) <=> j = K - 1 /\ Crosses(i, I, A, M))
         /\ g = "double" =>
              (Syncs(g, X, i, S, I, M, T)
                 <=> \/ j = 0 /\ i = 1 /\ A < I /\ ~Crosses(S, I, A, M)
                     \/ j = K - 1 /\ Crosses(i, I, A, M))
<1>1. /\ S \in {1, 2, 3, 4} /\ I \in Nat /\ A \in Nat /\ M \in Nat /\ T \in Nat /\ K \in Nat
      /\ K > 1 /\ A < M /\ 2 * M <= T /\ X \in Int /\ j \in 0 .. K - 1 /\ i \in 1 .. S
  BY DEF Revolution, Begins
<1>2. /\ j = 0 => X = A
      /\ j > 0 => X >= A + M
  BY DEF Begins
<1>3. /\ \A n \in 0 .. S : Past(n, I, A, M) \in Int
      /\ \A n \in 1 .. S : Past(n, I, A, M) = Past(n - 1, I, A, M) + I
      /\ Past(0, I, A, M) < 0 /\ Past(S, I, A, M) <= A /\ Past(0, I, A, M) = A - M
  BY PastIsInt, PastGrows
<1>4. I <= M
  <2>1. Past(1, I, A, M) = Past(0, I, A, M) + I
    BY <1>1, <1>3
  <2>2. S * I <= M
    BY DEF Revolution
  <2> QED BY <1>1, <2>2
<1>5. /\ i \in 0 .. S /\ i - 1 \in 0 .. S /\ i - 1 < S
      /\ i > 1 => i - 1 \in 1 .. S /\ i - 2 \in 0 .. S
  BY <1>1
<1> DEFINE a == Past(i, I, A, M)
           b == Past(i - 1, I, A, M)
           c == Past(i - 2, I, A, M)
<1>6. /\ a \in Int /\ b \in Int /\ a = b + I
      /\ i > 1 => c \in Int /\ b = c + I
      /\ i = 1 => b = A - M
      /\ b >= A - M
  <2>1. a = b + I
    BY <1>1, <1>3
  <2>2. i > 1 => Past(i - 1, I, A, M) = Past((i - 1) - 1, I, A, M) + I /\ (i - 1) - 1 = i - 2
    BY <1>1, <1>3, <1>5
  <2>3. (i - 1) * I \in Nat
    BY <1>1
  <2>4. b = A - M + (i - 1) * I
    BY DEF Past
  <2> QED BY <1>1, <1>3, <1>5, <2>1, <2>2, <2>3, <2>4
<1>7. /\ Crosses(i, I, A, M) <=> b < 0 /\ a >= 0
      /\ i > 1 => (Crosses(i - 1, I, A, M) <=> c < 0 /\ b >= 0)
  <2>1. (i - 1) - 1 = i - 2
    BY <1>1
  <2> QED BY <2>1 DEF Crosses
<1>8. ASSUME g = "own"
      PROVE  Syncs(g, X, i, S, I, M, T)
               <=> \/ j = 0 /\ i = 1 /\ A < I
                   \/ j = K - 1 /\ i > 1 /\ Crosses(i - 1, I, A, M)
  <2>1. Syncs(g, X, i, S, I, M, T) <=> Angle(X, i, I, T) < I
    BY <1>8 DEF Syncs
  <2>2. CASE j = K - 1
    <3>1. Angle(X, i, I, T) = IF b < 0 THEN T + b ELSE b
      BY <2>2, AngleIs
    <3> HIDE DEF a, b, c
    <3> QED BY <1>1, <1>4, <1>6, <1>7, <2>1, <2>2, <3>1
  <2>3. CASE j # K - 1
    <3>1. Angle(X, i, I, T) = X + (i - 1) * I
      BY <1>1, <2>3, AngleIs
    <3>2. (i - 1) * I \in Nat /\ (i > 1 => (i - 1) * I >= I) /\ (i = 1 => (i - 1) * I = 0)
      BY <1>1
    <3> DEFINE p == (i - 1) * I
    <3> HIDE DEF p, a, b, c
    <3>3. Angle(X, i, I, T) = X + p /\ p \in Nat /\ (i > 1 => p >= I) /\ (i = 1 => p = 0)
      BY <3>1, <3>2 DEF p
    <3> QED BY <1>1, <1>2, <1>4, <2>1, <2>3, <3>3
  <2> QED BY <2>2, <2>3
<1>9. ASSUME g = "single"
      PROVE  Syncs(g, X, i, S, I, M, T) <=> j = K - 1 /\ Crosses(i, I, A, M)
  <2>1. Syncs(g, X, i, S, I, M, T) <=> Near(X, i, 1, I, T)
    BY <1>9 DEF Syncs
  <2>2. Near(X, i, 1, I, T) <=> j = K - 1 /\ a >= 0 /\ a < 1 * I
    BY <1>1, NearIsPast
  <2> HIDE DEF a, b, c
  <2> QED BY <1>1, <1>6, <1>7, <2>1, <2>2
<1>10. ASSUME g = "double"
       PROVE  Syncs(g, X, i, S, I, M, T)
                <=> \/ j = 0 /\ i = 1 /\ A < I /\ ~Crosses(S, I, A, M)
                    \/ j = K - 1 /\ Crosses(i, I, A, M)
  <2>0. S >= 2 /\ S \in 1 .. S /\ 2 <= S /\ 2 \in {1, 2}
    BY <1>1, <1>10 DEF Formats
  <2>1. Syncs(g, X, i, S, I, M, T)
          <=> /\ Near(X, i, 2, I, T)
              /\ ~(IF i = 1 THEN Near(X - M, S, 2, I, T) ELSE Near(X, i - 1, 2, I, T))
    BY <1>10 DEF Syncs
  <2>a. ASSUME NEW n \in 1 .. S
        PROVE  Near(X, n, 2, I, T)
                 <=> \/ j = 0 /\ n = 1 /\ A < I
                     \/ j = K - 1 /\ Past(n, I, A, M) >= 0 /\ Past(n, I, A, M) < 2 * I
    <3>1. Near(X, n, 2, I, T)
            <=> \/ j = 0 /\ n = 1 /\ 2 = 2 /\ A < I
                \/ j = K - 1 /\ Past(n, I, A, M) >= 0 /\ Past(n, I, A, M) < 2 * I
      BY <2>0, NearIsPast
    <3> QED BY <3>1
  <2>2. Near(X, i, 2, I, T)
          <=> \/ j = 0 /\ i = 1 /\ A < I
              \/ j = K - 1 /\ a >= 0 /\ a < 2 * I
    BY <2>a
  <2>3. i > 1 => (Near(X, i - 1, 2, I, T)
                    <=> \/ j = 0 /\ i - 1 = 1 /\ A < I
                        \/ j = K - 1 /\ b >= 0 /\ b < 2 * I)
    <3>1. i > 1 => i - 1 \in 1 .. S
      BY <1>5
    <3> QED BY <2>a, <3>1
  <2>4. Near(X - M, S, 2, I, T)
          <=> j = 0 /\ Past(S, I, A, M) >= 0 /\ Past(S, I, A, M) < 2 * I
    BY <1>1, <2>0, NearIsPast
  <2> DEFINE y == Past(S, I, A, M)
             z == Past(S - 1, I, A, M)
  <2>5. y \in Int /\ z \in Int /\ y = z + I /\ y <= A /\ (Crosses(S, I, A, M) <=> z < 0 /\ y >= 0)
    <3>1. S \in 0 .. S /\ S - 1 \in 0 .. S
      BY <1>1
    <3> QED BY <1>3, <2>0, <3>1 DEF Crosses
  <2>6. Near(X - M, S, 2, I, T) <=> j = 0 /\ y >= 0 /\ y < 2 * I
    BY <2>4
  <2> HIDE DEF a, b, c, y, z
  <2>7. CASE i = 1 /\ j = 0
    <3>1. j # K - 1
      BY <1>1, <2>7
    <3>2. Syncs(g, X, i, S, I, M, T) <=> A < I /\ ~(y >= 0 /\ y < 2 * I)
      <4>1. Near(X, i, 2, I, T) <=> A < I
        BY <2>2, <2>7, <3>1
      <4> QED BY <2>1, <2>6, <2>7, <4>1
    <3>3. A < I => (y >= 0 /\ y < 2 * I <=> z < 0 /\ y >= 0)
      BY <1>1, <2>5
    <3> QED BY <2>5, <2>7, <3>1, <3>2, <3>3
  <2>8. CASE i = 1 /\ j # 0
    BY <1>1, <1>6, <1>7, <2>1, <2>2, <2>6, <2>8
  <2>9. CASE i # 1
    BY <1>1, <1>6, <1>7, <2>1, <2>2, <2>3, <2>9
  <2> QED BY <2>7, <2>8, <2>9
<1> QED BY <1>8, <1>9, <1>10

\* The angle of the sample before.
Before(X, i, S, I, M, T) == IF i = 1 THEN Angle(X - M, S, I, T) ELSE Angle(X, i - 1, I, T)

\* The angle rises from sample to sample, except where the wrap is crossed.
LEMMA AnglesRise ==
  ASSUME NEW S, NEW I, NEW A, NEW M, NEW T, NEW K, Revolution(S, I, A, M, T, K), I > 0,
         NEW X, NEW j, Begins(X, j, A, M, T, K), NEW i \in 1 .. S
  PROVE  \/ Before(X, i, S, I, M, T) < Angle(X, i, I, T)
         \/ j = K - 1 /\ i > 1 /\ Crosses(i - 1, I, A, M)
         \/ j = 0 /\ i = 1 /\ Past(S - 1, I, A, M) < 0
<1>1. /\ S \in {1, 2, 3, 4} /\ I \in Nat /\ A \in Nat /\ M \in Nat /\ T \in Nat /\ K \in Nat
      /\ K > 1 /\ A < M /\ 2 * M <= T /\ X \in Int /\ j \in 0 .. K - 1 /\ i \in 1 .. S
      /\ (j = 0 => X = A) /\ (j = K - 1 => X = A + T - M)
  BY DEF Revolution, Begins
<1>2. /\ \A n \in 0 .. S : Past(n, I, A, M) \in Int
      /\ \A n \in 1 .. S : Past(n, I, A, M) = Past(n - 1, I, A, M) + I
      /\ Past(0, I, A, M) = A - M /\ Past(S, I, A, M) <= A
  BY PastIsInt, PastGrows
<1>3. CASE i = 1
  <2> DEFINE y == Past(S - 1, I, A, M)
             p == (S - 1) * I
  <2>1. y \in Int /\ y + I <= A
    <3>1. S \in 1 .. S /\ S - 1 \in 0 .. S
      BY <1>1
    <3> QED BY <1>1, <1>2, <3>1
  <2>2. p \in Nat /\ p < M /\ y = A - M + p
    <3>1. p \in Nat
      BY <1>1
    <3>2. y = A - M + p
      BY DEF Past
    <3> HIDE DEF p, y
    <3> QED BY <1>1, <2>1, <3>1, <3>2
  <2>3. Before(X, i, S, I, M, T) = Angle(X - M, S, I, T)
    BY <1>3 DEF Before
  <2>4. S \in 1 .. S
    BY <1>1
  <2>5. /\ j > 0 => Angle(X - M, S, I, T) = X - M + p
        /\ j = 0 => Angle(X - M, S, I, T) = IF y < 0 THEN T + y ELSE y
    BY <2>4, AngleIs
  <2>6. Angle(X, i, I, T) = X
    <3>1. CASE j = K - 1
      <4>1. i - 1 = 0 /\ Past(i - 1, I, A, M) = A - M
        BY <1>2, <1>3
      <4>2. Angle(X, i, I, T) = IF Past(i - 1, I, A, M) < 0 THEN T + Past(i - 1, I, A, M)
                                                           ELSE Past(i - 1, I, A, M)
        BY <3>1, AngleIs
      <4> QED BY <1>1, <3>1, <4>1, <4>2
    <3>2. CASE j < K - 1
      <4>1. Angle(X, i, I, T) = X + (i - 1) * I
        BY <3>2, AngleIs
      <4> QED BY <1>1, <1>3, <4>1
    <3> QED BY <1>1, <3>1, <3>2
  <2> HIDE DEF y, p
  <2>7. Past(S - 1, I, A, M) = y
    BY DEF y
  <2> QED BY <1>1, <1>3, <2>1, <2>2, <2>3, <2>5, <2>6, <2>7
<1>4. CASE i > 1
  <2> DEFINE b == Past(i - 1, I, A, M)
             c == Past(i - 2, I, A, M)
             n == i - 1
  <2>1. n \in 1 .. S /\ n - 1 \in 0 .. S /\ n - 1 = i - 2
    BY <1>1, <1>4
  <2>2. b \in Int /\ c \in Int /\ b = c + I /\ b >= A - M
    <3>1. b = Past(n, I, A, M) /\ c = Past(n - 1, I, A, M)
      BY <2>1
    <3>2. n * I \in Nat
      BY <1>1, <2>1
    <3>3. Past(n, I, A, M) = A - M + n * I
      BY DEF Past
    <3> HIDE DEF n
    <3>4. n \in 0 .. S
      BY <1>1, <2>1
    <3>5. b >= A - M
      BY <1>1, <3>1, <3>2, <3>3
    <3> QED BY <1>2, <2>1, <3>1, <3>4, <3>5
  <2>3. Crosses(i - 1, I, A, M) <=> c < 0 /\ b >= 0
    BY <2>1 DEF Crosses
  <2>4. Before(X, i, S, I, M, T) = Angle(X, n, I, T)
    BY <1>4 DEF Before
  <2>5. CASE j = K - 1
    <3>1. Angle(X, i, I, T) = IF b < 0 THEN T + b ELSE b
      BY <2>5, AngleIs
    <3>2. Angle(X, n, I, T) = IF c < 0 THEN T + c ELSE c
      <4>1. Angle(X, n, I, T) = IF Past(n - 1, I, A, M) < 0 THEN T + Past(n - 1, I, A, M)
                                                           ELSE Past(n - 1, I, A, M)
        <5> HIDE DEF n
        <5> QED BY <2>1, <2>5, AngleIs
      <4> QED BY <2>1, <4>1
    <3> HIDE DEF b, c, n
    <3> QED BY <1>1, <1>4, <2>2, <2>3, <2>4, <2>5, <3>1, <3>2
  <2>6. CASE j # K - 1
    <3>0. j < K - 1
      BY <1>1, <2>6
    <3>1. Angle(X, i, I, T) = X + (i - 1) * I
      BY <3>0, AngleIs
    <3>2. Angle(X, n, I, T) = X + (n - 1) * I
      <4> HIDE DEF n
      <4> QED BY <2>1, <3>0, AngleIs
    <3>3. (i - 1) * I = (n - 1) * I + I /\ (n - 1) * I \in Nat
      BY <1>1, <2>1
    <3> HIDE DEF n
    <3> QED BY <1>1, <2>4, <3>1, <3>2, <3>3
  <2> QED BY <2>5, <2>6
<1> QED BY <1>1, <1>3, <1>4

\* The place of the sample i of capsule j in the turn; the places of capsules.
Place(i, j, S) == j * S + i - 1

\* Products of places by the samples of a capsule.
LEMMA PlacesOfCapsules ==
  ASSUME NEW S \in {1, 2, 3, 4}, NEW K \in Nat \ {0, 1}, NEW j \in 0 .. K - 1
  PROVE  /\ j * S \in Nat /\ K * S \in Nat /\ K * S >= 2 * S
         /\ j = 0 => j * S = 0
         /\ j > 0 => j * S >= S
         /\ j < K - 1 => j * S <= K * S - 2 * S /\ (j + 1) * S = j * S + S
         /\ j = K - 1 => j * S = K * S - S
<1>1. CASE S = 1
  BY <1>1
<1>2. CASE S = 2
  BY <1>2
<1>3. CASE S = 3
  BY <1>3
<1>4. CASE S = 4
  BY <1>4
<1> QED BY <1>1, <1>2, <1>3, <1>4

\* A turn has one sync bit, at w, or none, and angles rise elsewhere.
After(p, n) == IF p = n - 1 THEN 0 ELSE p + 1

Here(g, w, X, i, j, S, I, M, T, K) ==
  /\ Syncs(g, X, i, S, I, M, T) <=> Place(i, j, S) = w
  /\ w >= 0 /\ Place(i, j, S) # w /\ Place(i, j, S) # After(w, K * S)
       => Before(X, i, S, I, M, T) < Angle(X, i, I, T)

OneWrap(g, w, S, I, A, M, T, K) ==
  \A j \in 0 .. K - 1 : \A X \in Int : Begins(X, j, A, M, T, K) =>
    \A i \in 1 .. S : Here(g, w, X, i, j, S, I, M, T, K)

\* Wherever a turn begins, and in every format, its samples have one sync bit or none, in the
\* same place in every turn, and their angles rise from each place to the next save that one.
LEMMA TurnHasOneWrap ==
  ASSUME NEW S, NEW I, NEW A, NEW M, NEW T, NEW K, Revolution(S, I, A, M, T, K),
         NEW g \in Formats(S)
  PROVE  \E w \in -1 .. K * S - 1 : OneWrap(g, w, S, I, A, M, T, K)
<1> DEFINE N == K * S
<1>1. /\ S \in {1, 2, 3, 4} /\ I \in Nat /\ A \in Nat /\ M \in Nat /\ K \in Nat \ {0, 1} /\ A < M
      /\ N \in Nat /\ N >= 2 * S /\ g \in {"own", "single", "double"}
  <2>1. /\ S \in {1, 2, 3, 4} /\ I \in Nat /\ A \in Nat /\ M \in Nat /\ K \in Nat \ {0, 1} /\ A < M
    BY DEF Revolution
  <2>2. 0 \in 0 .. K - 1
    BY <2>1
  <2> QED BY <2>1, <2>2, PlacesOfCapsules DEF Formats
<1>2. ASSUME NEW m \in 0 .. S, NEW n \in 0 .. S, m <= n
      PROVE  /\ Past(m, I, A, M) \in Int /\ Past(n, I, A, M) \in Int
             /\ Past(m, I, A, M) <= Past(n, I, A, M)
  <2>1. m \in 0 .. 4 /\ n \in 0 .. 4 /\ m \in {0, 1, 2, 3, 4} /\ n \in {0, 1, 2, 3, 4}
    BY <1>1
  <2>2. m * I \in Nat /\ n * I \in Nat /\ m * I <= n * I
    BY <1>1, <1>2, <2>1
  <2> QED BY <1>1, <2>2 DEF Past
<1>3. /\ \A n \in 1 .. S : Past(n, I, A, M) = Past(n - 1, I, A, M) + I
      /\ Past(0, I, A, M) < 0 /\ Past(S, I, A, M) <= A
  BY PastGrows
<1>4. ASSUME NEW m \in 1 .. S, NEW n \in 1 .. S, Crosses(m, I, A, M), Crosses(n, I, A, M)
      PROVE  m = n
  <2>1. ASSUME NEW x \in 1 .. S, NEW y \in 1 .. S, x < y, Crosses(x, I, A, M), Crosses(y, I, A, M)
        PROVE  FALSE
    <3>1. x \in 0 .. S /\ y - 1 \in 0 .. S /\ x <= y - 1
      BY <1>1, <2>1
    <3> DEFINE z == y - 1
    <3>2. Past(x, I, A, M) >= 0 /\ Past(z, I, A, M) < 0
      BY <2>1 DEF Crosses
    <3> HIDE DEF z
    <3>3. /\ Past(x, I, A, M) \in Int /\ Past(z, I, A, M) \in Int
          /\ Past(x, I, A, M) <= Past(z, I, A, M)
      BY <1>2, <3>1 DEF z
    <3> QED BY <3>2, <3>3
  <2> QED BY <1>1, <1>4, <2>1
<1>5. ASSUME NEW w \in -1 .. N - 1, w >= 0 => I > 0,
             \A j \in 0 .. K - 1 : \A i \in 1 .. S :
               /\ g = "own" =>
                    (Place(i, j, S) = w <=> \/ j = 0 /\ i = 1 /\ A < I
                                            \/ j = K - 1 /\ i > 1 /\ Crosses(i - 1, I, A, M))
               /\ g = "single" =>
                    (Place(i, j, S) = w <=> j = K - 1 /\ Crosses(i, I, A, M))
               /\ g = "double" =>
                    (Place(i, j, S) = w <=> \/ j = 0 /\ i = 1 /\ A < I /\ ~Crosses(S, I, A, M)
                                            \/ j = K - 1 /\ Crosses(i, I, A, M))
               /\ w >= 0 /\ j = K - 1 /\ i > 1 /\ Crosses(i - 1, I, A, M)
                    => Place(i, j, S) = w \/ Place(i, j, S) = After(w, N)
               /\ w >= 0 /\ j = 0 /\ i = 1 /\ Past(S - 1, I, A, M) < 0
                    => Place(i, j, S) = w \/ Place(i, j, S) = After(w, N)
      PROVE  OneWrap(g, w, S, I, A, M, T, K)
  <2> SUFFICES ASSUME NEW j \in 0 .. K - 1, NEW X \in Int, Begins(X, j, A, M, T, K),
                      NEW i \in 1 .. S
               PROVE  Here(g, w, X, i, j, S, I, M, T, K)
    BY DEF OneWrap
  <2>1. Syncs(g, X, i, S, I, M, T) <=> Place(i, j, S) = w
    <3>1. CASE g = "own"
      BY <1>5, <3>1, SyncIsCrossing
    <3>2. CASE g = "single"
      BY <1>5, <3>2, SyncIsCrossing
    <3>3. CASE g = "double"
      BY <1>5, <3>3, SyncIsCrossing
    <3> QED BY <1>1, <3>1, <3>2, <3>3
  <2>2. ASSUME w >= 0
        PROVE  \/ Place(i, j, S) = w \/ Place(i, j, S) = After(w, N)
               \/ Before(X, i, S, I, M, T) < Angle(X, i, I, T)
    <3>1. \/ Before(X, i, S, I, M, T) < Angle(X, i, I, T)
          \/ j = K - 1 /\ i > 1 /\ Crosses(i - 1, I, A, M)
          \/ j = 0 /\ i = 1 /\ Past(S - 1, I, A, M) < 0
      BY <1>5, <2>2, AnglesRise
    <3> QED BY <1>5, <2>2, <3>1
  <2> QED BY <2>1, <2>2 DEF Here
<1>6. ASSUME NEW j \in 0 .. K - 1, NEW i \in 1 .. S
      PROVE  /\ Place(i, j, S) \in Nat
             /\ j = 0 => Place(i, j, S) = i - 1
             /\ j # 0 => Place(i, j, S) > 0
             /\ j = K - 1 => Place(i, j, S) = N - S + i - 1
             /\ j # K - 1 => Place(i, j, S) < N - S
  <2>1. /\ j * S \in Nat
        /\ j = 0 => j * S = 0
        /\ j > 0 => j * S >= S
        /\ j < K - 1 => j * S <= N - 2 * S
        /\ j = K - 1 => j * S = N - S
    BY <1>1, PlacesOfCapsules
  <2> DEFINE q == j * S
  <2> HIDE DEF q
  <2>2. /\ q \in Nat /\ Place(i, j, S) = q + i - 1
        /\ j = 0 => q = 0
        /\ j > 0 => q >= S
        /\ j < K - 1 => q <= N - 2 * S
        /\ j = K - 1 => q = N - S
    BY <2>1 DEF q, Place
  <2> HIDE DEF N
  <2> QED BY <1>1, <2>2
<1>7. CASE \E n \in 1 .. S : Crosses(n, I, A, M)
  <2>1. PICK n \in 1 .. S : Crosses(n, I, A, M)
    BY <1>7
  <2>2. I > 0
    <3>1. n - 1 \in 0 .. S /\ n \in 0 .. S
      BY <1>1
    <3> DEFINE y == Past(n, I, A, M)
               z == Past(n - 1, I, A, M)
    <3>2. y \in Int /\ z \in Int /\ y = z + I /\ z < 0 /\ y >= 0
      BY <1>2, <1>3, <2>1, <3>1 DEF Crosses
    <3> HIDE DEF y, z
    <3> QED BY <1>1, <3>2
  <2>3. /\ Past(S - 1, I, A, M) < 0 => n = S
        /\ n < S => ~(A < I)
    <3> SUFFICES ASSUME n # S PROVE Past(S - 1, I, A, M) >= 0 /\ Past(S - 1, I, A, M) \in Int /\ A >= I
      BY <1>1
    <3> DEFINE y == Past(n, I, A, M)
               m == S - 1
               z == Past(m, I, A, M)
    <3>1. n \in 0 .. S /\ m \in 0 .. S /\ n <= m /\ S \in 1 .. S
      BY <1>1
    <3>2. y >= 0
      BY <2>1 DEF Crosses
    <3>3. z \in Int /\ y \in Int /\ y <= z
      <4> HIDE DEF m
      <4> QED BY <1>2, <3>1
    <3>4. Past(S, I, A, M) = z + I /\ Past(S, I, A, M) <= A
      BY <1>3, <3>1
    <3> HIDE DEF y, z
    <3>5. z >= 0 /\ A >= I
      BY <1>1, <3>2, <3>3, <3>4
    <3> QED BY <3>3, <3>5 DEF z
  <2>4. \A i \in 1 .. S : Crosses(i, I, A, M) <=> i = n
    BY <1>4, <2>1
  <2>5. \A i \in 1 .. S : i > 1 => (Crosses(i - 1, I, A, M) <=> i - 1 = n)
    <3> SUFFICES ASSUME NEW i \in 1 .. S, i > 1 PROVE Crosses(i - 1, I, A, M) <=> i - 1 = n
      OBVIOUS
    <3>1. i - 1 \in 1 .. S
      BY <1>1
    <3> QED BY <2>4, <3>1
  <2>6. Crosses(S, I, A, M) <=> n = S
    <3>1. S \in 1 .. S
      BY <1>1
    <3> QED BY <2>4, <3>1
  <2> DEFINE w == IF g # "own" THEN N - S + n - 1
                  ELSE IF n < S THEN N - S + n ELSE IF A < I THEN 0 ELSE -1
  <2> HIDE DEF N
  <2>7. w \in -1 .. N - 1 /\ (w >= 0 => I > 0)
    BY <1>1, <2>2
  <2>8. ASSUME NEW j \in 0 .. K - 1, NEW i \in 1 .. S
        PROVE  /\ g = "own" =>
                    (Place(i, j, S) = w <=> \/ j = 0 /\ i = 1 /\ A < I
                                            \/ j = K - 1 /\ i > 1 /\ Crosses(i - 1, I, A, M))
               /\ g = "single" =>
                    (Place(i, j, S) = w <=> j = K - 1 /\ Crosses(i, I, A, M))
               /\ g = "double" =>
                    (Place(i, j, S) = w <=> \/ j = 0 /\ i = 1 /\ A < I /\ ~Crosses(S, I, A, M)
                                            \/ j = K - 1 /\ Crosses(i, I, A, M))
               /\ w >= 0 /\ j = K - 1 /\ i > 1 /\ Crosses(i - 1, I, A, M)
                    => Place(i, j, S) = w \/ Place(i, j, S) = After(w, N)
               /\ w >= 0 /\ j = 0 /\ i = 1 /\ Past(S - 1, I, A, M) < 0
                    => Place(i, j, S) = w \/ Place(i, j, S) = After(w, N)
    <3> DEFINE p == Place(i, j, S)
    <3>1. /\ p \in Nat
          /\ j = 0 => p = i - 1
          /\ j # 0 => p > 0
          /\ j = K - 1 => p = N - S + i - 1
          /\ j # K - 1 => p < N - S
      BY <1>6
    <3> HIDE DEF p
    <3>2. j \in 0 .. K - 1 /\ i \in 1 .. S /\ n \in 1 .. S
      OBVIOUS
    <3>3. /\ Crosses(i, I, A, M) <=> i = n
          /\ i > 1 => (Crosses(i - 1, I, A, M) <=> i - 1 = n)
      BY <2>4, <2>5
    <3>4. CASE g = "own"
      <4>1. p = w <=> \/ j = 0 /\ i = 1 /\ A < I
                      \/ j = K - 1 /\ i > 1 /\ i - 1 = n
        BY <1>1, <2>3, <3>1, <3>2, <3>4
      <4>2. w >= 0 /\ j = K - 1 /\ i > 1 /\ i - 1 = n => p = w
        BY <1>1, <3>1, <3>2, <3>4
      <4>3. w >= 0 /\ j = 0 /\ i = 1 /\ n = S => p = w
        BY <1>1, <3>1, <3>2, <3>4
      <4> HIDE DEF w
      <4> QED BY <2>3, <3>3, <3>4, <4>1, <4>2, <4>3 DEF p
    <3>5. CASE g # "own"
      <4>1. p = w <=> j = K - 1 /\ i = n
        BY <1>1, <3>1, <3>2, <3>5
      <4>2. j = K - 1 /\ i > 1 /\ i - 1 = n => p = After(w, N)
        BY <1>1, <3>1, <3>2, <3>5 DEF After
      <4>3. j = 0 /\ i = 1 /\ n = S => p = After(w, N)
        BY <1>1, <3>1, <3>2, <3>5 DEF After
      <4> HIDE DEF w
      <4>4. j = 0 /\ i = 1 /\ A < I => n = S
        BY <2>3, <3>2, <1>1
      <4> QED BY <2>3, <2>6, <3>3, <3>5, <4>1, <4>2, <4>3, <4>4 DEF p
    <3> QED BY <3>4, <3>5
  <2> HIDE DEF w
  <2>9. OneWrap(g, w, S, I, A, M, T, K)
    BY <1>5, <2>7, <2>8
  <2> QED BY <2>7, <2>9 DEF N
<1>8. CASE ~\E n \in 1 .. S : Crosses(n, I, A, M)
  <2>1. /\ \A i \in 1 .. S : ~Crosses(i, I, A, M)
        /\ \A i \in 1 .. S : i > 1 => ~Crosses(i - 1, I, A, M)
        /\ ~Crosses(S, I, A, M)
    <3>1. \A i \in 1 .. S : i > 1 => i - 1 \in 1 .. S
      BY <1>1
    <3>2. S \in 1 .. S
      BY <1>1
    <3> QED BY <1>8, <3>1, <3>2
  <2> DEFINE w == IF g # "single" /\ A < I THEN 0 ELSE -1
  <2> HIDE DEF N
  <2>2. w \in -1 .. N - 1 /\ (w >= 0 => I > 0)
    BY <1>1
  <2>3. ASSUME NEW j \in 0 .. K - 1, NEW i \in 1 .. S
        PROVE  /\ g = "own" =>
                    (Place(i, j, S) = w <=> \/ j = 0 /\ i = 1 /\ A < I
                                            \/ j = K - 1 /\ i > 1 /\ Crosses(i - 1, I, A, M))
               /\ g = "single" =>
                    (Place(i, j, S) = w <=> j = K - 1 /\ Crosses(i, I, A, M))
               /\ g = "double" =>
                    (Place(i, j, S) = w <=> \/ j = 0 /\ i = 1 /\ A < I /\ ~Crosses(S, I, A, M)
                                            \/ j = K - 1 /\ Crosses(i, I, A, M))
               /\ w >= 0 /\ j = K - 1 /\ i > 1 /\ Crosses(i - 1, I, A, M)
                    => Place(i, j, S) = w \/ Place(i, j, S) = After(w, N)
               /\ w >= 0 /\ j = 0 /\ i = 1 /\ Past(S - 1, I, A, M) < 0
                    => Place(i, j, S) = w \/ Place(i, j, S) = After(w, N)
    <3> DEFINE p == Place(i, j, S)
    <3>1. /\ p \in Nat
          /\ j = 0 => p = i - 1
          /\ j # 0 => p > 0
      BY <1>6
    <3> HIDE DEF p
    <3>2. j \in 0 .. K - 1 /\ i \in 1 .. S /\ ~Crosses(i, I, A, M)
          /\ (i > 1 => ~Crosses(i - 1, I, A, M))
      BY <2>1
    <3>3. p = w <=> g # "single" /\ j = 0 /\ i = 1 /\ A < I
      BY <1>1, <3>1, <3>2
    <3>4. w >= 0 /\ j = 0 /\ i = 1 => p = w
      BY <1>1, <3>1
    <3> HIDE DEF w
    <3> QED BY <1>1, <2>1, <3>2, <3>3, <3>4 DEF p
  <2> HIDE DEF w
  <2>4. OneWrap(g, w, S, I, A, M, T, K)
    BY <1>5, <2>2, <2>3
  <2> QED BY <2>2, <2>4 DEF N
<1> QED BY <1>7, <1>8

\* What a dense handler makes of the window: no three angles in a row are in it, of the first
\* capsule of a turn only the first can be, and if it is the second of two, the other is
\* the last of the turn.
LEMMA WindowIsShort ==
  ASSUME NEW S \in {3, 4}, NEW I, NEW A, NEW M, NEW T, NEW K, Revolution(S, I, A, M, T, K),
         NEW X, NEW j, Begins(X, j, A, M, T, K)
  PROVE  /\ ~(Near(X, 1, 2, I, T) /\ Near(X - M, S, 2, I, T) /\ Near(X - M, S - 1, 2, I, T))
         /\ ~(Near(X, 2, 2, I, T) /\ Near(X, 1, 2, I, T) /\ Near(X - M, S, 2, I, T))
         /\ \A i \in 3 .. S :
              ~(Near(X, i, 2, I, T) /\ Near(X, i - 1, 2, I, T) /\ Near(X, i - 2, 2, I, T))
         /\ j = 0 => \A i \in 2 .. S : ~Near(X, i, 2, I, T)
         /\ j = 0 /\ Near(X, 1, 2, I, T) =>
              /\ Angle(X, 1, I, T) < I
              /\ Near(X - M, S, 2, I, T) =>
                   \A w : OneWrap("double", w, S, I, A, M, T, K) => w = K * S - 1
<1>1. /\ I \in Nat /\ A \in Nat /\ M \in Nat /\ T \in Nat /\ K \in Nat \ {0, 1} /\ K > 1
      /\ A < M /\ X \in Int /\ j \in 0 .. K - 1 /\ 2 \in {1, 2} /\ 2 <= S
      /\ (j = 0 => X = A)
  BY DEF Revolution, Begins
<1>2. /\ \A n \in 0 .. S : Past(n, I, A, M) \in Int
      /\ \A n \in 1 .. S : Past(n, I, A, M) = Past(n - 1, I, A, M) + I
      /\ Past(0, I, A, M) < 0 /\ Past(S, I, A, M) <= A
  BY PastIsInt, PastGrows
<1>3. ASSUME NEW i \in 1 .. S
      PROVE  /\ Near(X, i, 2, I, T)
                  <=> \/ j = 0 /\ i = 1 /\ A < I
                      \/ j = K - 1 /\ Past(i, I, A, M) >= 0 /\ Past(i, I, A, M) < 2 * I
             /\ i >= 2 => (Near(X - M, i, 2, I, T)
                             <=> j = 0 /\ Past(i, I, A, M) >= 0 /\ Past(i, I, A, M) < 2 * I)
  <2>1. /\ Near(X, i, 2, I, T)
             <=> \/ j = 0 /\ i = 1 /\ 2 = 2 /\ A < I
                 \/ j = K - 1 /\ Past(i, I, A, M) >= 0 /\ Past(i, I, A, M) < 2 * I
        /\ 2 = 2 /\ i >= 2 =>
             (Near(X - M, i, 2, I, T)
                <=> j = 0 /\ Past(i, I, A, M) >= 0 /\ Past(i, I, A, M) < 2 * I)
    BY <1>1, NearIsPast
  <2> QED BY <2>1
<1> DEFINE y == Past(S, I, A, M)
           z == Past(S - 1, I, A, M)
<1>4. y \in Int /\ z \in Int /\ y = z + I /\ y <= A /\ S \in 1 .. S /\ S - 1 \in 1 .. S
  <2>1. S \in 1 .. S /\ S - 1 \in 1 .. S /\ S - 1 \in 0 .. S
    OBVIOUS
  <2> QED BY <1>2, <2>1
<1>5. Near(X - M, S, 2, I, T) <=> j = 0 /\ y >= 0 /\ y < 2 * I
  BY <1>3, <1>4
<1>6. Near(X - M, S - 1, 2, I, T) <=> j = 0 /\ z >= 0 /\ z < 2 * I
  <2>1. S - 1 >= 2
    OBVIOUS
  <2> QED BY <1>3, <1>4, <2>1
<1>7. Near(X, 1, 2, I, T) /\ j = 0 => A < I
  <2>1. 1 \in 1 .. S /\ 0 # K - 1
    BY <1>1
  <2> QED BY <1>3, <2>1
<1>8. ASSUME NEW i \in 2 .. S PROVE Near(X, i, 2, I, T) => j = K - 1
  <2>1. i \in 1 .. S /\ i # 1
    OBVIOUS
  <2> QED BY <1>3, <2>1
<1>9. ~(Near(X, 1, 2, I, T) /\ Near(X - M, S, 2, I, T) /\ Near(X - M, S - 1, 2, I, T))
  <2> HIDE DEF y, z
  <2> QED BY <1>1, <1>4, <1>5, <1>6, <1>7
<1>10. ~(Near(X, 2, 2, I, T) /\ Near(X, 1, 2, I, T) /\ Near(X - M, S, 2, I, T))
  <2>1. 2 \in 2 .. S
    OBVIOUS
  <2> QED BY <1>1, <1>5, <1>8, <2>1
<1>11. ASSUME NEW i \in 3 .. S
       PROVE  ~(Near(X, i, 2, I, T) /\ Near(X, i - 1, 2, I, T) /\ Near(X, i - 2, 2, I, T))
  <2> DEFINE b == i - 1
             c == i - 2
  <2>1. /\ i \in 1 .. S /\ b \in 1 .. S /\ c \in 1 .. S /\ c = b - 1 /\ b # 1 /\ i # 1 /\ b = i - 1
        /\ i \in 0 .. S /\ b \in 0 .. S /\ c \in 0 .. S
    OBVIOUS
  <2> HIDE DEF b, c
  <2>2. /\ Past(i, I, A, M) = Past(b, I, A, M) + I /\ Past(b, I, A, M) = Past(c, I, A, M) + I
        /\ Past(c, I, A, M) \in Int /\ Past(i, I, A, M) \in Int /\ Past(b, I, A, M) \in Int
    BY <1>2, <2>1
  <2>3. Near(X, i, 2, I, T) => j = K - 1 /\ Past(i, I, A, M) < 2 * I
    BY <1>3, <2>1
  <2>4. Near(X, c, 2, I, T) /\ j = K - 1 => Past(c, I, A, M) >= 0
    <3>1. 0 # K - 1
      BY <1>1
    <3> QED BY <1>3, <2>1, <3>1
  <2>5. ~(Near(X, i, 2, I, T) /\ Near(X, b, 2, I, T) /\ Near(X, c, 2, I, T))
    BY <1>1, <2>2, <2>3, <2>4
  <2> QED BY <2>5 DEF b, c
<1>12. ASSUME j = 0, Near(X, 1, 2, I, T)
       PROVE  /\ Angle(X, 1, I, T) < I
              /\ Near(X - M, S, 2, I, T) =>
                   \A w : OneWrap("double", w, S, I, A, M, T, K) => w = K * S - 1
  <2>1. A < I
    BY <1>7, <1>12
  <2>2. Angle(X, 1, I, T) < I
    <3>1. Angle(X, 1, I, T) = X + (1 - 1) * I
      <4>1. 1 \in 1 .. S /\ j < K - 1
        BY <1>1, <1>12
      <4> QED BY <4>1, AngleIs
    <3> QED BY <1>1, <1>12, <2>1, <3>1
  <2>3. ASSUME Near(X - M, S, 2, I, T), NEW w, OneWrap("double", w, S, I, A, M, T, K)
        PROVE  w = K * S - 1
    <3>1. Crosses(S, I, A, M)
      <4>1. y >= 0 /\ z < 0
        <5> HIDE DEF y, z
        <5> QED BY <1>1, <1>4, <1>5, <2>1, <2>3
      <4> QED BY <4>1 DEF Crosses
    <3> DEFINE Y == A + T - M
               l == K - 1
    <3>2. Y \in Int /\ Begins(Y, l, A, M, T, K) /\ l \in 0 .. K - 1 /\ l = K - 1
      BY <1>1 DEF Begins
    <3> HIDE DEF Y, l
    <3>3. "double" \in Formats(S)
      BY DEF Formats
    <3>4. Syncs("double", Y, S, S, I, M, T)
      BY <1>4, <3>1, <3>2, <3>3, SyncIsCrossing
    <3>5. Here("double", w, Y, S, l, S, I, M, T, K)
      BY <1>4, <2>3, <3>2 DEF OneWrap
    <3>6. w = l * S + S - 1
      BY <3>4, <3>5 DEF Here, Place
    <3>7. l * S = K * S - S
      <4>1. S \in {1, 2, 3, 4} /\ K \in Nat \ {0, 1}
        BY <1>1
      <4> QED BY <3>2, <4>1, PlacesOfCapsules
    <3>8. K * S \in Nat
      BY <1>1
    <3> DEFINE N == K * S
    <3> HIDE DEF N
    <3>9. w = N - S + S - 1 /\ N \in Nat
      BY <3>6, <3>7, <3>8 DEF N
    <3>10. w = N - 1
      BY <3>9
    <3> QED BY <3>10 DEF N
  <2> QED BY <2>2, <2>3
<1> QED BY <1>8, <1>9, <1>10, <1>11, <1>12, <1>1

-----------------------------------------------------------------------------
(* A scan in the holder.                                                   *)

\* c nodes were put into s since a sync bit; z is the last of their angles.
Grown(s, c, z) ==
  /\ c \in Nat \ {0} /\ Len(s) = Held(c) /\ s[Len(s)].angle = z /\ s[1].sync
  /\ \A i \in 2 .. Len(s) : ~s[i].sync
  /\ \A i \in 2 .. Len(s) - 1 : s[i].angle < s[i + 1].angle

\* The place p of the turn comes next: what is being filled began at the wrap, at w, or late.
Since(p, w) == IF p > w THEN p - w ELSE p - w + TurnSamples

Collected(s, p, z, w) ==
  \/ s = << >>
  \/ w >= 0 /\ Grown(s, Since(p, w), z)
  \/ w = TurnSamples - 1 /\ p > 0 /\ Grown(s, p, z) /\ BeginsLate(s)

HolderAt(H, p, z, w) ==
  /\ Collected(H.buf[Filling(H)], p, z, w)
  /\ H.avail >= 0 => OneTurn(H.buf[H.avail])

\* One more node.
LEMMA NodeIsAdded ==
  ASSUME MaxSamples \in Nat, MaxSamples > 1, NEW s \in Seq(Nodes(Int)), NEW c, NEW z \in Int,
         Grown(s, c, z), NEW n \in Nodes(Int), ~n.sync, c >= 2 => z < n.angle,
         NEW t, t = IF Len(s) >= MaxSamples THEN [s EXCEPT ![Len(s)] = n] ELSE Append(s, n)
  PROVE  Grown(t, c + 1, n.angle) /\ t[1] = s[1] /\ t # << >>
<1> DEFINE l == Len(s)
<1>1. /\ c \in Nat \ {0} /\ l = Held(c) /\ s[l].angle = z /\ s[1].sync
      /\ \A i \in 2 .. l : ~s[i].sync
      /\ \A i \in 2 .. l - 1 : s[i].angle < s[i + 1].angle
  BY DEF Grown
<1>2. l \in Nat /\ (l = c \/ (l = MaxSamples /\ l < c)) /\ l <= MaxSamples /\ l >= 1
  BY <1>1 DEF Held
<1>3. s \in [1 .. l -> Nodes(Int)]
  BY LenProperties
<1> HIDE DEF l
<1>4. CASE l >= MaxSamples
  <2>1. t = [s EXCEPT ![l] = n]
    BY <1>4 DEF l
  <2>2. t \in [1 .. l -> Nodes(Int)]
    BY <1>2, <1>3, <2>1
  <2>3. t \in Seq(Nodes(Int)) /\ Len(t) = l
    BY <1>2, <2>2, ListIsSequence, LenProperties
  <2>4. t[l] = n /\ \A i \in 1 .. l - 1 : t[i] = s[i]
    BY <1>2, <1>3, <2>1
  <2>5. Len(t) = Held(c + 1)
    BY <1>1, <1>2, <1>4, <2>3 DEF Held
  <2>6. t[1] = s[1] /\ t # << >>
    BY <1>2, <1>4, <2>3, <2>4
  <2>7. ASSUME NEW i \in 2 .. l PROVE ~t[i].sync
    <3>1. CASE i = l
      BY <2>4, <3>1
    <3>2. CASE i # l
      <4>1. i \in 1 .. l - 1
        BY <1>2, <2>7, <3>2
      <4>2. t[i] = s[i] /\ ~s[i].sync
        BY <1>1, <2>4, <2>7, <4>1
      <4> QED BY <4>2
    <3> QED BY <3>1, <3>2
  <2>8. ASSUME NEW i \in 2 .. l - 1 PROVE t[i].angle < t[i + 1].angle
    <3>0. i \in 1 .. l - 1 /\ i \in 1 .. l /\ i + 1 \in 1 .. l /\ (i # l - 1 => i + 1 \in 1 .. l - 1)
      BY <1>2, <2>8
    <3>1. t[i] = s[i] /\ s[i].angle < s[i + 1].angle
      BY <1>1, <2>4, <2>8, <3>0
    <3>2. CASE i = l - 1
      <4>1. i + 1 = l
        BY <1>2, <3>2
      <4>2. s[i + 1].angle = z /\ t[i + 1] = n
        BY <1>1, <2>4, <4>1
      <4>3. s[i].angle \in Int /\ n.angle \in Int
        BY <1>3, <3>0 DEF Nodes
      <4>4. z < n.angle
        BY <1>1, <1>2, <1>4
      <4>5. s[i].angle < z
        BY <3>1, <4>2
      <4>6. s[i].angle < n.angle
        BY <4>3, <4>4, <4>5
      <4> QED BY <3>1, <4>2, <4>6
    <3>3. CASE i # l - 1
      <4>1. t[i + 1] = s[i + 1]
        BY <2>4, <3>0, <3>3
      <4> QED BY <3>1, <4>1
    <3> QED BY <3>2, <3>3
  <2>9. c + 1 \in Nat \ {0}
    BY <1>1
  <2> QED BY <1>1, <2>3, <2>4, <2>5, <2>6, <2>7, <2>8, <2>9 DEF Grown
<1>5. CASE l < MaxSamples
  <2>1. t = Append(s, n)
    BY <1>2, <1>5 DEF l
  <2>2. Len(t) = l + 1 /\ t[l + 1] = n /\ \A i \in 1 .. l : t[i] = s[i]
    BY <2>1, AppendProperties DEF l
  <2>3. l = c /\ Len(t) = Held(c + 1)
    BY <1>1, <1>2, <1>5, <2>2 DEF Held
  <2>4. t[1] = s[1] /\ t # << >>
    BY <1>2, <2>2
  <2>5. ASSUME NEW i \in 2 .. Len(t) PROVE ~t[i].sync
    BY <1>1, <1>2, <2>2, <2>5
  <2>6. ASSUME NEW i \in 2 .. Len(t) - 1 PROVE t[i].angle < t[i + 1].angle
    <3>1. CASE i = l
      BY <1>1, <1>2, <2>2, <2>3, <2>6, <3>1
    <3>2. CASE i # l
      <4>1. i \in 2 .. l - 1 /\ i \in 1 .. l /\ i + 1 \in 1 .. l
        BY <1>2, <2>2, <2>6, <3>2
      <4>2. t[i] = s[i] /\ t[i + 1] = s[i + 1]
        BY <2>2, <4>1
      <4> QED BY <1>1, <4>1, <4>2
    <3> QED BY <3>1, <3>2
  <2>7. c + 1 \in Nat \ {0}
    BY <1>1
  <2> QED BY <1>1, <1>2, <2>2, <2>3, <2>4, <2>5, <2>6, <2>7 DEF Grown
<1> QED BY <1>2, <1>4, <1>5

\* The first node.
LEMMA NodeIsFirst ==
  ASSUME MaxSamples \in Nat, MaxSamples > 1, NEW n \in Nodes(Int), n.sync, NEW t,
         t = IF Len(<< >>) >= MaxSamples THEN [<< >> EXCEPT ![Len(<< >>)] = n]
                                         ELSE Append(<< >>, n)
  PROVE  Grown(t, 1, n.angle) /\ t[1] = n
<1>1. t = Append(<< >>, n) /\ Len(<< >>) = 0
  OBVIOUS
<1>2. Len(t) = 1 /\ t[1] = n
  BY <1>1, AppendProperties, EmptySeq
<1> QED BY <1>2 DEF Grown, Held

\* What a node does to the holder.
LEMMA PushedIs ==
  ASSUME NEW H \in Holders(Int), NEW n
  PROVE  LET f == Filling(H)
             s == H.buf[f]
             Added(x) == IF Len(x) >= MaxSamples THEN [x EXCEPT ![Len(x)] = n] ELSE Append(x, n)
         IN \/ /\ n.sync /\ s # << >>
               /\ Filling(PushScanNode(H, n)) = 1 - f
               /\ PushScanNode(H, n).buf[1 - f] = Added(<< >>)
               /\ PushScanNode(H, n).avail = f /\ PushScanNode(H, n).buf[f] = s
            \/ /\ n.sync \/ s # << >>
               /\ n.sync => s = << >>
               /\ Filling(PushScanNode(H, n)) = f
               /\ PushScanNode(H, n).buf[f] = Added(s)
               /\ PushScanNode(H, n).avail = H.avail
               /\ H.avail >= 0 => PushScanNode(H, n).buf[H.avail] = H.buf[H.avail]
            \/ ~n.sync /\ s = << >> /\ PushScanNode(H, n) = H
<1> DEFINE f == Filling(H)
           s == H.buf[f]
           Added(x) == IF Len(x) >= MaxSamples THEN [x EXCEPT ![Len(x)] = n] ELSE Append(x, n)
           P == PushScanNode(H, n)
<1>1. /\ f \in {0, 1} /\ H.avail \in {-1, 0, 1} /\ H.signal \in BOOLEAN
      /\ f = IF H.avail < 0 THEN 0 ELSE 1 - H.avail
      /\ H.buf \in [{0, 1} -> Seq(Nodes(Int))]
      /\ H = [buf |-> H.buf, avail |-> H.avail, signal |-> H.signal]
  BY DEF Filling, Holders
<1>2. ASSUME NEW G, NEW B \in [{0, 1} -> Seq(Nodes(Int))], NEW a \in {-1, 0, 1}, NEW w,
             G = [buf |-> B, avail |-> a, signal |-> w]
      PROVE  Append1(G, n) = [buf |-> [B EXCEPT ![Filling(G)] = Added(B[Filling(G)])],
                              avail |-> a, signal |-> w]
  <2>1. Append1(G, n) = [G EXCEPT !.buf[Filling(G)] = Added(G.buf[Filling(G)])]
    BY DEF Append1
  <2> HIDE DEF Added
  <2>2. [G EXCEPT !.buf[Filling(G)] = Added(G.buf[Filling(G)])]
          = [G EXCEPT !.buf = [G.buf EXCEPT ![Filling(G)] = Added(G.buf[Filling(G)])]]
    OBVIOUS
  <2> QED BY <1>2, <2>1, <2>2
<1>3. CASE n.sync /\ s # << >>
  <2> DEFINE w == TRUE
             B == [H.buf EXCEPT ![1 - f] = << >>]
             G == [buf |-> B, avail |-> f, signal |-> w]
  <2>1. FinishAndSwap(H) = G
    <3>1. FinishAndSwap(H) = [H EXCEPT !.avail = f, !.buf[1 - f] = << >>, !.signal = w]
      BY DEF FinishAndSwap
    <3> HIDE DEF w, f
    <3> QED BY <1>1, <3>1
  <2>2. B \in [{0, 1} -> Seq(Nodes(Int))] /\ f \in {-1, 0, 1} /\ B[1 - f] = << >> /\ B[f] = s
    <3>1. 1 - f \in {0, 1} /\ 1 - f # f /\ << >> \in Seq(Nodes(Int))
      BY <1>1, EmptySeq
    <3> HIDE DEF f
    <3> QED BY <1>1, <3>1
  <2>3. Filling(G) = 1 - f
    <3> HIDE DEF f, B, w
    <3> QED BY <1>1 DEF Filling
  <2>4. P = Append1(G, n)
    <3> HIDE DEF G, s, f
    <3> QED BY <1>3, <2>1 DEF PushScanNode, s, f
  <2> DEFINE C == [B EXCEPT ![1 - f] = Added(<< >>)]
  <2>5. P = [buf |-> C, avail |-> f, signal |-> w]
    <3> HIDE DEF B, f, w, Added
    <3> QED BY <1>2, <2>2, <2>3, <2>4
  <2>6. C[1 - f] = Added(<< >>) /\ C[f] = s
    <3> HIDE DEF B, f, Added, s
    <3> QED BY <1>1, <2>2
  <2>7. Filling(P) = 1 - f /\ P.buf = C /\ P.avail = f
    <3> HIDE DEF C, f, w, P
    <3> QED BY <1>1, <2>5 DEF Filling
  <2> HIDE DEF C, f, P, w, s, Added
  <2>8. /\ n.sync /\ s # << >> /\ Filling(P) = 1 - f /\ P.buf[1 - f] = Added(<< >>)
        /\ P.avail = f /\ P.buf[f] = s
    BY <1>3, <2>6, <2>7
  <2> QED BY <2>8 DEF P, f, s, Added
<1>4. CASE (n.sync /\ s = << >>) \/ (~n.sync /\ s # << >>)
  <2>1. P = Append1(H, n)
    BY <1>4 DEF PushScanNode
  <2> DEFINE C == [H.buf EXCEPT ![f] = Added(s)]
  <2>2. P = [buf |-> C, avail |-> H.avail, signal |-> H.signal]
    <3> HIDE DEF Added, P
    <3> QED BY <1>1, <1>2, <2>1
  <2>3. C[f] = Added(s) /\ (H.avail >= 0 => C[H.avail] = H.buf[H.avail])
    <3> HIDE DEF f, Added, s
    <3> QED BY <1>1
  <2>4. Filling(P) = f /\ P.buf = C /\ P.avail = H.avail
    <3> HIDE DEF C, f, P
    <3> QED BY <1>1, <2>2 DEF Filling
  <2> HIDE DEF C, f, P, s, Added
  <2>5. /\ n.sync \/ s # << >>
        /\ n.sync => s = << >>
        /\ Filling(P) = f /\ P.buf[f] = Added(s) /\ P.avail = H.avail
        /\ H.avail >= 0 => P.buf[H.avail] = H.buf[H.avail]
    BY <1>4, <2>3, <2>4
  <2> QED BY <2>5 DEF P, f, s, Added
<1>5. CASE ~n.sync /\ s = << >>
  BY <1>5 DEF PushScanNode
<1> QED BY <1>3, <1>4, <1>5

\* A node that comes at the place p of a turn with the wrap at w, after one at the angle z.
Fitting(H, n, p, z, w) ==
  LET s == H.buf[Filling(H)] IN
  /\ n.sync => \/ p = w
               \/ p = 0 /\ w = TurnSamples - 1 /\ s = << >> /\ BeginsLate(<<n>>)
  /\ p = w /\ s # << >> => n.sync
  /\ w >= 0 /\ p # w /\ p # After(w, TurnSamples) => z < n.angle

\* It makes no scan that is not a turn.
LEMMA PushKeeps ==
  ASSUME MaxSamples \in Nat, MaxSamples > 1, NEW H \in Holders(Int),
         TurnSamples \in Nat, TurnSamples >= 2, NEW p \in 0 .. TurnSamples - 1,
         NEW w \in -1 .. TurnSamples - 1, NEW z \in Int, NEW n \in Nodes(Int),
         HolderAt(H, p, z, w), Fitting(H, n, p, z, w)
  PROVE  HolderAt(PushScanNode(H, n), After(p, TurnSamples), n.angle, w)
<1> DEFINE N == TurnSamples
           f == Filling(H)
           s == H.buf[f]
           Added(x) == IF Len(x) >= MaxSamples THEN [x EXCEPT ![Len(x)] = n] ELSE Append(x, n)
           P == PushScanNode(H, n)
           q == After(p, TurnSamples)
<1> HIDE DEF N
<1>1. /\ f \in {0, 1} /\ s \in Seq(Nodes(Int)) /\ H.avail \in {-1, 0, 1} /\ n.sync \in BOOLEAN
      /\ N \in Nat /\ N >= 2 /\ p \in 0 .. N - 1 /\ w \in -1 .. N - 1
  BY DEF Filling, Holders, Nodes, N
<1>2. /\ Collected(s, p, z, w)
      /\ H.avail >= 0 => OneTurn(H.buf[H.avail])
  BY DEF HolderAt
<1>3. \/ s = << >>
      \/ w >= 0 /\ Grown(s, Since(p, w), z)
      \/ w = N - 1 /\ p > 0 /\ Grown(s, p, z) /\ BeginsLate(s)
  BY <1>2 DEF Collected, N
<1>4. /\ n.sync => p = w \/ (p = 0 /\ w = N - 1 /\ s = << >> /\ BeginsLate(<<n>>))
      /\ p = w /\ s # << >> => n.sync
      /\ w >= 0 /\ p # w /\ p # After(w, N) => z < n.angle
  BY DEF Fitting, N
<1>5. \/ /\ n.sync /\ s # << >> /\ Filling(P) = 1 - f /\ P.buf[1 - f] = Added(<< >>)
         /\ P.avail = f /\ P.buf[f] = s
      \/ /\ n.sync \/ s # << >>
         /\ n.sync => s = << >>
         /\ Filling(P) = f /\ P.buf[f] = Added(s) /\ P.avail = H.avail
         /\ H.avail >= 0 => P.buf[H.avail] = H.buf[H.avail]
      \/ ~n.sync /\ s = << >> /\ P = H
  BY PushedIs
<1>6. /\ q = IF p = N - 1 THEN 0 ELSE p + 1
      /\ p = w => Since(q, w) = 1 /\ Since(p, w) = N
      /\ p # w /\ w >= 0 => Since(q, w) = Since(p, w) + 1
      /\ w >= 0 => Since(p, w) \in Nat /\ (Since(p, w) >= 2 => p # After(w, N))
  BY <1>1 DEF After, Since, N
<1>7. n.sync => Grown(Added(<< >>), 1, n.angle) /\ Added(<< >>)[1] = n
  BY NodeIsFirst
<1> HIDE DEF f, s, Added, P, q
<1>8. CASE /\ n.sync /\ s # << >> /\ Filling(P) = 1 - f /\ P.buf[1 - f] = Added(<< >>)
           /\ P.avail = f /\ P.buf[f] = s
  <2>1. p = w /\ w >= 0
    BY <1>1, <1>4, <1>8
  <2>2. Collected(P.buf[Filling(P)], q, n.angle, w)
    BY <1>6, <1>7, <1>8, <2>1 DEF Collected
  <2>3. OneTurn(s)
    <3>1. CASE Grown(s, N, z)
      BY <3>1 DEF Grown, OneTurn, N
    <3>2. CASE w = N - 1 /\ p > 0 /\ Grown(s, p, z) /\ BeginsLate(s)
      <4>1. Grown(s, N - 1, z) /\ BeginsLate(s)
        BY <2>1, <3>2
      <4> QED BY <4>1 DEF Grown, OneTurn, N
    <3> QED BY <1>3, <1>6, <1>8, <2>1, <3>1, <3>2
  <2> QED BY <1>8, <2>2, <2>3 DEF HolderAt, P, q
<1>9. CASE /\ n.sync \/ s # << >>
           /\ n.sync => s = << >>
           /\ Filling(P) = f /\ P.buf[f] = Added(s) /\ P.avail = H.avail
           /\ H.avail >= 0 => P.buf[H.avail] = H.buf[H.avail]
  <2>1. CASE n.sync
    <3>1. s = << >> /\ P.buf[Filling(P)] = Added(<< >>)
      BY <1>9, <2>1
    <3>2. ASSUME p = w PROVE Collected(P.buf[Filling(P)], q, n.angle, w)
      <4>1. w >= 0
        BY <1>1, <3>2
      <4> QED BY <1>6, <1>7, <2>1, <3>1, <3>2, <4>1 DEF Collected
    <3>3. ASSUME p = 0, w = N - 1, BeginsLate(<<n>>)
          PROVE  Collected(P.buf[Filling(P)], q, n.angle, w)
      <4>1. q = 1
        BY <1>1, <1>6, <3>3
      <4>2. <<n>>[1] = n
        OBVIOUS
      <4>3. BeginsLate(Added(<< >>))
        BY <1>7, <2>1, <3>3, <4>2 DEF BeginsLate
      <4>4. Collected(Added(<< >>), q, n.angle, w)
        BY <1>7, <2>1, <3>3, <4>1, <4>3 DEF Collected, N
      <4> QED BY <3>1, <4>4
    <3>4. Collected(P.buf[Filling(P)], q, n.angle, w)
      BY <1>4, <2>1, <3>2, <3>3
    <3> QED BY <1>2, <1>9, <3>4 DEF HolderAt, P, q
  <2>2. CASE ~n.sync
    <3>1. s # << >> /\ p # w /\ P.buf[Filling(P)] = Added(s)
      BY <1>4, <1>9, <2>2
    <3>2. ASSUME NEW c, Grown(s, c, z), c >= 2 => z < n.angle
          PROVE  Grown(Added(s), c + 1, n.angle) /\ Added(s)[1] = s[1]
      <4> DEFINE t == Added(s)
      <4>1. t = IF Len(s) >= MaxSamples THEN [s EXCEPT ![Len(s)] = n] ELSE Append(s, n)
        BY DEF Added
      <4> HIDE DEF t
      <4>2. /\ s \in Seq(Nodes(Int)) /\ n \in Nodes(Int) /\ ~n.sync /\ Grown(s, c, z)
            /\ c >= 2 => z < n.angle
        BY <1>1, <2>2, <3>2
      <4>3. Grown(t, c + 1, n.angle) /\ t[1] = s[1]
        BY <4>1, <4>2, NodeIsAdded, Zenon
      <4> QED BY <4>3 DEF t
    <3>3. ASSUME w >= 0, Grown(s, Since(p, w), z)
          PROVE  Collected(P.buf[Filling(P)], q, n.angle, w)
      <4>1. Since(p, w) >= 2 => z < n.angle
        BY <1>4, <1>6, <3>1, <3>3
      <4>2. Grown(Added(s), Since(p, w) + 1, n.angle)
        BY <3>2, <3>3, <4>1
      <4>3. Since(q, w) = Since(p, w) + 1
        BY <1>6, <3>1, <3>3
      <4> QED BY <3>1, <3>3, <4>2, <4>3 DEF Collected
    <3>4. ASSUME w = N - 1, p > 0, Grown(s, p, z), BeginsLate(s)
          PROVE  Collected(P.buf[Filling(P)], q, n.angle, w)
      <4>1. p >= 2 => z < n.angle
        BY <1>1, <1>4, <3>1, <3>4 DEF After
      <4>2. Grown(Added(s), p + 1, n.angle) /\ Added(s)[1] = s[1]
        BY <3>2, <3>4, <4>1
      <4>3. q = p + 1 /\ q > 0
        BY <1>1, <1>6, <3>1, <3>4
      <4>4. BeginsLate(Added(s))
        BY <3>4, <4>2 DEF BeginsLate
      <4> QED BY <3>1, <3>4, <4>2, <4>3, <4>4 DEF Collected, N
    <3>5. Collected(P.buf[Filling(P)], q, n.angle, w)
      BY <1>3, <3>1, <3>3, <3>4
    <3> QED BY <1>2, <1>9, <3>5 DEF HolderAt, P, q
  <2> QED BY <2>1, <2>2
<1>10. CASE ~n.sync /\ s = << >> /\ P = H
  <2>1. Collected(P.buf[Filling(P)], q, n.angle, w)
    BY <1>10 DEF Collected, s, f
  <2> QED BY <1>2, <1>10, <2>1 DEF HolderAt, P, q
<1> QED BY <1>5, <1>8, <1>9, <1>10

\* The nodes of a capsule in a row, from the place p of the turn.
Paced(G, out, p, z, w) ==
  \A i \in 1 .. Len(out) :
    /\ out[i].sync => \/ p + i - 1 = w
                      \/ /\ i = 1 /\ p = 0 /\ w = TurnSamples - 1
                         /\ G.buf[Filling(G)] = << >> /\ BeginsLate(<<out[1]>>)
    /\ p + i - 1 = w /\ (i = 1 => G.buf[Filling(G)] # << >>) => out[i].sync
    /\ w >= 0 /\ p + i - 1 # w /\ p + i - 1 # After(w, TurnSamples)
         => (IF i = 1 THEN z ELSE out[i - 1].angle) < out[i].angle

\* The place after so many more.
Ahead(p, n) == IF p + n = TurnSamples THEN 0 ELSE p + n

\* They make no scan that is not a turn.
LEMMA PublishKeeps ==
  ASSUME DecoderAssumption, MaxSamples > 1, NEW H \in Holders(Int), NEW res,
         res.out \in Seq(Nodes(Int)), res.out # << >>,
         TurnSamples \in Nat, TurnSamples >= 2, NEW p \in Nat, p + Len(res.out) <= TurnSamples,
         NEW w \in -1 .. TurnSamples - 1, NEW z \in Int,
         NEW G, G = IF res.rewind THEN RewindScan(H) ELSE H,
         HolderAt(G, p, z, w), Paced(G, res.out, p, z, w)
  PROVE  HolderAt(Publish(H, res), Ahead(p, Len(res.out)), res.out[Len(res.out)].angle, w)
<1> DEFINE N == TurnSamples
           n == Len(res.out)
           q(i) == IF p + i = N THEN 0 ELSE p + i
           x(i) == IF i = 0 THEN z ELSE res.out[i].angle
<1>0. PICK d : PublishSteps(d, H, res, Int)
  BY PublishGoesOn
<1>1. /\ d[0] = G
      /\ \A i \in 1 .. n : d[i] = PushScanNode(d[i - 1], res.out[i])
      /\ \A i \in 0 .. n : d[i] \in Holders(Int)
      /\ Publish(H, res) = d[n]
  BY <1>0 DEF PublishSteps
<1>2. /\ N \in Nat /\ N >= 2 /\ n \in Nat \ {0} /\ p + n <= N /\ w \in -1 .. N - 1
      /\ \A i \in 1 .. n : res.out[i] \in Nodes(Int)
  BY LenProperties, ElementOfSeq, EmptySeq
<1>3. MaxSamples \in Nat
  BY DEF DecoderAssumption
<1>4. ASSUME NEW i \in 1 .. n, HolderAt(d[i - 1], q(i - 1), x(i - 1), w)
      PROVE  HolderAt(d[i], q(i), x(i), w)
  <2> DEFINE m == res.out[i]
             F == d[i - 1]
             y == x(i - 1)
  <2>1. /\ m \in Nodes(Int) /\ i - 1 \in 0 .. n /\ p + i - 1 \in 0 .. N - 1
        /\ q(i - 1) = p + i - 1 /\ p + i - 1 = p + (i - 1)
    BY <1>2
  <2>2. F \in Holders(Int) /\ d[i] = PushScanNode(F, m)
    BY <1>1, <2>1
  <2>3. y \in Int
    <3>1. CASE i = 1
      BY <3>1
    <3>2. CASE i # 1
      <4>1. i - 1 \in 1 .. n /\ i - 1 # 0
        BY <1>2, <3>2
      <4>2. res.out[i - 1] \in Nodes(Int)
        BY <1>2, <4>1
      <4> QED BY <4>1, <4>2 DEF Nodes
    <3> QED BY <3>1, <3>2
  <2>4. Fitting(F, m, p + i - 1, y, w)
    <3>1. /\ m.sync => \/ p + i - 1 = w
                       \/ /\ i = 1 /\ p = 0 /\ w = N - 1
                          /\ G.buf[Filling(G)] = << >> /\ BeginsLate(<<res.out[1]>>)
          /\ p + i - 1 = w /\ (i = 1 => G.buf[Filling(G)] # << >>) => m.sync
          /\ w >= 0 /\ p + i - 1 # w /\ p + i - 1 # After(w, N)
               => (IF i = 1 THEN z ELSE res.out[i - 1].angle) < m.angle
      BY DEF Paced
    <3>2. y = IF i = 1 THEN z ELSE res.out[i - 1].angle
      BY <1>2
    <3>3. i = 1 => F = G /\ p + i - 1 = p /\ m = res.out[1]
      BY <1>1, <1>2
    <3>4. m.sync => \/ p + i - 1 = w
                    \/ p + i - 1 = 0 /\ w = N - 1 /\ F.buf[Filling(F)] = << >> /\ BeginsLate(<<m>>)
      BY <3>1, <3>3
    <3>5. p + i - 1 = w /\ F.buf[Filling(F)] # << >> => m.sync
      BY <3>1, <3>3
    <3> HIDE DEF y, F, m
    <3> QED BY <3>1, <3>2, <3>4, <3>5 DEF Fitting
  <2>5. HolderAt(F, p + i - 1, y, w)
    BY <1>4, <2>1
  <2>6. After(p + i - 1, N) = q(i) /\ x(i) = m.angle
    BY <1>2 DEF After
  <2> HIDE DEF F, m, y, q, x
  <2>7. HolderAt(PushScanNode(F, m), After(p + i - 1, N), m.angle, w)
    BY <1>2, <1>3, <2>1, <2>2, <2>3, <2>4, <2>5, PushKeeps DEF N
  <2> QED BY <2>2, <2>6, <2>7
<1> DEFINE I == {i \in 0 .. n : HolderAt(d[i], q(i), x(i), w)}
<1>5. 0 \in I
  <2>1. q(0) = p /\ x(0) = z
    BY <1>2
  <2> HIDE DEF q, x
  <2> QED BY <1>1, <1>2, <2>1
<1> HIDE DEF q, x
<1>6. ASSUME NEW i \in 1 .. n, i - 1 \in I PROVE i \in I
  BY <1>2, <1>4, <1>6
<1> HIDE DEF I
<1>7. \A i \in 0 .. n : i \in I
  BY <1>2, <1>5, <1>6, CountsUp
<1>8. HolderAt(d[n], q(n), x(n), w)
  BY <1>2, <1>7 DEF I
<1>9. q(n) = Ahead(p, n) /\ x(n) = res.out[n].angle
  BY <1>2 DEF q, x, Ahead
<1> QED BY <1>1, <1>8, <1>9

-----------------------------------------------------------------------------
(* The capsules of the model are such a revolution.                        *)
Format(k)  == IF k \in Dense THEN "double" ELSE IF k \in Spread THEN "single" ELSE "own"
Spacing(k) == (Step * Fine) \div Samples(k)
Round      == Turn \div Step

\* The capsule at the place j of a turn that begins at a.
IsAt(c, j, a) == j \in 0 .. Round - 1 /\ a \in 0 .. Step - 1 /\ c.start = j * Step + a

Turns(k, a) == Revolution(Samples(k), Spacing(k), a * Fine, Step * Fine, Turn * Fine, Round)
InTurn(c, j, a) == Begins(c.start * Fine, j, a * Fine, Step * Fine, Turn * Fine, Round)
WrapAt(k, a, w) ==
  OneWrap(Format(k), w, Samples(k), Spacing(k), a * Fine, Step * Fine, Turn * Fine, Round)

\* Angles and the wrap, of a capsule and of the one before it.
AngleOf(k, c, i)     == Angle(c.start * Fine, i, Spacing(k), Turn * Fine)
NearIn(k, c, i)      == Near(c.start * Fine, i, 2, Spacing(k), Turn * Fine)
AngleBefore(k, c, i) == Angle(c.start * Fine - Step * Fine, i, Spacing(k), Turn * Fine)
NearBefore(k, c, i)  == Near(c.start * Fine - Step * Fine, i, 2, Spacing(k), Turn * Fine)
SyncsIn(k, c, i) ==
  Syncs(Format(k), c.start * Fine, i, Samples(k), Spacing(k), Step * Fine, Turn * Fine)

\* The capsules of a turn fill it, and there are at least two.
Whole == Turn % Step = 0 /\ Step < Turn

\* Products of whole numbers by a length.
LEMMA ProductRises ==
  ASSUME NEW a \in Int, NEW b \in Int, NEW c \in Nat
  PROVE  /\ a * c \in Int
         /\ a <= b => a * c <= b * c
         /\ a + 1 <= b => a * c + c <= b * c
         /\ (a + b) * c = a * c + b * c
<1>1. a * c \in Int /\ b * c \in Int /\ (a + b) * c = a * c + b * c
  OBVIOUS
<1>2. ASSUME a <= b PROVE a * c <= b * c
  <2>1. (b - a) \in Nat /\ b * c = (b - a) * c + a * c
    BY <1>2
  <2>2. (b - a) * c \in Nat
    BY <2>1
  <2> QED BY <1>1, <2>1, <2>2
<1>3. ASSUME a + 1 <= b PROVE a * c + c <= b * c
  <2> DEFINE m == b - a - 1
  <2>1. m \in Nat /\ b = m + a + 1
    BY <1>3
  <2> HIDE DEF m
  <2>2. m * c \in Nat /\ b * c = m * c + a * c + c
    BY <2>1
  <2> QED BY <1>1, <2>2
<1> QED BY <1>1, <1>2, <1>3

\* A division without remainder.
LEMMA DivExact ==
  ASSUME NEW d \in Nat, NEW c \in Nat \ {0}, d % c = 0
  PROVE  d \div c \in Nat /\ d = (d \div c) * c
OBVIOUS

\* The capsules of a turn fill it.
LEMMA RoundsFill ==
  ASSUME DecoderAssumption, Whole
  PROVE  /\ Round \in Nat \ {0, 1} /\ Turn = Round * Step
         /\ {Turn, Step, Fine} \subseteq Nat \ {0} /\ 2 * Step <= Turn
<1>1. Turn \in Nat \ {0} /\ Step \in Nat \ {0} /\ Fine \in Nat \ {0} /\ Step < Turn
  BY DEF DecoderAssumption, Whole
<1>2. Turn \div Step \in Nat /\ Turn = (Turn \div Step) * Step
  BY <1>1, DivExact DEF Whole
<1>3. Round \in Int /\ Turn = Round * Step
  BY <1>2 DEF Round
<1>5. Round >= 2
  <2> SUFFICES ASSUME Round <= 1 PROVE FALSE
    BY <1>3
  <2>1. Round * Step <= 1 * Step
    BY <1>1, <1>3, ProductRises
  <2> QED BY <1>1, <1>3, <2>1
<1>6. 2 * Step <= Round * Step
  BY <1>1, <1>3, <1>5, ProductRises
<1> QED BY <1>1, <1>3, <1>5, <1>6

\* In every format they are a revolution.
LEMMA CapsulesTurn ==
  ASSUME DecoderAssumption, Whole, NEW k, NEW a \in 0 .. Step - 1
  PROVE  Turns(k, a)
<1> DEFINE S == Samples(k)
           M == Step * Fine
<1>1. /\ Round \in Nat \ {0, 1} /\ Turn \in Nat \ {0} /\ Step \in Nat \ {0} /\ Fine \in Nat \ {0}
      /\ 2 * Step <= Turn
  BY RoundsFill
<1>2. S \in {1, 2, 3, 4}
  BY DEF Samples
<1>3. M \in Nat /\ a * Fine \in Nat /\ Turn * Fine \in Nat
  BY <1>1
<1>4. a * Fine < M /\ 2 * M <= Turn * Fine
  <2>1. a * Fine + Fine <= Step * Fine
    BY <1>1, ProductRises
  <2>2. (2 * Step) * Fine <= Turn * Fine /\ (2 * Step) * Fine = 2 * (Step * Fine)
    BY <1>1, ProductRises
  <2> QED BY <1>1, <1>3, <2>1, <2>2
<1> HIDE DEF S, M
<1>5. M \div S \in Nat /\ S * (M \div S) <= M /\ M < S * (M \div S) + S
  <2>1. CASE S = 1
    BY <1>3, <2>1
  <2>2. CASE S = 2
    BY <1>3, <2>2
  <2>3. CASE S = 3
    BY <1>3, <2>3
  <2>4. CASE S = 4
    BY <1>3, <2>4
  <2> QED BY <1>2, <2>1, <2>2, <2>3, <2>4
<1>6. Spacing(k) = M \div S
  BY DEF Spacing, M, S
<1> QED BY <1>1, <1>2, <1>3, <1>4, <1>5, <1>6 DEF Turns, Revolution, S, M

\* A capsule of a scan begins at its place of that revolution.
LEMMA CapsuleBegins ==
  ASSUME DecoderAssumption, Whole, NEW c, NEW j, NEW a, IsAt(c, j, a)
  PROVE  /\ InTurn(c, j, a) /\ c.start \in Nat /\ c.start < Turn
         /\ j < Round - 1 => c.start + Step < Turn
         /\ j = Round - 1 => c.start + Step = Turn + a
<1>1. /\ Round \in Nat \ {0, 1} /\ Turn = Round * Step /\ 2 * Step <= Turn
      /\ Turn \in Nat \ {0} /\ Step \in Nat \ {0} /\ Fine \in Nat \ {0}
      /\ j \in 0 .. Round - 1 /\ a \in 0 .. Step - 1 /\ c.start = j * Step + a
  BY RoundsFill DEF IsAt
<1>2. /\ j * Step \in Nat
      /\ j = 0 => j * Step = 0
      /\ j > 0 => j * Step >= Step
      /\ j * Step + Step <= Turn
      /\ j < Round - 1 => j * Step + 2 * Step <= Turn
      /\ j = Round - 1 => j * Step + Step = Turn
  <2>1. j * Step \in Nat
    BY <1>1
  <2>2. j > 0 => 1 * Step <= j * Step
    BY <1>1, ProductRises
  <2>3. j * Step + Step <= Round * Step
    BY <1>1, ProductRises
  <2>4. ASSUME j < Round - 1 PROVE j * Step + 2 * Step <= Turn
    <3>1. (j + 1) * Step + Step <= Round * Step
      BY <1>1, <2>4, ProductRises
    <3>2. (j + 1) * Step = j * Step + 1 * Step
      BY <1>1, ProductRises
    <3> QED BY <1>1, <2>1, <3>1, <3>2
  <2>5. ASSUME j = Round - 1 PROVE j * Step + Step = Turn
    <3>1. (j + 1) * Step = j * Step + 1 * Step /\ j + 1 = Round
      BY <1>1, <2>5, ProductRises
    <3> QED BY <1>1, <2>1, <3>1
  <2>6. j = 0 => j * Step = 0
    BY <1>1
  <2> QED BY <1>1, <2>1, <2>2, <2>3, <2>4, <2>5, <2>6
<1> DEFINE p == j * Step
           x == c.start
<1>3. /\ p \in Nat /\ x = p + a /\ x \in Nat /\ x < Turn
      /\ j = 0 => x = a
      /\ j > 0 => x >= a + Step
      /\ j < Round - 1 => x + 2 * Step <= a + Turn /\ x + Step < Turn
      /\ j = Round - 1 => x + Step = a + Turn
  <2> HIDE DEF p, x
  <2>1. /\ p \in Nat /\ x = p + a
        /\ j = 0 => p = 0
        /\ j > 0 => p >= Step
        /\ p + Step <= Turn
        /\ j < Round - 1 => p + 2 * Step <= Turn
        /\ j = Round - 1 => p + Step = Turn
    BY <1>1, <1>2 DEF p, x
  <2> QED BY <1>1, <2>1
<1> HIDE DEF p, x
<1> DEFINE X == x * Fine
           A == a * Fine
           M == Step * Fine
           T == Turn * Fine
<1>4. X \in Int /\ A \in Int /\ M \in Int /\ T \in Int
  BY <1>1, <1>3
<1>5. ASSUME j > 0 PROVE X >= A + M
  <2>1. (a + Step) * Fine <= x * Fine /\ (a + Step) * Fine = a * Fine + Step * Fine
    BY <1>1, <1>3, <1>5, ProductRises
  <2> QED BY <1>4, <2>1
<1>6. ASSUME j < Round - 1 PROVE X <= A + T - 2 * M
  <2>1. x + 2 * Step \in Int /\ a + Turn \in Int /\ Fine \in Nat /\ x + 2 * Step <= a + Turn
    BY <1>1, <1>3, <1>6
  <2>2. (x + 2 * Step) * Fine <= (a + Turn) * Fine
    BY <2>1, ProductRises
  <2>3. (x + 2 * Step) * Fine = X + 2 * M /\ (a + Turn) * Fine = A + T
    BY <1>1, <1>3
  <2> HIDE DEF X, A, M, T
  <2> QED BY <1>4, <2>2, <2>3
<1>7. ASSUME j = Round - 1 PROVE X = A + T - M
  <2>1. x + Step = a + Turn
    BY <1>3, <1>7
  <2>2. (x + Step) * Fine = X + M /\ (a + Turn) * Fine = A + T
    BY <1>1, <1>3
  <2>3. X + M = A + T
    BY <2>1, <2>2
  <2> HIDE DEF X, A, M, T
  <2> QED BY <1>4, <2>3
<1>8. j = 0 => X = A
  BY <1>3
<1>9. Begins(X, j, A, M, T, Round)
  <2> HIDE DEF X, A, M, T
  <2> QED BY <1>1, <1>4, <1>5, <1>6, <1>7, <1>8 DEF Begins
<1> QED BY <1>1, <1>3, <1>9 DEF InTurn, x

NextPlace(j) == IF j = Round - 1 THEN 0 ELSE j + 1

\* The capsule sent after it begins at the next place.
LEMMA NextIsAt ==
  ASSUME DecoderAssumption, Whole, NEW c, NEW j, NEW a, IsAt(c, j, a),
         NEW d, d.start = (c.start + Step) % Turn
  PROVE  /\ IsAt(d, NextPlace(j), a) /\ Diff(c, d) = Step
         /\ j < Round - 1 => d.start = c.start + Step
         /\ j = Round - 1 => d.start = a
<1>1. /\ Round \in Nat \ {0, 1} /\ Turn \in Nat \ {0} /\ Step \in Nat \ {0} /\ Step < Turn
      /\ 2 * Step <= Turn
      /\ j \in 0 .. Round - 1 /\ a \in 0 .. Step - 1 /\ c.start = j * Step + a
  BY RoundsFill DEF IsAt, Whole
<1>2. /\ c.start \in Nat /\ c.start < Turn
      /\ j < Round - 1 => c.start + Step < Turn
      /\ j = Round - 1 => c.start + Step = Turn + a
  BY CapsuleBegins
<1>3. CASE j < Round - 1
  <2>1. c.start + Step \in 0 .. Turn - 1
    BY <1>1, <1>2, <1>3
  <2>2. d.start = c.start + Step
    <3> DEFINE v == c.start + Step
    <3>1. v \in 0 .. Turn - 1 /\ v \in Int /\ d.start = v % Turn
      BY <2>1
    <3> HIDE DEF v
    <3>2. v % Turn = v
      BY <1>1, <3>1, RemainderOfTurn
    <3> QED BY <3>1, <3>2 DEF v
  <2>3. (j + 1) * Step = j * Step + 1 * Step /\ j * Step \in Int
    BY <1>1, ProductRises
  <2>4. d.start = (j + 1) * Step + a
    BY <1>1, <2>2, <2>3
  <2>5. NextPlace(j) = j + 1 /\ j + 1 \in 0 .. Round - 1
    BY <1>1, <1>3 DEF NextPlace
  <2>6. Diff(c, d) = Step
    BY <1>1, <1>2, <2>2 DEF Diff
  <2> QED BY <1>1, <1>3, <2>2, <2>4, <2>5, <2>6 DEF IsAt
<1>4. CASE j = Round - 1
  <2>1. c.start + Step \in Turn .. 2 * Turn - 1
    BY <1>1, <1>2, <1>4
  <2>2. d.start = a
    <3> DEFINE v == c.start + Step
    <3>1. v \in Turn .. 2 * Turn - 1 /\ v \in Int /\ d.start = v % Turn
      BY <2>1
    <3> HIDE DEF v
    <3>2. v % Turn = v - Turn
      BY <1>1, <3>1, RemainderOfTurn
    <3>3. v = Turn + a
      BY <1>2, <1>4 DEF v
    <3> QED BY <1>1, <3>1, <3>2, <3>3
  <2>3. NextPlace(j) = 0 /\ 0 \in 0 .. Round - 1 /\ 0 * Step = 0
    BY <1>1, <1>4 DEF NextPlace
  <2>4. Diff(c, d) = Step
    BY <1>1, <1>2, <1>4, <2>2 DEF Diff
  <2> QED BY <1>1, <1>4, <2>2, <2>3, <2>4 DEF IsAt
<1> QED BY <1>1, <1>3, <1>4

\* What is said of the capsule before is true of it.
LEMMA BeforeIsThat ==
  ASSUME DecoderAssumption, Whole, NEW k, NEW c, NEW j, NEW a, IsAt(c, j, a),
         NEW d, d.start = (c.start + Step) % Turn, NEW i \in 1 .. Samples(k)
  PROVE  AngleBefore(k, d, i) = AngleOf(k, c, i) /\ NearBefore(k, d, i) = NearIn(k, c, i)
<1> DEFINE X == c.start * Fine
           Y == d.start * Fine
           A == a * Fine
           M == Step * Fine
           T == Turn * Fine
           S == Samples(k)
           I == Spacing(k)
<1>1. /\ Round \in Nat \ {0, 1} /\ j \in 0 .. Round - 1 /\ a \in 0 .. Step - 1
      /\ {Turn, Step, Fine} \subseteq Nat \ {0} /\ c.start \in Nat
  BY RoundsFill, CapsuleBegins DEF IsAt
<1>2. /\ IsAt(d, NextPlace(j), a)
      /\ j < Round - 1 => d.start = c.start + Step
      /\ j = Round - 1 => d.start = a
  BY NextIsAt
<1>3. /\ Revolution(S, I, A, M, T, Round)
      /\ Begins(X, j, A, M, T, Round)
      /\ Begins(Y, NextPlace(j), A, M, T, Round)
  BY <1>1, <1>2, CapsulesTurn, CapsuleBegins DEF Turns, InTurn
<1>4. A \in Int /\ M \in Nat /\ T \in Nat /\ X \in Int /\ S \in {1, 2, 3, 4} /\ I \in Nat
      /\ A < M /\ 2 * M <= T /\ S * I <= M /\ A >= 0
  BY <1>3 DEF Revolution, Begins
<1>5. j < Round - 1 => Y - M = X
  BY <1>1, <1>2
<1>6. j = Round - 1 => Y = A /\ X = A + T - M
  BY <1>2, <1>3 DEF Begins
<1> HIDE DEF X, Y, A, M, T, S, I
<1>7. ASSUME NEW n \in 0 .. S PROVE (Y - M + n * I) % T = (X + n * I) % T
  <2>1. CASE j < Round - 1
    BY <1>5, <2>1
  <2>2. CASE j = Round - 1
    <3>1. (X + n * I) % T = Reduced(X + n * I, T)
      BY <1>3, AngleIsReduced
    <3>2. (Y - M + n * I) % T = Reduced(Y - M + n * I, T)
      BY <1>3, AngleIsReduced
    <3> DEFINE p == n * I
    <3>3. p \in Nat /\ p <= M
      <4>1. n <= S /\ n \in Int /\ S \in Int
        BY <1>4
      <4>2. n * I <= S * I /\ n * I \in Int
        BY <1>4, <4>1, ProductRises
      <4>3. 0 * I <= n * I
        BY <1>4, <4>1, ProductRises
      <4> QED BY <1>4, <4>2, <4>3
    <3> HIDE DEF p
    <3>4. Reduced(X + p, T) = Reduced(Y - M + p, T)
      BY <1>4, <1>6, <2>2, <3>3 DEF Reduced
    <3> QED BY <3>1, <3>2, <3>4 DEF p
  <2> QED BY <1>1, <2>1, <2>2
<1>8. AngleBefore(k, d, i) = AngleOf(k, c, i)
  <2> DEFINE n == i - 1
  <2>1. n \in 0 .. S
    BY <1>4 DEF S
  <2> HIDE DEF n
  <2>2. (Y - M + n * I) % T = (X + n * I) % T
    BY <1>7, <2>1
  <2> QED BY <2>2 DEF AngleBefore, AngleOf, Angle, n, X, Y, M, T, I
<1>9. NearBefore(k, d, i) = NearIn(k, c, i)
  <2>1. i \in 0 .. S
    BY <1>4 DEF S
  <2>2. (Y - M + i * I) % T = (X + i * I) % T
    BY <1>7, <2>1
  <2> QED BY <2>2 DEF NearBefore, NearIn, Near, X, Y, M, T, I
<1> QED BY <1>8, <1>9

\* The samples between a capsule and the next one.
LEMMA SpreadIs ==
  ASSUME DecoderAssumption, Whole, NEW k, NEW c, NEW j, NEW a, IsAt(c, j, a),
         NEW d, d.start = (c.start + Step) % Turn, NEW i \in 1 .. Samples(k)
  PROVE  /\ \A b : Sample(k, c, d, i, b) = [angle |-> AngleOf(k, c, i), sync |-> b, scan |-> c.scan]
         /\ \A w : Wraps(k, c, d, i, w) = Near(c.start * Fine, i, w, Spacing(k), Turn * Fine)
<1>1. Diff(c, d) = Step
  BY NextIsAt
<1>2. Inc(k, c, d) = Spacing(k)
  BY <1>1 DEF Inc, Spacing
<1> DEFINE I == Spacing(k)
           X == c.start * Fine
<1>3. I \in Nat /\ X \in Int /\ i \in Int
  <2>1. a \in 0 .. Step - 1 /\ Samples(k) \in {1, 2, 3, 4}
    BY DEF IsAt, Samples
  <2>2. Turns(k, a) /\ InTurn(c, j, a)
    BY <2>1, CapsulesTurn, CapsuleBegins
  <2> QED BY <2>1, <2>2 DEF Turns, InTurn, Revolution, Begins
<1>4. Raw(k, c, d, i) = X + (i - 1) * I
  BY <1>2 DEF Raw
<1> HIDE DEF I, X
<1>5. X + (i - 1) * I + I = X + i * I
  <2>1. (i - 1) * I + 1 * I = (i - 1 + 1) * I /\ (i - 1) * I \in Int
    BY <1>3, ProductRises
  <2>2. i - 1 + 1 = i
    BY <1>3
  <2>3. (i - 1) * I + I = i * I
    BY <1>3, <2>1, <2>2
  <2> QED BY <1>3, <2>1, <2>3
<1>6. ASSUME NEW b PROVE Sample(k, c, d, i, b) = [angle |-> AngleOf(k, c, i), sync |-> b, scan |-> c.scan]
  BY <1>4 DEF Sample, AngleOf, Angle, X, I
<1>7. ASSUME NEW w PROVE Wraps(k, c, d, i, w) = Near(c.start * Fine, i, w, Spacing(k), Turn * Fine)
  BY <1>2, <1>4, <1>5 DEF Wraps, Near, X, I
<1> QED BY <1>6, <1>7

\* The samples of a device that marks them itself.
LEMMA OwnIs ==
  ASSUME NEW k, k \notin Spread, NEW c, NEW i \in 1 .. Samples(k)
  PROVE  OwnSample(k, c, i) = [angle |-> AngleOf(k, c, i), sync |-> SyncsIn(k, c, i), scan |-> c.scan]
<1>1. Format(k) = "own"
  BY DEF Format, Dense, Spread
<1> QED BY <1>1 DEF OwnSample, AngleOf, SyncsIn, Syncs, Angle, Spacing

\* The sync bit of a handler of single distances: the wrap is crossed within the spacing.
LEMMA SpreadSyncIs ==
  ASSUME NEW k \in Spread \ Dense, NEW c, NEW i
  PROVE  Near(c.start * Fine, i, 1, Spacing(k), Turn * Fine) = SyncsIn(k, c, i)
<1>1. Format(k) = "single"
  BY DEF Format
<1> QED BY <1>1 DEF SyncsIn, Syncs

\* The sync bit of a dense handler: the angle is in the window and the one before was not.
LEMMA DenseSyncIs ==
  ASSUME NEW k \in Dense, NEW c, NEW i
  PROVE  SyncsIn(k, c, i) = (/\ NearIn(k, c, i)
                             /\ ~(IF i = 1 THEN NearBefore(k, c, Samples(k)) ELSE NearIn(k, c, i - 1)))
<1>1. Format(k) = "double"
  BY DEF Format
<1> QED BY <1>1 DEF SyncsIn, Syncs, NearIn, NearBefore

\* The sync bit of the last sample before a capsule.
LastBit(k, c) == NearBefore(k, c, Samples(k)) /\ ~NearBefore(k, c, Samples(k) - 1)

\* The window of a dense handler.
LEMMA DenseWindow ==
  ASSUME DecoderAssumption, Whole, NEW k \in Dense, NEW c, NEW j, NEW a, IsAt(c, j, a)
  PROVE  LET S == Samples(k) IN
         /\ ~(NearIn(k, c, 1) /\ NearBefore(k, c, S) /\ NearBefore(k, c, S - 1))
         /\ ~(NearIn(k, c, 2) /\ NearIn(k, c, 1) /\ NearBefore(k, c, S))
         /\ \A i \in 3 .. S : ~(NearIn(k, c, i) /\ NearIn(k, c, i - 1) /\ NearIn(k, c, i - 2))
         /\ j = 0 => \A i \in 2 .. S : ~NearIn(k, c, i)
         /\ j = 0 /\ NearIn(k, c, 1) =>
              /\ AngleOf(k, c, 1) < Spacing(k)
              /\ NearBefore(k, c, S) => \A w : WrapAt(k, a, w) => w = Round * S - 1
<1>1. Samples(k) \in {3, 4} /\ Format(k) = "double" /\ a \in 0 .. Step - 1
  BY DEF Dense, Samples, Format, IsAt
<1> DEFINE S == Samples(k)
           X == c.start * Fine
           A == a * Fine
           M == Step * Fine
           T == Turn * Fine
           I == Spacing(k)
<1>2. Revolution(S, I, A, M, T, Round) /\ Begins(X, j, A, M, T, Round)
  BY <1>1, CapsulesTurn, CapsuleBegins DEF Turns, InTurn
<1> HIDE DEF S, X, A, M, T, I
<1>3. S \in {3, 4}
  BY <1>1 DEF S
<1>4. /\ ~(Near(X, 1, 2, I, T) /\ Near(X - M, S, 2, I, T) /\ Near(X - M, S - 1, 2, I, T))
      /\ ~(Near(X, 2, 2, I, T) /\ Near(X, 1, 2, I, T) /\ Near(X - M, S, 2, I, T))
      /\ \A i \in 3 .. S :
           ~(Near(X, i, 2, I, T) /\ Near(X, i - 1, 2, I, T) /\ Near(X, i - 2, 2, I, T))
      /\ j = 0 => \A i \in 2 .. S : ~Near(X, i, 2, I, T)
      /\ j = 0 /\ Near(X, 1, 2, I, T) =>
           /\ Angle(X, 1, I, T) < I
           /\ Near(X - M, S, 2, I, T) =>
                \A w : OneWrap("double", w, S, I, A, M, T, Round) => w = Round * S - 1
  BY <1>2, <1>3, WindowIsShort
<1>5. /\ \A i : NearIn(k, c, i) = Near(X, i, 2, I, T)
      /\ \A i : NearBefore(k, c, i) = Near(X - M, i, 2, I, T)
      /\ AngleOf(k, c, 1) = Angle(X, 1, I, T) /\ Spacing(k) = I /\ Samples(k) = S
      /\ \A w : WrapAt(k, a, w) = OneWrap("double", w, S, I, A, M, T, Round)
  BY <1>1 DEF NearIn, NearBefore, AngleOf, WrapAt, X, A, M, T, I, S
<1> QED BY <1>4, <1>5 DEF LastBit

\* What a dense handler marks is the wrap, but for the first sample of a scan.
Marked(k, x, d, j, a) ==
  LET c   == x.prev
      bit == DenseBits(k, x, d)
  IN /\ \A i \in 2 .. Samples(k) : bit[i] = SyncsIn(k, c, i)
     /\ \/ bit[1] = SyncsIn(k, c, 1)
        \/ /\ j = 0
           /\ bit[1] => /\ AngleOf(k, c, 1) < Spacing(k)
                        /\ \A w : WrapAt(k, a, w) => w = Round * Samples(k) - 1
     /\ x.last = LastBit(k, c) => bit[1] = SyncsIn(k, c, 1)
     /\ bit[Samples(k)] = LastBit(k, d)

\* The bits of the samples of a capsule are those of the revolution, unless the last bit was
\* that of a capsule before the scan.
LEMMA DenseBitsAre ==
  ASSUME DecoderAssumption, Whole, NEW k \in Dense, NEW x \in Handlers,
         NEW j, NEW a, IsAt(x.prev, j, a), NEW d, d.start = (x.prev.start + Step) % Turn,
         j = 0 \/ x.last = LastBit(k, x.prev)
  PROVE  Marked(k, x, d, j, a)
<1> DEFINE c   == x.prev
           bit == DenseBits(k, x, d)
           S   == Samples(k)
<1>1. S \in {3, 4} /\ x.last \in BOOLEAN
  BY DEF Dense, Samples, Handlers
<1>2. /\ bit[0] = x.last
      /\ \A i \in 1 .. S : bit[i] = (Wraps(k, c, d, i, 2) /\ ~bit[i - 1])
  BY <1>1, BitsFollow
<1>3. \A i \in 1 .. S : Wraps(k, c, d, i, 2) = NearIn(k, c, i)
  <2> SUFFICES ASSUME NEW i \in 1 .. S PROVE Wraps(k, c, d, i, 2) = NearIn(k, c, i)
    OBVIOUS
  <2>1. Wraps(k, c, d, i, 2) = Near(c.start * Fine, i, 2, Spacing(k), Turn * Fine)
    BY SpreadIs
  <2> QED BY <2>1 DEF NearIn
<1>4. /\ ~(NearIn(k, c, 1) /\ NearBefore(k, c, S) /\ NearBefore(k, c, S - 1))
      /\ ~(NearIn(k, c, 2) /\ NearIn(k, c, 1) /\ NearBefore(k, c, S))
      /\ \A i \in 3 .. S : ~(NearIn(k, c, i) /\ NearIn(k, c, i - 1) /\ NearIn(k, c, i - 2))
      /\ j = 0 => \A i \in 2 .. S : ~NearIn(k, c, i)
      /\ j = 0 /\ NearIn(k, c, 1) =>
           /\ AngleOf(k, c, 1) < Spacing(k)
           /\ NearBefore(k, c, S) => \A w : WrapAt(k, a, w) => w = Round * S - 1
  BY DenseWindow
<1>5. /\ SyncsIn(k, c, 1) = (NearIn(k, c, 1) /\ ~NearBefore(k, c, S))
      /\ \A i \in 2 .. S : SyncsIn(k, c, i) = (NearIn(k, c, i) /\ ~NearIn(k, c, i - 1))
  <2>1. ASSUME NEW i
        PROVE  SyncsIn(k, c, i)
                 = (/\ NearIn(k, c, i)
                    /\ ~(IF i = 1 THEN NearBefore(k, c, S) ELSE NearIn(k, c, i - 1)))
    BY DenseSyncIs
  <2>2. SyncsIn(k, c, 1) = (NearIn(k, c, 1) /\ ~NearBefore(k, c, S))
    BY <2>1, Zenon
  <2>3. ASSUME NEW i \in 2 .. S
        PROVE  SyncsIn(k, c, i) = (NearIn(k, c, i) /\ ~NearIn(k, c, i - 1))
    <3>1. i # 1
      BY <1>1
    <3> QED BY <2>1, <3>1, Zenon
  <2> QED BY <2>2, <2>3
<1>6. /\ NearBefore(k, d, S) = NearIn(k, c, S)
      /\ NearBefore(k, d, S - 1) = NearIn(k, c, S - 1)
  <2>1. S \in 1 .. S /\ S - 1 \in 1 .. S
    BY <1>1
  <2> QED BY <2>1, BeforeIsThat
<1>7. LastBit(k, d) = (NearIn(k, c, S) /\ ~NearIn(k, c, S - 1))
  BY <1>6 DEF LastBit
<1>8. j = 0 \/ x.last = (NearBefore(k, c, S) /\ ~NearBefore(k, c, S - 1))
  BY DEF LastBit
<1> HIDE DEF c, bit, S
<1>9. /\ \A i \in 1 .. S : NearIn(k, c, i) \in BOOLEAN /\ SyncsIn(k, c, i) \in BOOLEAN
      /\ \A i : NearBefore(k, c, i) \in BOOLEAN
  <2>1. \A i : NearIn(k, c, i) \in BOOLEAN /\ NearBefore(k, c, i) \in BOOLEAN
    BY DEF NearIn, NearBefore, Near
  <2>2. \A i \in 1 .. S : SyncsIn(k, c, i) \in BOOLEAN
    BY DenseSyncIs
  <2> QED BY <2>1, <2>2
<1>10. bit[1] = (NearIn(k, c, 1) /\ ~x.last)
  BY <1>1, <1>2, <1>3
<1>11. \A i \in 2 .. S : bit[i] = (NearIn(k, c, i) /\ ~bit[i - 1])
  BY <1>1, <1>2, <1>3
<1>12. bit[2] = (NearIn(k, c, 2) /\ ~NearIn(k, c, 1))
  <2>1. bit[2] = (NearIn(k, c, 2) /\ ~bit[1])
    BY <1>1, <1>11
  <2>2. CASE j = 0
    <3>1. ~NearIn(k, c, 2)
      BY <1>1, <1>4, <2>2
    <3> QED BY <2>1, <3>1
  <2>3. CASE j # 0
    BY <1>4, <1>8, <1>10, <2>1, <2>3
  <2> QED BY <2>2, <2>3
<1>13. bit[3] = (NearIn(k, c, 3) /\ ~NearIn(k, c, 2))
  <2>1. bit[3] = (NearIn(k, c, 3) /\ ~bit[2])
    BY <1>1, <1>11
  <2>2. ~(NearIn(k, c, 3) /\ NearIn(k, c, 2) /\ NearIn(k, c, 1))
    BY <1>1, <1>4
  <2> QED BY <1>12, <2>1, <2>2
<1>14. S = 4 => bit[4] = (NearIn(k, c, 4) /\ ~NearIn(k, c, 3))
  <2> SUFFICES ASSUME S = 4 PROVE bit[4] = (NearIn(k, c, 4) /\ ~NearIn(k, c, 3))
    OBVIOUS
  <2>1. bit[4] = (NearIn(k, c, 4) /\ ~bit[3])
    BY <1>11
  <2>2. ~(NearIn(k, c, 4) /\ NearIn(k, c, 3) /\ NearIn(k, c, 2))
    BY <1>4
  <2> QED BY <1>13, <2>1, <2>2
<1>15. \A i \in 2 .. S : bit[i] = (NearIn(k, c, i) /\ ~NearIn(k, c, i - 1))
  BY <1>1, <1>12, <1>13, <1>14
<1>16. bit[S] = LastBit(k, d)
  BY <1>1, <1>7, <1>15
<1>17. \/ bit[1] = SyncsIn(k, c, 1)
       \/ /\ j = 0
          /\ bit[1] => /\ AngleOf(k, c, 1) < Spacing(k)
                       /\ \A w : WrapAt(k, a, w) => w = Round * S - 1
  <2>1. CASE j = 0
    <3>1. CASE bit[1] /\ NearBefore(k, c, S)
      BY <1>4, <1>10, <2>1, <3>1
    <3>2. CASE ~bit[1]
      BY <2>1, <3>2
    <3>3. CASE bit[1] /\ ~NearBefore(k, c, S)
      BY <1>5, <1>10, <3>3
    <3> QED BY <3>1, <3>2, <3>3
  <2>2. CASE j # 0
    <3>1. bit[1] = (NearIn(k, c, 1) /\ ~(NearBefore(k, c, S) /\ ~NearBefore(k, c, S - 1)))
      BY <1>8, <1>10, <2>2
    <3> QED BY <1>4, <1>5, <3>1
  <2> QED BY <2>1, <2>2
<1>18. ASSUME x.last = LastBit(k, c) PROVE bit[1] = SyncsIn(k, c, 1)
  <2>1. bit[1] = (NearIn(k, c, 1) /\ ~(NearBefore(k, c, S) /\ ~NearBefore(k, c, S - 1)))
    BY <1>10, <1>18 DEF LastBit, S
  <2> QED BY <1>4, <1>5, <2>1
<1> QED BY <1>5, <1>15, <1>16, <1>17, <1>18 DEF c, bit, S, Marked

-----------------------------------------------------------------------------
(* A capsule that arrives whole, and the scan that is being filled.        *)
Empty(H)    == H.buf[Filling(H)] = << >>
GoodScan(H) == H.avail >= 0 => OneTurn(H.buf[H.avail])

\* The first sample of a scan in a dense format is marked though the wrap is later.
Late(k, c, j, a, G, out) ==
  /\ j = 0 /\ Empty(G)
  /\ out[1].sync => /\ AngleOf(k, c, 1) < Spacing(k) /\ k \in {"dense", "ultradense"}
                    /\ \A w : WrapAt(k, a, w) => w = Round * Samples(k) - 1

\* The samples of a capsule come at their places of the turn.
LEMMA CapsuleIsPaced ==
  ASSUME DecoderAssumption, Whole, NEW c, NEW j, NEW a, IsAt(c, j, a), NEW w,
         WrapAt(kind, a, w), NEW G, NEW out, Len(out) = Samples(kind),
         \A i \in 1 .. Samples(kind) : out[i].angle = AngleOf(kind, c, i),
         \A i \in 2 .. Samples(kind) : out[i].sync = SyncsIn(kind, c, i),
         out[1].sync = SyncsIn(kind, c, 1) \/ Late(kind, c, j, a, G, out)
  PROVE  LET S == Samples(kind) IN
         /\ Paced(G, out, j * S, AngleBefore(kind, c, S), w)
         /\ TurnSamples \in Nat /\ TurnSamples >= 2 /\ TurnSamples = Round * S
         /\ j * S \in Nat /\ j * S + S <= TurnSamples /\ Ahead(j * S, S) = NextPlace(j) * S
<1> DEFINE S == Samples(kind)
           X == c.start * Fine
           A == a * Fine
           M == Step * Fine
           T == Turn * Fine
           I == Spacing(kind)
           g == Format(kind)
           N == TurnSamples
           p == j * S
           z == AngleBefore(kind, c, S)
<1>1. S \in {1, 2, 3, 4} /\ Round \in Nat \ {0, 1} /\ j \in 0 .. Round - 1 /\ a \in 0 .. Step - 1
  BY RoundsFill DEF Samples, IsAt
<1>2. N = Round * S
  BY DEF TurnSamples, Round
<1>3. /\ p \in Nat /\ Round * S \in Nat /\ Round * S >= 2 * S
      /\ j = 0 => p = 0
      /\ j > 0 => p >= S
      /\ j < Round - 1 => p <= Round * S - 2 * S /\ (j + 1) * S = p + S
      /\ j = Round - 1 => p = Round * S - S
  <2> HIDE DEF S
  <2> QED BY <1>1, PlacesOfCapsules
<1>4. Begins(X, j, A, M, T, Round)
  BY CapsuleBegins DEF InTurn
<1>5. /\ z = Angle(X - M, S, I, T)
      /\ \A i : AngleOf(kind, c, i) = Angle(X, i, I, T)
      /\ \A i : SyncsIn(kind, c, i) = Syncs(g, X, i, S, I, M, T)
      /\ OneWrap(g, w, S, I, A, M, T, Round)
  BY DEF AngleBefore, AngleOf, SyncsIn, WrapAt
<1>6. /\ Len(out) = S
      /\ \A i \in 1 .. S : out[i].angle = Angle(X, i, I, T)
      /\ \A i \in 2 .. S : out[i].sync = Syncs(g, X, i, S, I, M, T)
      /\ \/ out[1].sync = Syncs(g, X, 1, S, I, M, T)
         \/ Late(kind, c, j, a, G, out)
  BY <1>5
<1> HIDE DEF S, X, A, M, T, I, g, N, z
<1>7. X \in Int
  BY <1>4 DEF Begins
<1>8. \A i \in 1 .. S : Here(g, w, X, i, j, S, I, M, T, Round)
  BY <1>1, <1>4, <1>5, <1>7 DEF OneWrap
<1>9. ASSUME NEW i \in 1 .. S
      PROVE  /\ out[i].sync => \/ p + i - 1 = w
                               \/ /\ i = 1 /\ p = 0 /\ w = N - 1
                                  /\ G.buf[Filling(G)] = << >> /\ BeginsLate(<<out[1]>>)
             /\ p + i - 1 = w /\ (i = 1 => G.buf[Filling(G)] # << >>) => out[i].sync
             /\ w >= 0 /\ p + i - 1 # w /\ p + i - 1 # After(w, N)
                  => (IF i = 1 THEN z ELSE out[i - 1].angle) < out[i].angle
  <2>1. /\ Syncs(g, X, i, S, I, M, T) <=> p + i - 1 = w
        /\ w >= 0 /\ p + i - 1 # w /\ p + i - 1 # After(w, N)
             => Before(X, i, S, I, M, T) < Angle(X, i, I, T)
    BY <1>2, <1>8 DEF Here, Place, N, S
  <2>2. Before(X, i, S, I, M, T) = IF i = 1 THEN z ELSE out[i - 1].angle
    <3>1. CASE i = 1
      BY <1>5, <3>1 DEF Before
    <3>2. CASE i # 1
      <4>1. i - 1 \in 1 .. S
        BY <1>1, <3>2
      <4> QED BY <1>6, <3>2, <4>1 DEF Before
    <3> QED BY <3>1, <3>2
  <2>3. CASE out[i].sync = Syncs(g, X, i, S, I, M, T)
    BY <1>6, <2>1, <2>2, <2>3
  <2>4. CASE i = 1 /\ Late(kind, c, j, a, G, out)
    <3>1. p = 0 /\ G.buf[Filling(G)] = << >>
      BY <1>3, <2>4 DEF Late, Empty
    <3>2. ASSUME out[1].sync PROVE w = N - 1 /\ BeginsLate(<<out[1]>>)
      <4>1. AngleOf(kind, c, 1) < Spacing(kind) /\ kind \in {"dense", "ultradense"}
        BY <2>4, <3>2 DEF Late
      <4>2. w = Round * Samples(kind) - 1
        BY <2>4, <3>2 DEF Late
      <4>3. out[1].angle = AngleOf(kind, c, 1)
        BY <1>1 DEF S
      <4>4. <<out[1]>>[1] = out[1]
        OBVIOUS
      <4>5. BeginsLate(<<out[1]>>)
        BY <4>1, <4>3, <4>4 DEF BeginsLate, Spacing
      <4> QED BY <1>2, <4>2, <4>5 DEF S
    <3>3. /\ out[i].sync => /\ i = 1 /\ p = 0 /\ w = N - 1
                            /\ G.buf[Filling(G)] = << >> /\ BeginsLate(<<out[1]>>)
          /\ ~(i = 1 => G.buf[Filling(G)] # << >>)
      BY <2>4, <3>1, <3>2
    <3> HIDE DEF p
    <3> QED BY <1>6, <2>1, <2>2, <3>3
  <2>5. i = 1 \/ i \in 2 .. S
    BY <1>1
  <2> QED BY <1>6, <2>3, <2>4, <2>5
<1>10. Paced(G, out, p, z, w)
  <2> HIDE DEF p
  <2> QED BY <1>6, <1>9 DEF Paced, N
<1>11. p + S <= N /\ N >= 2 /\ N \in Nat
  <2> HIDE DEF p
  <2> QED BY <1>1, <1>2, <1>3
<1>12. Ahead(p, S) = NextPlace(j) * S
  <2>1. CASE j = Round - 1
    <3>1. p + S = N
      <4> HIDE DEF p
      <4> QED BY <1>1, <1>2, <1>3, <2>1
    <3>2. NextPlace(j) * S = 0
      BY <1>1, <2>1 DEF NextPlace
    <3> QED BY <3>1, <3>2 DEF Ahead, N
  <2>2. CASE j # Round - 1
    <3>1. NextPlace(j) = j + 1 /\ j < Round - 1
      BY <1>1, <2>2 DEF NextPlace
    <3>2. p + S # N /\ (j + 1) * S = p + S
      <4> HIDE DEF p
      <4> QED BY <1>1, <1>2, <1>3, <3>1
    <3> QED BY <3>1, <3>2 DEF Ahead, N
  <2> QED BY <2>1, <2>2
<1> QED BY <1>2, <1>3, <1>10, <1>11, <1>12 DEF S, N, z

\* Its samples make no scan that is not a turn.
LEMMA SamplesKeep ==
  ASSUME DecoderAssumption, Whole, MaxSamples > 1, NEW c, NEW j, NEW a, IsAt(c, j, a),
         NEW d, d.start = (c.start + Step) % Turn,
         NEW w \in -1 .. TurnSamples - 1, WrapAt(kind, a, w), NEW H \in Holders(Int), NEW o,
         NEW G, G = IF o.rewind THEN RewindScan(H) ELSE H,
         HolderAt(G, j * Samples(kind), AngleBefore(kind, c, Samples(kind)), w),
         o.out \in Seq(Nodes(Int)), Len(o.out) = Samples(kind),
         \A i \in 1 .. Samples(kind) : o.out[i].angle = AngleOf(kind, c, i),
         \A i \in 2 .. Samples(kind) : o.out[i].sync = SyncsIn(kind, c, i),
         o.out[1].sync = SyncsIn(kind, c, 1) \/ Late(kind, c, j, a, G, o.out)
  PROVE  /\ HolderAt(Publish(H, o), NextPlace(j) * Samples(kind),
                     AngleBefore(kind, d, Samples(kind)), w)
         /\ IsAt(d, NextPlace(j), a)
<1> DEFINE S == Samples(kind)
           z == AngleBefore(kind, c, S)
           p == j * S
<1>1. S \in {1, 2, 3, 4} /\ S \in 1 .. S
  BY DEF Samples
<1>2. /\ Paced(G, o.out, p, z, w)
      /\ TurnSamples \in Nat /\ TurnSamples >= 2
      /\ p \in Nat /\ p + S <= TurnSamples /\ Ahead(p, S) = NextPlace(j) * S
  BY CapsuleIsPaced
<1>3. z \in Int
  <2>1. a \in 0 .. Step - 1
    BY DEF IsAt
  <2>2. Turns(kind, a) /\ InTurn(c, j, a)
    BY <2>1, CapsulesTurn, CapsuleBegins
  <2> DEFINE v == c.start * Fine - Step * Fine + (S - 1) * Spacing(kind)
             T == Turn * Fine
  <2>3. Step * Fine \in Int /\ c.start * Fine \in Int /\ T \in Nat \ {0} /\ Spacing(kind) \in Nat
    <3>1. {Turn, Fine, Step} \subseteq Nat \ {0}
      BY RoundsFill
    <3> QED BY <2>2, <3>1 DEF Turns, InTurn, Revolution, Begins
  <2>4. (S - 1) * Spacing(kind) \in Int
    BY <1>1, <2>3
  <2>5. v \in Int
    <3> DEFINE q == c.start * Fine
               r == Step * Fine
               s == (S - 1) * Spacing(kind)
    <3>1. q \in Int /\ r \in Int /\ s \in Int /\ v = q - r + s
      BY <2>3, <2>4
    <3> HIDE DEF q, r, s, v
    <3> QED BY <3>1
  <2> HIDE DEF v, T
  <2>6. v % T \in Int
    BY <2>3, <2>5, RemainderIsInt
  <2> QED BY <2>6 DEF v, T, AngleBefore, Angle
<1>4. HolderAt(G, p, z, w) /\ o.out \in Seq(Nodes(Int)) /\ Len(o.out) = S /\ o.out # << >>
  BY <1>1
<1>5. o.out[S].angle = AngleBefore(kind, d, S)
  <2>1. o.out[S].angle = AngleOf(kind, c, S)
    BY <1>1
  <2> QED BY <1>1, <2>1, BeforeIsThat
<1> HIDE DEF S, z, p
<1>6. HolderAt(Publish(H, o), Ahead(p, Len(o.out)), o.out[Len(o.out)].angle, w)
  BY <1>2, <1>3, <1>4, PublishKeeps
<1>7. HolderAt(Publish(H, o), NextPlace(j) * S, AngleBefore(kind, d, S), w)
  BY <1>2, <1>4, <1>5, <1>6
<1>8. IsAt(d, NextPlace(j), a)
  BY NextIsAt
<1> QED BY <1>7, <1>8 DEF S

\* A device that marks the wrap itself.
LEMMA OwnCapsuleKeeps ==
  ASSUME DecoderAssumption, Whole, MaxSamples > 1, kind \notin Spread, NEW c, NEW j, NEW a,
         IsAt(c, j, a), NEW d, d.start = (c.start + Step) % Turn,
         NEW w \in -1 .. TurnSamples - 1, WrapAt(kind, a, w), NEW H \in Holders(Int), NEW o,
         HolderAt(H, j * Samples(kind), AngleBefore(kind, c, Samples(kind)), w),
         o.out \in Seq(Nodes(Int)), ~o.rewind, Len(o.out) = Samples(kind),
         \A i \in 1 .. Samples(kind) : o.out[i] = OwnSample(kind, c, i)
  PROVE  /\ HolderAt(Publish(H, o), NextPlace(j) * Samples(kind),
                     AngleBefore(kind, d, Samples(kind)), w)
         /\ IsAt(d, NextPlace(j), a)
<1> DEFINE G == IF o.rewind THEN RewindScan(H) ELSE H
<1>1. G = H
  OBVIOUS
<1>2. ASSUME NEW i \in 1 .. Samples(kind)
      PROVE  o.out[i].angle = AngleOf(kind, c, i) /\ o.out[i].sync = SyncsIn(kind, c, i)
  <2>1. OwnSample(kind, c, i)
          = [angle |-> AngleOf(kind, c, i), sync |-> SyncsIn(kind, c, i), scan |-> c.scan]
    BY OwnIs
  <2> DEFINE x == AngleOf(kind, c, i)
             y == SyncsIn(kind, c, i)
  <2>2. o.out[i] = [angle |-> x, sync |-> y, scan |-> c.scan]
    BY <2>1
  <2> HIDE DEF x, y
  <2>3. o.out[i].angle = x /\ o.out[i].sync = y
    BY <2>2
  <2> QED BY <2>3 DEF x, y
<1>3. Samples(kind) \in Nat /\ 1 \in 1 .. Samples(kind)
  BY DEF Samples
<1>4. \A i \in 2 .. Samples(kind) : i \in 1 .. Samples(kind)
  BY <1>3
<1> HIDE DEF G
<1>5. HolderAt(G, j * Samples(kind), AngleBefore(kind, c, Samples(kind)), w)
  BY <1>1
<1>6. \A i \in 1 .. Samples(kind) : o.out[i].angle = AngleOf(kind, c, i)
  BY <1>2
<1>7. \A i \in 2 .. Samples(kind) : o.out[i].sync = SyncsIn(kind, c, i)
  BY <1>2, <1>4
<1>8. o.out[1].sync = SyncsIn(kind, c, 1)
  BY <1>2, <1>3
<1> QED BY <1>5, <1>6, <1>7, <1>8, SamplesKeep DEF G

\* Between two capsules of a scan, in the formats that spread samples.
TooFar == kind \in Dense /\ Step > MaxDiff
Between(x, H) ==
  \E a, i : \E w \in -1 .. TurnSamples - 1 :
    /\ IsAt(x.prev, i, a) /\ WrapAt(kind, a, w)
    /\ HolderAt(H, i * Samples(kind), AngleBefore(kind, x.prev, Samples(kind)), w)
    /\ \/ Empty(H) /\ (i = 0 \/ TooFar)
       \/ kind \notin Dense
       \/ ~TooFar /\ x.last = LastBit(kind, x.prev)

\* The first capsule of a scan.
LEMMA FirstBegins ==
  ASSUME DecoderAssumption, Whole, NEW x, NEW a, IsAt(x.prev, 0, a),
         NEW H \in Holders(Int), GoodScan(H)
  PROVE  Between(x, RewindScan(H)) /\ GoodScan(RewindScan(H))
<1> DEFINE S == Samples(kind)
           G == RewindScan(H)
<1>1. /\ Filling(H) \in {0, 1} /\ H.avail \in {-1, 0, 1} /\ (H.avail >= 0 => H.avail # Filling(H))
      /\ H.buf \in [{0, 1} -> Seq(Nodes(Int))]
      /\ H = [buf |-> H.buf, avail |-> H.avail, signal |-> H.signal]
  BY DEF Filling, Holders
<1>2. /\ G.avail = H.avail /\ Filling(G) = Filling(H) /\ G.buf[Filling(H)] = << >>
      /\ H.avail >= 0 => G.buf[H.avail] = H.buf[H.avail]
  <2> DEFINE B == [H.buf EXCEPT ![Filling(H)] = << >>]
  <2>1. G = [H EXCEPT !.buf = B]
    BY DEF RewindScan
  <2>2. B[Filling(H)] = << >> /\ (H.avail >= 0 => B[H.avail] = H.buf[H.avail])
    BY <1>1
  <2> HIDE DEF B, G
  <2>3. G = [buf |-> B, avail |-> H.avail, signal |-> H.signal]
    BY <1>1, <2>1
  <2>4. G.buf = B /\ G.avail = H.avail
    BY <2>3
  <2> QED BY <2>2, <2>4 DEF Filling
<1> HIDE DEF G
<1>3. GoodScan(G) /\ Empty(G)
  BY <1>2 DEF GoodScan, Empty
<1>4. a \in 0 .. Step - 1
  BY DEF IsAt
<1>5. Format(kind) \in Formats(S)
  BY DEF Format, Formats, Samples, Dense, Spread
<1>6. PICK w \in -1 .. Round * S - 1 : WrapAt(kind, a, w)
  <2>1. Revolution(S, Spacing(kind), a * Fine, Step * Fine, Turn * Fine, Round)
    BY <1>4, CapsulesTurn DEF Turns
  <2> HIDE DEF S
  <2>2. \E w \in -1 .. Round * S - 1 :
          OneWrap(Format(kind), w, S, Spacing(kind), a * Fine, Step * Fine, Turn * Fine, Round)
    BY <1>5, <2>1, TurnHasOneWrap
  <2> QED BY <2>2 DEF WrapAt, S
<1>7. w \in -1 .. TurnSamples - 1
  BY <1>6 DEF TurnSamples, Round
<1>8. \A p, z : HolderAt(G, p, z, w)
  BY <1>3 DEF HolderAt, Collected, GoodScan, Empty
<1> QED BY <1>3, <1>6, <1>7, <1>8 DEF Between, G

\* What a handler makes of a whole capsule.
SpreadData(x, c) ==
  CASE kind = "capsule" -> CapsuleData(x, c) [] kind = "ultra" -> UltraCapsuleData(x, c)
    [] kind = "dense" -> DenseCapsuleData(x, c) [] OTHER -> UltraDenseCapsuleData(x, c)

\* The capsules that follow.
LEMMA SpreadCapsuleKeeps ==
  ASSUME DecoderAssumption, Whole, MaxSamples > 1, kind \in Spread, NEW x \in Handlers, x.rdy,
         NEW c \in Capsules, c.start = (x.prev.start + Step) % Turn,
         NEW H \in Holders(Int), Between(x, H), NEW o,
         o.out = SpreadData(x, c).out, ~o.rewind
  PROVE  Between(SpreadData(x, c).h, Publish(H, o))
<1> DEFINE S == Samples(kind)
           b == x.prev
           r == SpreadData(x, c)
<1>1. PICK a, i : \E w \in -1 .. TurnSamples - 1 :
        /\ IsAt(b, i, a) /\ WrapAt(kind, a, w)
        /\ HolderAt(H, i * S, AngleBefore(kind, b, S), w)
        /\ \/ Empty(H) /\ (i = 0 \/ TooFar)
           \/ kind \notin Dense
           \/ ~TooFar /\ x.last = LastBit(kind, b)
  BY DEF Between
<1>2. PICK w \in -1 .. TurnSamples - 1 :
        /\ IsAt(b, i, a) /\ WrapAt(kind, a, w)
        /\ HolderAt(H, i * S, AngleBefore(kind, b, S), w)
        /\ \/ Empty(H) /\ (i = 0 \/ TooFar)
           \/ kind \notin Dense
           \/ ~TooFar /\ x.last = LastBit(kind, b)
  BY <1>1
<1>3. DataIsGood(r, x, c, Int)
  <2>1. x.prev.scan \in Int
    BY DEF Handlers, Capsules
  <2> QED BY <2>1, CapsuleDataIsGood, DenseDataIsGood DEF SpreadData
<1>4. r.h \in Handlers /\ r.h.prev = c /\ r.out \in Seq(Nodes(Int))
  BY <1>3 DEF DataIsGood
<1>5. S \in Nat /\ S >= 2 /\ S \in 1 .. S
  BY DEF Samples, Spread
<1>6. H = IF o.rewind THEN RewindScan(H) ELSE H
  OBVIOUS
<1>7. Diff(b, c) = Step /\ IsAt(c, NextPlace(i), a)
  BY <1>2, NextIsAt
<1>8. ASSUME NEW bit, r.out = [n \in 1 .. S |-> Sample(kind, b, c, n, bit[n])],
             \A n \in 2 .. S : bit[n] = SyncsIn(kind, b, n),
             \/ bit[1] = SyncsIn(kind, b, 1)
             \/ /\ i = 0 /\ Empty(H) /\ kind \in Dense
                /\ bit[1] => /\ AngleOf(kind, b, 1) < Spacing(kind)
                             /\ \A v : WrapAt(kind, a, v) => v = Round * S - 1,
             kind \notin Dense \/ (~TooFar /\ r.h.last = LastBit(kind, c))
      PROVE  Between(r.h, Publish(H, o))
  <2>1. Len(o.out) = S /\ o.out \in Seq(Nodes(Int))
    BY <1>4, <1>5, <1>8
  <2>2. ASSUME NEW n \in 1 .. S
        PROVE  o.out[n].angle = AngleOf(kind, b, n) /\ o.out[n].sync = bit[n]
    <3>1. Sample(kind, b, c, n, bit[n]) = [angle |-> AngleOf(kind, b, n), sync |-> bit[n], scan |-> b.scan]
      BY <1>2, SpreadIs
    <3>2. o.out[n] = [angle |-> AngleOf(kind, b, n), sync |-> bit[n], scan |-> b.scan]
      BY <1>8, <3>1
    <3> QED BY <3>2
  <2>3. \A n \in 2 .. S : n \in 1 .. S
    BY <1>5
  <2>4. \/ o.out[1].sync = SyncsIn(kind, b, 1)
        \/ Late(kind, b, i, a, H, o.out)
    <3>1. 1 \in 1 .. S
      BY <1>5
    <3>2. o.out[1].sync = bit[1]
      BY <2>2, <3>1
    <3> QED BY <1>8, <3>2 DEF Late, Dense
  <2>5. \A n \in 2 .. S : o.out[n].sync = SyncsIn(kind, b, n)
    BY <1>8, <2>2, <2>3
  <2>6. HolderAt(Publish(H, o), NextPlace(i) * S, AngleBefore(kind, c, S), w)
    BY <1>2, <1>6, <2>1, <2>2, <2>4, <2>5, SamplesKeep
  <2>7. kind \notin Dense \/ (~TooFar /\ r.h.last = LastBit(kind, r.h.prev))
    BY <1>4, <1>8
  <2> QED BY <1>2, <1>4, <1>7, <2>6, <2>7 DEF Between
<1>9. CASE kind \notin Dense
  <2> DEFINE bit == [n \in 1 .. S |-> Wraps(kind, b, c, n, 1)]
  <2>1. ASSUME NEW n \in 1 .. S PROVE bit[n] = SyncsIn(kind, b, n)
    <3>1. Wraps(kind, b, c, n, 1) = Near(b.start * Fine, n, 1, Spacing(kind), Turn * Fine)
      BY <1>2, SpreadIs
    <3>2. Near(b.start * Fine, n, 1, Spacing(kind), Turn * Fine) = SyncsIn(kind, b, n)
      BY <1>9, SpreadSyncIs
    <3> QED BY <3>1, <3>2
  <2>2. r.out = [n \in 1 .. S |-> Sample(kind, b, c, n, bit[n])]
    <3>1. r.out = [n \in 1 .. S |-> Sample(kind, b, c, n, Wraps(kind, b, c, n, 1))]
      <4>1. CASE kind = "capsule"
        BY <4>1 DEF SpreadData, CapsuleData
      <4>2. CASE kind = "ultra"
        BY <4>2 DEF SpreadData, UltraCapsuleData
      <4> QED BY <1>9, <4>1, <4>2 DEF Spread, Dense
    <3> QED BY <3>1
  <2> HIDE DEF bit
  <2> QED BY <1>5, <1>8, <1>9, <2>1, <2>2
<1>10. CASE kind \in Dense /\ Step <= MaxDiff
  <2> DEFINE bit == DenseBits(kind, x, c)
  <2>0. Step \in Int /\ MaxDiff \in Int
    BY DEF DecoderAssumption
  <2>1. r = DenseExpand(kind, x, c)
    <3>1. ~(~x.rdy \/ Diff(b, c) > MaxDiff)
      BY <1>7, <1>10, <2>0
    <3>2. CASE kind = "dense"
      BY <3>1, <3>2 DEF SpreadData, DenseCapsuleData
    <3>3. CASE kind = "ultradense"
      BY <3>1, <3>3 DEF SpreadData, UltraDenseCapsuleData
    <3> QED BY <1>10, <3>2, <3>3 DEF Dense
  <2>2. r.out = [n \in 1 .. S |-> Sample(kind, b, c, n, bit[n])]
    BY <2>1 DEF DenseExpand
  <2>3. r.h.last = bit[S]
    <3>1. r.h = [x EXCEPT !.prev = c, !.rdy = TRUE, !.last = bit[S]]
      BY <2>1 DEF DenseExpand
    <3> DEFINE y == bit[S]
    <3>2. r.h = [x EXCEPT !.prev = c, !.rdy = TRUE, !.last = y]
      BY <3>1
    <3> HIDE DEF y
    <3>3. r.h.last = y
      BY <3>2 DEF Handlers
    <3> QED BY <3>3 DEF y
  <2>4. ~TooFar
    BY <1>10, <2>0 DEF TooFar
  <2>5. i = 0 \/ x.last = LastBit(kind, b)
    BY <1>2, <1>10, <2>4
  <2>6. /\ \A n \in 2 .. S : bit[n] = SyncsIn(kind, b, n)
        /\ \/ bit[1] = SyncsIn(kind, b, 1)
           \/ /\ i = 0
              /\ bit[1] => /\ AngleOf(kind, b, 1) < Spacing(kind)
                           /\ \A v : WrapAt(kind, a, v) => v = Round * S - 1
        /\ x.last = LastBit(kind, b) => bit[1] = SyncsIn(kind, b, 1)
        /\ bit[S] = LastBit(kind, c)
    <3>1. kind \in Dense /\ IsAt(b, i, a) /\ (i = 0 \/ x.last = LastBit(kind, b))
      BY <1>2, <1>10, <2>5
    <3>2. Marked(kind, x, c, i, a)
      BY <3>1, DenseBitsAre
    <3> QED BY <3>2 DEF Marked
  <2> HIDE DEF bit
  <2>7. x.last = LastBit(kind, b) \/ (Empty(H) /\ i = 0)
    BY <1>2, <1>10, <2>4
  <2>8. \/ bit[1] = SyncsIn(kind, b, 1)
        \/ /\ i = 0 /\ Empty(H) /\ kind \in Dense
           /\ bit[1] => /\ AngleOf(kind, b, 1) < Spacing(kind)
                        /\ \A v : WrapAt(kind, a, v) => v = Round * S - 1
    BY <1>10, <2>6, <2>7
  <2> QED BY <1>8, <2>2, <2>3, <2>4, <2>6, <2>8
<1>11. CASE kind \in Dense /\ ~(Step <= MaxDiff)
  <2>0. Step \in Int /\ MaxDiff \in Int
    BY DEF DecoderAssumption
  <2>1. TooFar
    BY <1>11, <2>0 DEF TooFar
  <2>2. Empty(H)
    BY <1>2, <1>11, <2>1
  <2>3. r.out = << >>
    <3>1. Diff(b, c) > MaxDiff
      BY <1>7, <2>1 DEF TooFar
    <3>2. CASE kind = "dense"
      BY <3>1, <3>2 DEF SpreadData, DenseCapsuleData
    <3>3. CASE kind = "ultradense"
      BY <3>1, <3>3 DEF SpreadData, UltraDenseCapsuleData
    <3> QED BY <1>11, <3>2, <3>3 DEF Dense
  <2>4. Publish(H, o) = H
    <3>1. o.out \in Seq(Nodes(Int)) /\ Len(o.out) = 0
      BY <2>3, EmptySeq
    <3>2. PICK d : PublishSteps(d, H, o, Int)
      BY <3>1, PublishGoesOn
    <3>3. d[0] = H /\ Publish(H, o) = d[Len(o.out)]
      BY <3>2 DEF PublishSteps
    <3> QED BY <3>1, <3>3
  <2>5. HolderAt(H, NextPlace(i) * S, AngleBefore(kind, c, S), w)
    BY <1>2, <2>2 DEF HolderAt, Collected, Empty
  <2> QED BY <1>2, <1>4, <1>7, <2>1, <2>2, <2>4, <2>5 DEF Between
<1> QED BY <1>9, <1>10, <1>11

-----------------------------------------------------------------------------
(* A message that is one capsule, as it was sent.                          *)
Unharmed(msg, c) ==
  \A i \in 1 .. Len(msg) :
    /\ msg[i].of = c /\ msg[i].place = i - 1 /\ msg[i].ok
    /\ i = 1 => msg[i].shows = "s1"
    /\ i = 2 /\ kind # "hq" => msg[i].shows = "s2"

\* The handler x, i bytes into the capsule.
HasRead(y, x, c, i) ==
  /\ y \in Handlers /\ y.pos = i /\ y.prev = x.prev /\ y.rdy = x.rdy /\ y.last = x.last
  /\ i > 0 => y.part = c /\ y.whole

\* Its next byte is in its place.
LEMMA ByteIsInPlace ==
  ASSUME NEW x, NEW y, NEW c, NEW msg, Unharmed(msg, c), Len(msg) = CapsuleLen, CapsuleLen \in Nat,
         NEW i \in 1 .. CapsuleLen, HasRead(y, x, c, i - 1)
  PROVE  /\ Fits(y, msg[i]) /\ ~Mismatch(IF kind = "hq" THEN "hq" ELSE "capsule", y, msg[i])
         /\ kind # "hq" => ~Mismatch("capsule", y, msg[i]) /\ ~Mismatch("normal", y, msg[i])
<1>1. /\ msg[i].of = c /\ msg[i].place = i - 1 /\ msg[i].ok
      /\ i = 1 => msg[i].shows = "s1"
      /\ i = 2 /\ kind # "hq" => msg[i].shows = "s2"
      /\ y.pos = i - 1 /\ (i - 1 > 0 => y.part = c /\ y.whole)
  BY DEF Unharmed, HasRead
<1> DEFINE b == msg[i]
<1> HIDE DEF b
<1>2. /\ b.of = c /\ b.place = i - 1 /\ b.ok
      /\ i = 1 => b.shows = "s1"
      /\ i = 2 /\ kind # "hq" => b.shows = "s2"
  BY <1>1 DEF b
<1>3. Fits(y, b)
  BY <1>1, <1>2 DEF Fits
<1>4. Pattern("hq", y.pos) \in {"any", b.shows}
  BY <1>1, <1>2 DEF Pattern
<1>5. ASSUME NEW k, kind # "hq" PROVE Pattern(k, y.pos) \in {"any", b.shows}
  BY <1>1, <1>2, <1>5 DEF Pattern
<1> QED BY <1>3, <1>4, <1>5 DEF Mismatch, b

\* It is stored, if it is not the last.
LEMMA StoreGoesOn ==
  ASSUME DecoderAssumption, NEW x, NEW y, NEW c, NEW msg \in Seq(Bytes(Int)), Unharmed(msg, c),
         Len(msg) = CapsuleLen, NEW i \in 1 .. CapsuleLen - 1, HasRead(y, x, c, i - 1)
  PROVE  OnData(kind, y, msg[i]) = Nothing(Store(y, msg[i])) /\ HasRead(Store(y, msg[i]), x, c, i)
<1> DEFINE b == msg[i]
<1>1. CapsuleLen \in Nat /\ i \in 1 .. CapsuleLen
  BY DEF DecoderAssumption
<1>2. /\ Fits(y, b) /\ ~Mismatch(IF kind = "hq" THEN "hq" ELSE "capsule", y, b)
      /\ kind # "hq" => ~Mismatch("capsule", y, b) /\ ~Mismatch("normal", y, b)
  BY <1>1, ByteIsInPlace
<1>3. b \in Bytes(Int) /\ b.of = c
  BY <1>1, ElementOfSeq DEF Unharmed
<1> HIDE DEF b
<1>4. y \in Handlers /\ y.pos = i - 1 /\ y.pos < CapsuleLen - 1 /\ y.part.scan \in Int
  BY <1>1, OfSomeScan DEF HasRead
<1>5. OnData(kind, y, b) = Nothing(Store(y, b))
  <2>1. CASE kind = "hq"
    BY <1>2, <1>4, <2>1 DEF OnData, HQOnData
  <2>2. CASE kind \in Spread
    <3>1. ~Mismatch("capsule", y, b)
      BY <1>2, <2>2 DEF Spread
    <3> QED BY <1>4, <2>2, <3>1 DEF OnData, Spread, CapsuleOnData, UltraOnData, DenseOnData,
                                   UltraDenseOnData, CapsuleByte
  <2>3. CASE kind # "hq" /\ kind \notin Spread
    BY <1>2, <1>4, <2>3 DEF OnData, Spread, NormalOnData
  <2> QED BY <2>1, <2>2, <2>3
<1>6. /\ Store(y, b) \in Handlers /\ Store(y, b).pos = y.pos + 1 /\ Store(y, b).rdy = y.rdy
      /\ Store(y, b).prev = y.prev /\ Store(y, b).whole = Fits(y, b)
      /\ Store(y, b).part = IF y.pos = 0 THEN b.of ELSE y.part
  BY <1>3, <1>4, StoreIsGood
<1>7. Store(y, b).last = y.last
  <2> DEFINE w == Fits(y, b)
             q == IF y.pos = 0 THEN b.of ELSE y.part
  <2>1. Store(y, b) = [y EXCEPT !.pos = y.pos + 1, !.whole = w, !.part = q]
    BY DEF Store
  <2> HIDE DEF w, q
  <2> QED BY <1>4, <2>1 DEF Handlers
<1> DEFINE s == Store(y, b)
<1> HIDE DEF s
<1>8. /\ s \in Handlers /\ s.pos = y.pos + 1 /\ s.rdy = y.rdy /\ s.prev = y.prev
      /\ s.last = y.last /\ s.whole
      /\ s.part = IF y.pos = 0 THEN b.of ELSE y.part
  BY <1>2, <1>6, <1>7 DEF s
<1>9. HasRead(s, x, c, i)
  <2>1. y.pos > 0 => y.part = c
    BY <1>4 DEF HasRead
  <2>2. s.part = c
    BY <1>3, <1>4, <1>8, <2>1
  <2>3. y.pos + 1 = i
    BY <1>1, <1>4
  <2> QED BY <1>8, <2>2, <2>3 DEF HasRead
<1> QED BY <1>5, <1>9 DEF s, b

\* Where there is nothing to publish nothing changes.
LEMMA NothingPublished ==
  ASSUME DecoderAssumption, NEW H \in Holders(Int), NEW o, o.out = << >>
  PROVE  Publish(H, o) = IF o.rewind THEN RewindScan(H) ELSE H
<1>1. o.out \in Seq(Nodes(Int)) /\ Len(o.out) = 0
  BY EmptySeq
<1>2. PICK d : PublishSteps(d, H, o, Int)
  BY <1>1, PublishGoesOn
<1>3. /\ d[0] = IF o.rewind THEN RewindScan(H) ELSE H
      /\ Publish(H, o) = d[Len(o.out)]
  BY <1>2 DEF PublishSteps
<1> QED BY <1>1, <1>3

\* The handler y has only the last byte to read.
OneToGo(y, x, H, c, msg) ==
  /\ HasRead(y, x, c, CapsuleLen - 1)
  /\ Read(kind, x, H, msg)[CapsuleLen]
       = [h |-> OnData(kind, y, msg[CapsuleLen]).h,
          holder |-> Publish(H, OnData(kind, y, msg[CapsuleLen]))]

\* All of it but the last byte was read: nothing was published, the handler waits for it.
LEMMA AlmostRead ==
  ASSUME DecoderAssumption, NEW x \in Handlers, x.pos = 0, NEW H \in Holders(Int), NEW c,
         NEW msg \in Seq(Bytes(Int)), Unharmed(msg, c), Len(msg) = CapsuleLen
  PROVE  \E y : OneToGo(y, x, H, c, msg)
<1> DEFINE n == CapsuleLen - 1
           d == Read(kind, x, H, msg)
           Fine1(s, i) == HasRead(s.h, x, c, i) /\ s.holder = H
           I == {i \in 0 .. n : Fine1(d[i], i)}
<1>1. n \in Nat /\ n >= 2 /\ CapsuleLen = n + 1 /\ CapsuleLen \in Nat
  BY DEF DecoderAssumption
<1>2. ReadSteps(kind, x, H, msg)
  BY ReadGoesOn
<1>3. /\ d[0] = [h |-> x, holder |-> H]
      /\ \A i \in 1 .. CapsuleLen :
           d[i] = [h |-> OnData(kind, d[i - 1].h, msg[i]).h,
                   holder |-> Publish(d[i - 1].holder, OnData(kind, d[i - 1].h, msg[i]))]
  BY <1>2 DEF ReadSteps
<1> HIDE DEF d, n
<1>4. Fine1(d[0], 0)
  BY <1>3 DEF HasRead
<1>5. ASSUME NEW i \in 1 .. n, Fine1(d[i - 1], i - 1) PROVE Fine1(d[i], i)
  <2> DEFINE y == d[i - 1].h
             s == Store(y, msg[i])
             o == Nothing(s)
  <2>1. HasRead(y, x, c, i - 1) /\ d[i - 1].holder = H
    BY <1>5
  <2>2. OnData(kind, y, msg[i]) = o /\ HasRead(s, x, c, i)
    <3>1. i \in 1 .. CapsuleLen - 1
      BY DEF n
    <3> HIDE DEF y
    <3> QED BY <2>1, <3>1, StoreGoesOn
  <2>3. d[i] = [h |-> o.h, holder |-> Publish(H, o)]
    <3>1. i \in 1 .. CapsuleLen
      BY <1>1
    <3>2. d[i] = [h |-> OnData(kind, y, msg[i]).h, holder |-> Publish(H, OnData(kind, y, msg[i]))]
      BY <1>3, <2>1, <3>1
    <3> QED BY <2>2, <3>2
  <2>4. o.h = s /\ o.out = << >> /\ ~o.rewind
    BY DEF Nothing
  <2> HIDE DEF y, s, o
  <2>5. Publish(H, o) = H
    BY <2>4, NothingPublished
  <2>6. d[i].h = s /\ d[i].holder = H
    BY <2>3, <2>4, <2>5
  <2> QED BY <2>2, <2>6
<1> HIDE DEF Fine1
<1>6. 0 \in I
  BY <1>1, <1>4
<1>7. ASSUME NEW i \in 1 .. n, i - 1 \in I PROVE i \in I
  BY <1>1, <1>5, <1>7
<1> HIDE DEF I
<1>8. \A i \in 0 .. n : i \in I
  BY <1>1, <1>6, <1>7, CountsUp
<1>9. n \in I
  BY <1>1, <1>8
<1>10. Fine1(d[n], n)
  BY <1>9 DEF I
<1> DEFINE y == d[n].h
<1>11. HasRead(y, x, c, n) /\ d[n].holder = H
  BY <1>10 DEF Fine1
<1>12. d[CapsuleLen] = [h |-> OnData(kind, y, msg[CapsuleLen]).h,
                        holder |-> Publish(H, OnData(kind, y, msg[CapsuleLen]))]
  <2>1. CapsuleLen \in 1 .. CapsuleLen /\ CapsuleLen - 1 = n
    BY <1>1
  <2> QED BY <1>3, <1>11, <2>1
<1> HIDE DEF y
<1> QED BY <1>11, <1>12 DEF d, n, OneToGo

\* A capsule that was read, as SpreadData wants it.
AsRead(v, x, c, o) ==
  /\ v.pos = 0 /\ v.prev = x.prev /\ v.rdy = (x.rdy /\ ~c.first) /\ v.last = x.last
  /\ o = [h |-> SpreadData(v, c).h, out |-> SpreadData(v, c).out, rewind |-> c.first]

\* The last byte of a capsule between two of which samples are spread.
LEMMA SpreadIsRead ==
  ASSUME DecoderAssumption, kind \in Spread, NEW x \in Handlers, NEW y, NEW c,
         NEW msg \in Seq(Bytes(Int)), Unharmed(msg, c), Len(msg) = CapsuleLen,
         HasRead(y, x, c, CapsuleLen - 1)
  PROVE  \E v \in Handlers : AsRead(v, x, c, OnData(kind, y, msg[CapsuleLen]))
<1> DEFINE b == msg[CapsuleLen]
           q == x.rdy /\ ~c.first
           v == [Drop(y) EXCEPT !.rdy = @ /\ ~c.first]
<1>1. CapsuleLen \in Nat /\ CapsuleLen >= 3 /\ CapsuleLen \in 1 .. CapsuleLen
  BY DEF DecoderAssumption
<1>2. Fits(y, b) /\ ~Mismatch("capsule", y, b)
  <2>1. kind # "hq"
    BY DEF Spread
  <2> QED BY <1>1, <2>1, ByteIsInPlace
<1>3. b \in Bytes(Int) /\ b.of = c
  BY <1>1, ElementOfSeq DEF Unharmed
<1>4. /\ y \in Handlers /\ ~(y.pos < CapsuleLen - 1) /\ y.prev = x.prev /\ y.rdy = x.rdy
      /\ y.last = x.last
  BY <1>1 DEF HasRead
<1> HIDE DEF b
<1>5. q \in BOOLEAN
  BY <1>3 DEF Handlers, Bytes, Capsules
<1>6. v = [Drop(y) EXCEPT !.rdy = q]
  <2>1. Drop(y) \in Handlers /\ Drop(y).rdy = x.rdy
    BY <1>4, DropIsGood
  <2> QED BY <2>1
<1>7. OnData(kind, y, b)
        = [h |-> SpreadData(v, c).h, out |-> SpreadData(v, c).out, rewind |-> c.first]
  <2> DEFINE R(res) == CASE Mismatch("capsule", y, b) -> Nothing(Lost(y))
               [] ~Mismatch("capsule", y, b) /\ y.pos < CapsuleLen - 1 -> Nothing(Store(y, b))
               [] OTHER -> IF ~Fits(y, b) THEN Nothing(Lost(y))
                           ELSE [h |-> res.h, out |-> res.out, rewind |-> b.of.first]
  <2>1. OnData(kind, y, b) = R(SpreadData(v, c))
    <3>1. CASE kind = "capsule"
      BY <1>3, <3>1 DEF OnData, CapsuleOnData, CapsuleByte, SpreadData
    <3>2. CASE kind = "ultra"
      BY <1>3, <3>2 DEF OnData, UltraOnData, CapsuleByte, SpreadData
    <3>3. CASE kind = "dense"
      BY <1>3, <3>3 DEF OnData, DenseOnData, CapsuleByte, SpreadData
    <3>4. CASE kind = "ultradense"
      BY <1>3, <3>4 DEF OnData, UltraDenseOnData, CapsuleByte, SpreadData
    <3> QED BY <3>1, <3>2, <3>3, <3>4 DEF Spread
  <2> HIDE DEF v
  <2>2. R(SpreadData(v, c))
          = [h |-> SpreadData(v, c).h, out |-> SpreadData(v, c).out, rewind |-> c.first]
    BY <1>2, <1>3, <1>4
  <2> QED BY <2>1, <2>2
<1> HIDE DEF q, v
<1>8. v \in Handlers /\ v.rdy = q /\ v.pos = 0 /\ v.prev = x.prev /\ v.last = x.last
  <2>1. v \in Handlers /\ v.rdy = q /\ v.pos = 0 /\ v.prev = x.prev
    BY <1>4, <1>5, <1>6, ReadyIsGood
  <2>2. [Drop(y) EXCEPT !.rdy = q].last = Drop(y).last /\ Drop(y).last = y.last
    BY <1>4, DropIsGood DEF Handlers
  <2> QED BY <1>4, <1>6, <2>1, <2>2
<1> QED BY <1>7, <1>8 DEF b, q, AsRead

\* A list of one.
LEMMA OneElement == ASSUME NEW t PROVE [i \in 1 .. 1 |-> t] = <<t>>
OBVIOUS

\* The last byte of one that has its own samples.
LEMMA OwnIsRead ==
  ASSUME DecoderAssumption, kind \notin Spread, NEW x \in Handlers, NEW y, NEW c,
         NEW msg \in Seq(Bytes(Int)), Unharmed(msg, c), Len(msg) = CapsuleLen,
         HasRead(y, x, c, CapsuleLen - 1)
  PROVE  OnData(kind, y, msg[CapsuleLen])
           = [h |-> Drop(y), rewind |-> FALSE,
              out |-> [i \in 1 .. Samples(kind) |-> OwnSample(kind, c, i)]]
<1> DEFINE b == msg[CapsuleLen]
           s == [i \in 1 .. Samples(kind) |-> OwnSample(kind, c, i)]
<1> SUFFICES OnData(kind, y, b) = [h |-> Drop(y), rewind |-> FALSE, out |-> s]
  OBVIOUS
<1>1. CapsuleLen \in Nat /\ CapsuleLen >= 3 /\ CapsuleLen \in 1 .. CapsuleLen
  BY DEF DecoderAssumption
<1>2. /\ Fits(y, b) /\ ~Mismatch(IF kind = "hq" THEN "hq" ELSE "capsule", y, b)
      /\ kind # "hq" => ~Mismatch("normal", y, b)
  BY <1>1, ByteIsInPlace
<1>3. b.of = c /\ y.part = c /\ ~(y.pos < CapsuleLen - 1)
  BY <1>1 DEF Unharmed, HasRead
<1> HIDE DEF b
<1>4. CASE kind = "hq"
  <2>1. OnData(kind, y, b) = HQOnData(y, b) /\ ~Mismatch("hq", y, b)
    BY <1>2, <1>4 DEF OnData
  <2>2. HQOnData(y, b) = [h |-> Drop(y), rewind |-> FALSE,
                          out |-> [i \in 1 .. Samples("hq") |-> OwnSample("hq", b.of, i)]]
    BY <1>2, <1>3, <2>1 DEF HQOnData
  <2>3. [i \in 1 .. Samples("hq") |-> OwnSample("hq", b.of, i)] = s
    BY <1>3, <1>4
  <2> HIDE DEF s
  <2> QED BY <2>1, <2>2, <2>3
<1>5. CASE kind # "hq"
  <2>1. OnData(kind, y, b)
          = [h |-> Drop(y), rewind |-> FALSE, out |-> <<OwnSample("normal", c, 1)>>]
    BY <1>2, <1>3, <1>5 DEF OnData, Spread, NormalOnData
  <2>2. Samples(kind) = 1 /\ Samples("normal") = 1
    BY <1>5 DEF Samples, Spread
  <2>3. OwnSample("normal", c, 1) = OwnSample(kind, c, 1)
    BY <2>2 DEF OwnSample
  <2> DEFINE t == OwnSample(kind, c, 1)
  <2>4. s = [i \in 1 .. 1 |-> t]
    BY <2>2
  <2>5. OnData(kind, y, b) = [h |-> Drop(y), rewind |-> FALSE, out |-> <<t>>]
    BY <2>1, <2>3
  <2> HIDE DEF t, s
  <2>6. s = <<t>>
    BY <2>4, OneElement
  <2> QED BY <2>5, <2>6
<1> QED BY <1>4, <1>5

-----------------------------------------------------------------------------
\* A handler and a holder that are ready for the capsule c of a scan without noise.
Awaits(x, H, c) ==
  IF kind \in Spread
  THEN IF c.first THEN \E a : IsAt(c, 0, a)
       ELSE x.rdy /\ c.start = (x.prev.start + Step) % Turn /\ Between(x, H)
  ELSE \E a, j : \E w \in -1 .. TurnSamples - 1 :
         /\ IsAt(c, j, a) /\ WrapAt(kind, a, w)
         /\ HolderAt(H, j * Samples(kind), AngleBefore(kind, c, Samples(kind)), w)

\* What they are when it has been read, with d to come.
AfterCapsule(r, d) == r.h.pos = 0 /\ GoodScan(r.holder) /\ Awaits(r.h, r.holder, d)

\* A capsule read to its last byte leaves no scan that is not a turn, and handler and holder
\* where the next capsule needs them.
LEMMA MessageKeeps ==
  ASSUME DecoderAssumption, Whole, MaxSamples > 1, NEW x \in Handlers, x.pos = 0,
         NEW H \in Holders(Int), GoodScan(H), NEW c \in Capsules, Awaits(x, H, c),
         NEW msg \in Seq(Bytes(Int)), Unharmed(msg, c), Len(msg) = CapsuleLen,
         NEW d, d.start = (c.start + Step) % Turn, ~d.first
  PROVE  AfterCapsule(Read(kind, x, H, msg)[CapsuleLen], d)
<1> DEFINE r == Read(kind, x, H, msg)[CapsuleLen]
<1>0. PICK y : OneToGo(y, x, H, c, msg)
  BY AlmostRead
<1>1. /\ HasRead(y, x, c, CapsuleLen - 1)
      /\ r = [h |-> OnData(kind, y, msg[CapsuleLen]).h,
              holder |-> Publish(H, OnData(kind, y, msg[CapsuleLen]))]
  BY <1>0 DEF OneToGo
<1> DEFINE o == OnData(kind, y, msg[CapsuleLen])
<1>2. r.h = o.h /\ r.holder = Publish(H, o)
  <2>1. r = [h |-> o.h, holder |-> Publish(H, o)]
    BY <1>1
  <2> HIDE DEF r, o
  <2> QED BY <2>1
<1> HIDE DEF r
<1>3. CASE kind \in Spread
  <2>0. PICK v \in Handlers : AsRead(v, x, c, o)
    BY <1>1, <1>3, SpreadIsRead
  <2>1. /\ v.pos = 0 /\ v.prev = x.prev /\ v.rdy = (x.rdy /\ ~c.first) /\ v.last = x.last
        /\ o = [h |-> SpreadData(v, c).h, out |-> SpreadData(v, c).out, rewind |-> c.first]
    BY <2>0 DEF AsRead
  <2> HIDE DEF o
  <2>2. o.h = SpreadData(v, c).h /\ o.out = SpreadData(v, c).out /\ o.rewind = c.first
    BY <2>1
  <2>3. DataIsGood(SpreadData(v, c), v, c, Int)
    <3>1. v.prev.scan \in Int
      BY OfSomeScan
    <3> QED BY <3>1, CapsuleDataIsGood, DenseDataIsGood DEF SpreadData
  <2>4. o.h.pos = 0 /\ o.h.rdy /\ o.h.prev = c
    BY <2>1, <2>2, <2>3 DEF DataIsGood
  <2>5. GoodScan(Publish(H, o)) /\ Between(o.h, Publish(H, o))
    <3>1. CASE c.first
      <4>1. o.out = << >>
        <5>1. ~v.rdy
          BY <2>1, <3>1
        <5> QED BY <2>2, <5>1 DEF SpreadData, CapsuleData, UltraCapsuleData, DenseCapsuleData,
                                 UltraDenseCapsuleData
      <4>2. Publish(H, o) = RewindScan(H)
        BY <2>2, <3>1, <4>1, NothingPublished
      <4>3. \E a : IsAt(o.h.prev, 0, a)
        BY <1>3, <2>4, <3>1 DEF Awaits
      <4> DEFINE z == o.h
      <4>4. PICK a : IsAt(z.prev, 0, a)
        BY <4>3
      <4> HIDE DEF z
      <4>5. Between(z, RewindScan(H)) /\ GoodScan(RewindScan(H))
        BY <4>4, FirstBegins
      <4> QED BY <4>2, <4>5 DEF z
    <3>2. CASE ~c.first
      <4>1. x.rdy /\ c.start = (x.prev.start + Step) % Turn /\ Between(x, H)
        BY <1>3, <3>2 DEF Awaits
      <4>2. v.rdy /\ c.start = (v.prev.start + Step) % Turn
        BY <2>1, <3>2, <4>1
      <4>3. Between(v, H)
        BY <2>1, <4>1 DEF Between
      <4>4. Between(o.h, Publish(H, o))
        BY <1>3, <2>2, <3>2, <4>2, <4>3, SpreadCapsuleKeeps
      <4> QED BY <4>4 DEF Between, HolderAt, GoodScan
    <3> QED BY <3>1, <3>2
  <2>6. d.start = (o.h.prev.start + Step) % Turn
    BY <2>4
  <2> QED BY <1>2, <1>3, <2>4, <2>5, <2>6 DEF AfterCapsule, Awaits, r
<1>4. CASE kind \notin Spread
  <2> DEFINE s == [i \in 1 .. Samples(kind) |-> OwnSample(kind, c, i)]
             f == FALSE
  <2>1. o = [h |-> Drop(y), rewind |-> f, out |-> s]
    BY <1>1, <1>4, OwnIsRead
  <2> HIDE DEF o
  <2>2. Samples(kind) \in Nat /\ s \in Seq(Nodes(Int)) /\ Len(s) = Samples(kind) /\ ~f
    <3>1. Samples(kind) \in Nat /\ c.scan \in Int
      BY DEF Samples, Capsules
    <3>2. ASSUME NEW i \in 1 .. Samples(kind) PROVE OwnSample(kind, c, i) \in Nodes(Int)
      BY <3>1, OwnSampleIsNode
    <3> QED BY <3>1, <3>2, ListIsSequence
  <2>3. \A i \in 1 .. Samples(kind) : s[i] = OwnSample(kind, c, i)
    OBVIOUS
  <2> HIDE DEF s, f
  <2>4. o.h = Drop(y) /\ o.rewind = f /\ o.out = s
    BY <2>1
  <2>5. o.h.pos = 0
    BY <1>1, <2>4, DropIsGood DEF HasRead
  <2>6. PICK a, j : \E w \in -1 .. TurnSamples - 1 :
          /\ IsAt(c, j, a) /\ WrapAt(kind, a, w)
          /\ HolderAt(H, j * Samples(kind), AngleBefore(kind, c, Samples(kind)), w)
    BY <1>4 DEF Awaits
  <2>7. PICK w \in -1 .. TurnSamples - 1 :
          /\ IsAt(c, j, a) /\ WrapAt(kind, a, w)
          /\ HolderAt(H, j * Samples(kind), AngleBefore(kind, c, Samples(kind)), w)
    BY <2>6
  <2>8. o.out \in Seq(Nodes(Int)) /\ ~o.rewind /\ Len(o.out) = Samples(kind)
    BY <2>2, <2>4
  <2>9. \A i \in 1 .. Samples(kind) : o.out[i] = OwnSample(kind, c, i)
    BY <2>3, <2>4
  <2>10. /\ HolderAt(Publish(H, o), NextPlace(j) * Samples(kind),
                     AngleBefore(kind, d, Samples(kind)), w)
         /\ IsAt(d, NextPlace(j), a)
    BY <1>4, <2>7, <2>8, <2>9, OwnCapsuleKeeps
  <2>11. GoodScan(Publish(H, o)) /\ Awaits(o.h, Publish(H, o), d)
    BY <1>4, <2>7, <2>10 DEF HolderAt, GoodScan, Awaits
  <2> QED BY <1>2, <2>5, <2>11 DEF AfterCapsule, r
<1> QED BY <1>3, <1>4

-----------------------------------------------------------------------------
(* The scans of a clean wire.                                              *)

\* While samples are wanted the codec has what was sent of the capsule, and handler and
\* holder are where its beginning found them.
InStride ==
  /\ h.pos = 0 /\ Awaits(h, holder, dev.cap)
  /\ dev.state = "scan" =>
       dev.at < CapsuleLen /\ Len(codec.rx) = dev.at /\ Unharmed(codec.rx, dev.cap)

TurnInv == GoodScan(holder) /\ (unp.enabled => InStride)

\* These do not change while the format of the scan does not.
LEMMA FormatStays ==
  ASSUME kind' = kind
  PROVE  /\ TurnSamples' = TurnSamples
         /\ \A x, c : Unharmed(x, c)' <=> Unharmed(x, c)
         /\ \A H : GoodScan(H)' <=> GoodScan(H)
         /\ \A x, H, c : Awaits(x, H, c)' <=> Awaits(x, H, c)
<1>1. TurnSamples' = TurnSamples
  BY DEF TurnSamples
<1>2. ASSUME NEW x, NEW c PROVE Unharmed(x, c)' <=> Unharmed(x, c)
  BY DEF Unharmed
<1>3. ASSUME NEW s PROVE OneTurn(s)' <=> OneTurn(s)
  <2>1. BeginsLate(s)' <=> BeginsLate(s)
    BY DEF BeginsLate
  <2> QED BY <1>1, <2>1 DEF OneTurn
<1>4. ASSUME NEW H PROVE GoodScan(H)' <=> GoodScan(H)
  BY <1>3 DEF GoodScan
<1>5. ASSUME NEW H, NEW p, NEW z, NEW w PROVE HolderAt(H, p, z, w)' <=> HolderAt(H, p, z, w)
  <2>1. ASSUME NEW s PROVE Collected(s, p, z, w)' <=> Collected(s, p, z, w)
    <3>1. BeginsLate(s)' <=> BeginsLate(s)
      BY DEF BeginsLate
    <3> QED BY <1>1, <3>1 DEF Collected, Since, Grown, Held
  <2> QED BY <1>3, <2>1 DEF HolderAt
<1>6. ASSUME NEW x, NEW H PROVE Between(x, H)' <=> Between(x, H)
  <2>1. TooFar' <=> TooFar
    BY DEF TooFar
  <2> QED BY <1>1, <1>5, <2>1 DEF Between
<1>7. ASSUME NEW x, NEW H, NEW c PROVE Awaits(x, H, c)' <=> Awaits(x, H, c)
  BY <1>1, <1>5, <1>6 DEF Awaits
<1> QED BY <1>1, <1>2, <1>4, <1>7

\* The wrap is somewhere in a turn, or at its seam.
LEMMA WrapIsSomewhere ==
  ASSUME DecoderAssumption, Whole, NEW a \in 0 .. Step - 1
  PROVE  \E w \in -1 .. TurnSamples - 1 : WrapAt(kind, a, w)
<1> DEFINE S == Samples(kind)
<1>5. Format(kind) \in Formats(S)
  BY DEF Format, Formats, Samples, Dense, Spread
<1>6. \E w \in -1 .. Round * S - 1 : WrapAt(kind, a, w)
  <2>1. Revolution(S, Spacing(kind), a * Fine, Step * Fine, Turn * Fine, Round)
    BY CapsulesTurn DEF Turns
  <2> HIDE DEF S
  <2>2. \E w \in -1 .. Round * S - 1 :
          OneWrap(Format(kind), w, S, Spacing(kind), a * Fine, Step * Fine, Turn * Fine, Round)
    BY <1>5, <2>1, TurnHasOneWrap
  <2> QED BY <2>2 DEF WrapAt, S
<1> QED BY <1>6 DEF TurnSamples, Round

\* A scan that begins finds the holder empty.
LEMMA StartAwaits ==
  ASSUME DecoderAssumption, Whole, NEW a \in 0 .. Step - 1, NEW c, c.start = a, c.first, NEW x
  PROVE  Awaits(x, EmptyHolder, c) /\ GoodScan(EmptyHolder)
<1> DEFINE S == Samples(kind)
<1>1. Round \in Nat \ {0, 1} /\ Step \in Nat \ {0}
  BY RoundsFill
<1>2. IsAt(c, 0, a)
  <2>1. a \in Int /\ 0 * Step + a = a /\ 0 \in 0 .. Round - 1
    BY <1>1
  <2> QED BY <2>1 DEF IsAt
<1>3. PICK w \in -1 .. TurnSamples - 1 : WrapAt(kind, a, w)
  BY WrapIsSomewhere
<1>4. EmptyHolder.avail = -1 /\ Filling(EmptyHolder) = 0 /\ EmptyHolder.buf[0] = << >>
  <2> DEFINE w0 == FALSE
             buf == [i \in {0, 1} |-> << >>]
  <2>1. EmptyHolder = [buf |-> buf, avail |-> -1, signal |-> w0] /\ buf[0] = << >>
    BY DEF EmptyHolder
  <2> HIDE DEF w0, buf
  <2>2. EmptyHolder.avail = -1 /\ EmptyHolder.buf = buf
    BY <2>1
  <2> QED BY <2>1, <2>2 DEF Filling
<1>5. HolderAt(EmptyHolder, 0 * S, AngleBefore(kind, c, S), w) /\ GoodScan(EmptyHolder)
  BY <1>4 DEF HolderAt, Collected, GoodScan
<1> QED BY <1>2, <1>3, <1>5 DEF Awaits

\* That a scan has been announced is of no concern to what it is.
LEMMA SignalIsApart ==
  ASSUME NEW G, NEW H, G.buf = H.buf, G.avail = H.avail
  PROVE  /\ GoodScan(G) <=> GoodScan(H)
         /\ \A x, c : Awaits(x, G, c) <=> Awaits(x, H, c)
<1>1. Filling(G) = Filling(H)
  BY DEF Filling
<1>2. /\ \A p, z, w : HolderAt(G, p, z, w) <=> HolderAt(H, p, z, w)
      /\ Empty(G) <=> Empty(H)
      /\ GoodScan(G) <=> GoodScan(H)
  BY <1>1 DEF HolderAt, Empty, GoodScan
<1>3. \A x : Between(x, G) <=> Between(x, H)
  BY <1>2 DEF Between
<1> QED BY <1>2, <1>3 DEF Awaits

\* The device sends its capsules a step apart.
LEMMA NextCapsuleIsNext ==
  ASSUME NEW c \in Capsules PROVE NextCapsule(c).start = (c.start + Step) % Turn
<1> DEFINE a == (c.start + Step) % Turn
           s == (c.serial + 1) % Serials
           w == FALSE
<1>1. NextCapsule(c) = [c EXCEPT !.start = a, !.first = w, !.serial = s]
  BY DEF NextCapsule
<1> HIDE DEF a, s, w
<1>2. NextCapsule(c).start = a
  BY <1>1 DEF Capsules
<1> QED BY <1>2 DEF a

\* A byte of a capsule.
LEMMA ByteInStride ==
  ASSUME DecoderAssumption, Whole, MaxSamples > 1, StreamInv, TurnInv, SendByte
  PROVE  TurnInv'
<1>1. PICK s \in CapsulePatterns(dev.at) :
        OnDecodeData([of |-> dev.cap, place |-> dev.at, shows |-> s, ok |-> TRUE])
  BY DEF SendByte
<1> DEFINE t == TRUE
           b == [of |-> dev.cap, place |-> dev.at, shows |-> s, ok |-> t]
           msg == Append(codec.rx, b)
<1>2. /\ dev.state = "scan" /\ Advance /\ kind' = kind /\ dev \in Devices /\ dev.at \in Nat
      /\ dev.cap \in Capsules /\ CapsuleLen \in Nat /\ CapsuleLen >= 3 /\ scan \in Int
      /\ dev.cap.scan \in Int
      /\ h \in Handlers /\ holder \in Holders({scan}) /\ codec \in Codecs(Int)
  BY DEF SendByte, StreamInv, StreamTypes, Devices, DecoderAssumption, Capsules
<1>3. /\ dev'.state = "scan"
      /\ \/ dev'.cap = dev.cap /\ dev'.at = dev.at + 1 /\ dev.at # CapsuleLen - 1
         \/ dev.at = CapsuleLen - 1 /\ dev'.cap = NextCapsule(dev.cap) /\ dev'.at = 0
  BY <1>2, AdvanceIsSound
<1>4. b \in Bytes(Int) /\ OnDecodeData(b) /\ t
  BY <1>1, <1>2 DEF Bytes, CapsulePatterns, Patterns
<1>5. /\ b.of = dev.cap /\ b.place = dev.at /\ b.ok
      /\ dev.at = 0 => b.shows = "s1"
      /\ dev.at = 1 /\ kind # "hq" => b.shows = "s2"
  BY <1>1 DEF CapsulePatterns
<1> HIDE DEF b, msg
<1>6. CASE ~unp.enabled
  <2>1. UNCHANGED <<h, holder, unp>>
    BY <1>4, <1>6, NothingDelivered
  <2>2. GoodScan(holder)' <=> GoodScan(holder)
    BY <1>2, <2>1, FormatStays
  <2> QED BY <1>6, <2>1, <2>2 DEF TurnInv
<1>7. CASE unp.enabled
  <2>1. /\ h.pos = 0 /\ Awaits(h, holder, dev.cap) /\ GoodScan(holder)
        /\ dev.at < CapsuleLen /\ Len(codec.rx) = dev.at /\ Unharmed(codec.rx, dev.cap)
        /\ codec.state = "payload"
    BY <1>2, <1>7 DEF TurnInv, InStride, StreamInv, StreamSound, CodecInStep
  <2>2. codec.rx \in Seq(Bytes(Int)) /\ codec = [state |-> codec.state, rx |-> codec.rx]
    BY <1>2 DEF Codecs
  <2>3. /\ msg \in Seq(Bytes(Int)) /\ Len(msg) = dev.at + 1
        /\ \A j \in 1 .. dev.at : msg[j] = codec.rx[j]
        /\ msg[dev.at + 1] = b
    BY <1>4, <2>1, <2>2, AppendProperties DEF msg
  <2>4. Unharmed(msg, dev.cap)
    <3> SUFFICES ASSUME NEW i \in 1 .. Len(msg)
                 PROVE  /\ msg[i].of = dev.cap /\ msg[i].place = i - 1 /\ msg[i].ok
                        /\ i = 1 => msg[i].shows = "s1"
                        /\ i = 2 /\ kind # "hq" => msg[i].shows = "s2"
      BY DEF Unharmed
    <3>1. CASE i = dev.at + 1
      BY <1>2, <1>5, <2>3, <3>1
    <3>2. CASE i \in 1 .. dev.at
      <4>1. /\ codec.rx[i].of = dev.cap /\ codec.rx[i].place = i - 1 /\ codec.rx[i].ok
            /\ i = 1 => codec.rx[i].shows = "s1"
            /\ i = 2 /\ kind # "hq" => codec.rx[i].shows = "s2"
        BY <2>1, <3>2 DEF Unharmed
      <4>2. msg[i] = codec.rx[i]
        BY <2>3, <3>2
      <4> QED BY <4>1, <4>2
    <3> QED BY <1>2, <2>3, <3>1, <3>2
  <2>5. DecodePayload(b)
    BY <1>4, <2>1 DEF OnDecodeData
  <2>6. CASE Len(msg) # CapsuleLen
    <3>1. UNCHANGED <<h, holder, unp>>
      BY <1>4, <2>6, NothingDelivered DEF msg
    <3>2. codec' = [codec EXCEPT !.rx = msg]
      BY <2>5, <2>6 DEF DecodePayload, msg
    <3>3. codec'.rx = msg
      BY <2>2, <3>2
    <3>4. dev'.cap = dev.cap /\ dev'.at = dev.at + 1 /\ dev'.at < CapsuleLen
      BY <1>2, <1>3, <2>1, <2>3, <2>6
    <3>5. GoodScan(holder)' /\ Awaits(h, holder, dev.cap)' /\ Unharmed(codec.rx, dev.cap)'
      BY <1>2, <2>1, <2>4, <3>1, <3>3, <3>4, FormatStays
    <3> QED BY <2>1, <2>3, <3>1, <3>3, <3>4, <3>5 DEF TurnInv, InStride
  <2>7. CASE Len(msg) = CapsuleLen
    <3>1. Deliver(msg) /\ codec' = [codec EXCEPT !.rx = << >>]
      BY <1>7, <2>5, <2>7 DEF DecodePayload, OnSampleData, msg
    <3>2. codec'.rx = << >>
      BY <2>2, <3>1
    <3>3. /\ h' = Read(kind, h, holder, msg)[CapsuleLen].h
          /\ holder' = Read(kind, h, holder, msg)[CapsuleLen].holder
      BY <2>7, <3>1, DeliverIsRead
    <3>4. dev'.cap = NextCapsule(dev.cap) /\ dev'.at = 0
      BY <1>2, <1>3, <2>3, <2>7
    <3>5. dev'.cap.start = (dev.cap.start + Step) % Turn /\ ~dev'.cap.first
      BY <1>2, <3>4, NextCapsuleIsCapsule, NextCapsuleIsNext
    <3>6. holder \in Holders(Int)
      BY <1>2, OfSomeScan
    <3>7. PICK d : d = dev'.cap
      OBVIOUS
    <3>8. AfterCapsule(Read(kind, h, holder, msg)[CapsuleLen], d)
      BY <1>2, <2>1, <2>3, <2>4, <2>7, <3>5, <3>6, <3>7, MessageKeeps
    <3>9. h'.pos = 0 /\ GoodScan(holder') /\ Awaits(h', holder', d)
      BY <3>3, <3>8 DEF AfterCapsule
    <3>10. GoodScan(holder)' /\ Awaits(h, holder, dev.cap)'
      BY <1>2, <3>7, <3>9, FormatStays
    <3>11. Unharmed(codec.rx, dev.cap)' /\ Len(codec'.rx) = 0
      BY <3>2 DEF Unharmed
    <3> QED BY <1>2, <3>4, <3>9, <3>10, <3>11 DEF TurnInv, InStride
  <2> QED BY <2>6, <2>7
<1> QED BY <1>6, <1>7

\* The other steps.
LEMMA StepInStride ==
  ASSUME Whole, MaxSamples > 1, StreamInv, TurnInv, [Next]_vars, noise' = noise
  PROVE  TurnInv'
<1> USE DecoderAssumption, StreamAssumption
<1>0. /\ dev \in Devices /\ h \in Handlers /\ CapsuleLen \in Nat /\ CapsuleLen >= 3
      /\ dev.at \in Nat /\ noise \in Nat /\ codec \in Codecs(Int) /\ holder \in Holders({scan})
      /\ StreamTypes /\ HandlerSound
  BY DEF StreamInv, StreamTypes, DecoderAssumption, Devices
<1>1. CASE SendHeader
  <2>1. UNCHANGED <<h, holder, unp, kind>> /\ dev.state = "header" /\ Advance
    <3> DEFINE b == [of |-> Header, place |-> dev.at, shows |-> HeaderPattern(dev.at), ok |-> TRUE]
    <3>1. OnDecodeData(b) /\ dev.state = "header" /\ kind' = kind /\ Advance
      BY <1>1 DEF SendHeader
    <3>2. unp.enabled => codec.state # "payload"
      BY <3>1 DEF StreamInv, StreamSound, CodecInStep
    <3> HIDE DEF b
    <3>3. UNCHANGED <<h, holder, unp>>
      BY <3>1, <3>2, NothingDelivered
    <3> QED BY <3>1, <3>3
  <2>2. dev'.cap = dev.cap /\ (dev'.state = "scan" => dev'.at = 0)
    BY <1>0, <2>1, AdvanceIsSound DEF StreamTypes
  <2>3. unp.enabled => codec'.rx = << >>
    <3> SUFFICES ASSUME unp.enabled PROVE codec'.rx = << >>
      OBVIOUS
    <3>1. /\ codec.rx = << >> /\ codec.state # "payload"
          /\ codec = [state |-> codec.state, rx |-> codec.rx]
      BY <1>0, <2>1 DEF StreamInv, StreamSound, CodecInStep, Codecs
    <3>2. \E s : codec' = [codec EXCEPT !.state = s]
      BY <1>1, <3>1 DEF SendHeader, OnDecodeData, DecodeHeader
    <3> QED BY <3>1, <3>2
  <2>4. /\ GoodScan(holder)' <=> GoodScan(holder)
        /\ Awaits(h, holder, dev.cap)' <=> Awaits(h, holder, dev.cap)
    BY <2>1, <2>2, FormatStays
  <2>5. codec'.rx = << >> => Len(codec'.rx) = 0 /\ Unharmed(codec.rx, dev.cap)'
    BY DEF Unharmed
  <2> QED BY <1>0, <2>1, <2>2, <2>3, <2>4, <2>5 DEF TurnInv, InStride
<1>2. CASE SendByte
  BY <1>2, ByteInStride
<1>3. CASE DamageByte \/ LoseByte
  BY <1>0, <1>3 DEF DamageByte, LoseByte
<1>4. CASE DeviceStops
  <2>1. UNCHANGED <<kind, unp, holder>> /\ ~unp.enabled
    BY <1>4 DEF DeviceStops, StreamInv, StreamSound, CodecInStep
  <2> QED BY <2>1, FormatStays DEF TurnInv
<1>5. CASE Stop
  <2>1. UNCHANGED <<kind, holder>> /\ ~unp'.enabled
    BY <1>5 DEF Stop, ResetUnpacker
  <2> QED BY <2>1, FormatStays DEF TurnInv
<1>6. CASE Start
  <2>1. ResetUnpacker(TRUE) /\ kind' = kind /\ holder' = EmptyHolder
    BY <1>6 DEF Start, ResetHolder
  <2>2. h'.pos = 0
    BY <1>0, <2>1, ResetIsSound DEF HandlerSound
  <2>3. PICK a \in 0 .. Step - 1 :
          dev' = [dev EXCEPT !.state = "header", !.at = 0,
                    !.cap = [start |-> a, first |-> TRUE, serial |-> 0, scan |-> scan + 1]]
    BY <1>6 DEF Start
  <2> DEFINE t == TRUE
             c == [start |-> a, first |-> t, serial |-> 0, scan |-> scan + 1]
  <2>4. dev' = [dev EXCEPT !.state = "header", !.at = 0, !.cap = c] /\ t
    BY <2>3
  <2>5. c.start = a /\ c.first
    OBVIOUS
  <2> HIDE DEF t, c
  <2>6. dev'.cap = c /\ dev'.state = "header"
    BY <1>0, <2>4 DEF Devices
  <2>7. PICK x : x = h'
    OBVIOUS
  <2>8. Awaits(x, EmptyHolder, c) /\ GoodScan(EmptyHolder)
    BY <2>5, StartAwaits
  <2>9. Awaits(h, holder, dev.cap)' /\ GoodScan(holder)'
    BY <2>1, <2>6, <2>7, <2>8, FormatStays
  <2> QED BY <2>2, <2>6, <2>9 DEF TurnInv, InStride
<1>7. CASE GrabWait
  <2> DEFINE w == FALSE
  <2>1. holder' = [holder EXCEPT !.signal = w] /\ UNCHANGED <<kind, dev, codec, unp, h>>
    BY <1>7 DEF GrabWait
  <2> HIDE DEF w
  <2>2. PICK G : G = holder'
    OBVIOUS
  <2>3. G.buf = holder.buf /\ G.avail = holder.avail
    BY <1>0, <2>1, <2>2 DEF Holders
  <2>4. /\ GoodScan(G) <=> GoodScan(holder)
        /\ Awaits(h, G, dev.cap) <=> Awaits(h, holder, dev.cap)
    BY <2>3, SignalIsApart
  <2>5. /\ GoodScan(holder)' <=> GoodScan(holder)
        /\ Awaits(h, holder, dev.cap)' <=> Awaits(h, holder, dev.cap)
        /\ Unharmed(codec.rx, dev.cap)' <=> Unharmed(codec.rx, dev.cap)
    BY <2>1, <2>2, <2>4, FormatStays
  <2> QED BY <2>1, <2>5 DEF TurnInv, InStride
<1>8. CASE UNCHANGED <<kind, dev, codec, unp, h, holder>>
  <2>1. /\ GoodScan(holder)' <=> GoodScan(holder)
        /\ Awaits(h, holder, dev.cap)' <=> Awaits(h, holder, dev.cap)
        /\ Unharmed(codec.rx, dev.cap)' <=> Unharmed(codec.rx, dev.cap)
    BY <1>8, FormatStays
  <2> QED BY <1>8, <2>1 DEF TurnInv, InStride
<1> QED BY <1>1, <1>2, <1>3, <1>4, <1>5, <1>6, <1>7, <1>8 DEF Next, GrabCopy, vars

\* Before any scan there is none.
LEMMA TurnInvInit == Init => TurnInv
<1> SUFFICES ASSUME Init PROVE TurnInv
  OBVIOUS
<1>1. ~unp.enabled /\ holder = EmptyHolder
  BY DEF Init
<1>2. ~(EmptyHolder.avail >= 0)
  BY DEF EmptyHolder
<1> QED BY <1>1, <1>2 DEF TurnInv, GoodScan

\* On a clean wire what a grab returns is one revolution, whatever the format and
\* wherever the scan began (the handlers' onData, ScanDataHolder, startScanExpress):
\* provided the capsules of a turn fill it and are more than one, and the buffer holds
\* more than one sample (the code's holds 8192).
THEOREM CleanScanIsAlwaysOneTurn ==
  ASSUME Whole, MaxSamples > 1
  PROVE  Spec => []CleanScanIsOneTurn
<1> DEFINE Inv == noise \in Nat /\ (noise = 0 => StreamInv /\ TurnInv)
<1>1. Init => Inv
  BY InitIsSound, TurnInvInit DEF Init
<1>2. Inv /\ [Next]_vars => Inv'
  <2> SUFFICES ASSUME Inv, [Next]_vars PROVE Inv'
    OBVIOUS
  <2>1. noise' = noise \/ noise' = noise + 1
    BY DEF Next, vars, SendHeader, SendByte, DamageByte, LoseByte, DeviceStops, Stop, Start,
           GrabWait, GrabCopy
  <2>2. ASSUME noise' = 0 PROVE StreamInv' /\ TurnInv'
    <3>1. noise = 0 /\ noise' = noise /\ StreamInv /\ TurnInv
      BY <2>1, <2>2
    <3>2. SomeArrived
      BY <3>1, DecoderAssumption DEF SomeArrived, DecoderAssumption
    <3> QED BY <3>1, <3>2, StepIsSound, StepInStride
  <2> QED BY <2>1, <2>2
<1>3. Inv => CleanScanIsOneTurn
  <2> SUFFICES ASSUME StreamInv, TurnInv, holder.avail >= 0 PROVE OneTurn(Available)
    BY DEF CleanScanIsOneTurn
  <2>1. holder.avail \in Int
    BY DEF StreamInv, StreamTypes, Holders
  <2>2. Available = holder.buf[holder.avail]
    BY <2>1 DEF Available
  <2> QED BY <2>2 DEF TurnInv, GoodScan
<1> HIDE DEF Inv
<1> QED BY <1>1, <1>2, <1>3, PTL DEF Spec
=============================================================================

--------------------------- MODULE Devices_proofs ---------------------------
(***************************************************************************)
(* The board, the saved settings, the servos and the shape of a scan.      *)
(*   - The board's frames, for any radix, reports and number of faults: the*)
(*     receiver is in step again in time.                                  *)
(*   - The calibration and the controller mapping, for any values: the next*)
(*     process has what was saved, whenever the last one died.             *)
(*   - The servos, for any calibration: commands keep their order.         *)
(*   - The message of a turn, for any widths of angles and bins and any    *)
(*     mounting: it shows the room.                                        *)
(***************************************************************************)
EXTENDS Board, JoyMapping, Calibration, Servos, ScanShape, FiniteSetTheorems,
        WellFoundedInduction, SequenceTheorems, TLAPS

(* A set of numbers that is not empty has a least one: what an induction   *)
(* over the length of a list rests on here.                                *)
LEMMA LeastNatural ==
  ASSUME NEW T \in SUBSET Nat, T # {}
  PROVE  \E x \in T : \A y \in T : x <= y
<1>1. PICK x \in T : \A y \in T : ~(<<y, x>> \in OpToRel(<, Nat))
  BY NatLessThanWellFounded, WFMin
<1>2. \A y \in T : ~(y < x)
  BY <1>1 DEF OpToRel
<1> QED BY <1>2

-----------------------------------------------------------------------------
\* The board's frames

(* The sum of a payload is a number: the sums of its prefixes exist, and    *)
(* each is one, or there would be a shortest prefix of which that is not   *)
(* so.                                                                     *)
LEMMA TotalIsNumber == ASSUME NEW s \in Seq(Int) PROVE Total(s) \in Int
<1> DEFINE n == Len(s)
           Sums(m, f) == f = [i \in 0 .. m |-> IF i = 0 THEN 0 ELSE f[i - 1] + s[i]]
           Sum == CHOOSE f : Sums(n, f)
<1>1. n \in Nat /\ \A i \in 1 .. n : s[i] \in Int
  BY LenProperties, ElementOfSeq
<1> HIDE DEF n
<1>2. Total(s) = Sum[n]
  BY DEF Total, n
<1>3. \E f \in [0 .. n -> Int] : Sums(n, f)
  <2> DEFINE T == {m \in 0 .. n : ~ \E f \in [0 .. m -> Int] : Sums(m, f)}
  <2>1. T \in SUBSET Nat /\ n \in 0 .. n
    BY <1>1
  <2> SUFFICES ASSUME T # {} PROVE FALSE
    BY <2>1
  <2>2. PICK m \in T : \A k \in T : m <= k
    <3> HIDE DEF T
    <3> QED BY <2>1, LeastNatural
  <2>3. m \in 0 .. n /\ ~ \E f \in [0 .. m -> Int] : Sums(m, f)
    BY <2>2
  <2>4. CASE m = 0
    <3> DEFINE g == [i \in 0 .. 0 |-> 0]
    <3>1. g \in [0 .. 0 -> Int] /\ g = [i \in 0 .. 0 |-> IF i = 0 THEN 0 ELSE g[i - 1] + s[i]]
      OBVIOUS
    <3> QED BY <2>3, <2>4, <3>1
  <2>5. CASE m # 0
    <3>1. m - 1 \in 0 .. n /\ m - 1 \notin T
      <4>1. m - 1 \in 0 .. n /\ ~(m <= m - 1)
        BY <1>1, <2>3, <2>5
      <4> HIDE DEF T
      <4> QED BY <2>2, <4>1
    <3>2. PICK f \in [0 .. (m - 1) -> Int] : Sums(m - 1, f)
      BY <3>1
    <3> DEFINE g == [i \in 0 .. m |-> IF i = m THEN f[m - 1] + s[m] ELSE f[i]]
    <3>3. m \in 1 .. n /\ m \in Nat /\ m # 0
      BY <1>1, <2>3, <2>5
    <3>4. g \in [0 .. m -> Int]
      BY <1>1, <3>3
    <3>5. ASSUME NEW i \in 0 .. m PROVE g[i] = IF i = 0 THEN 0 ELSE g[i - 1] + s[i]
      <4>1. CASE i = m
        BY <3>3, <4>1
      <4>2. CASE i # m
        <5>1. i \in 0 .. (m - 1) /\ (i # 0 => i - 1 \in 0 .. m /\ i - 1 # m)
          BY <3>3, <4>2
        <5>2. f[i] = IF i = 0 THEN 0 ELSE f[i - 1] + s[i]
          BY <3>2, <5>1
        <5> QED BY <4>2, <5>1, <5>2
      <4> QED BY <4>1, <4>2
    <3>6. g = [i \in 0 .. m |-> IF i = 0 THEN 0 ELSE g[i - 1] + s[i]]
      BY <3>4, <3>5
    <3> QED BY <2>3, <3>4, <3>6
  <2> QED BY <2>4, <2>5
<1>4. Sums(n, Sum)
  BY <1>3
<1> HIDE DEF Sum
<1>5. ASSUME NEW i \in 0 .. n PROVE Sum[i] = IF i = 0 THEN 0 ELSE Sum[i - 1] + s[i]
  BY <1>4
<1>6. n \in 0 .. n
  BY <1>1
<1> DEFINE U == {i \in 0 .. n : Sum[i] \notin Int}
<1>7. U \in SUBSET Nat
  OBVIOUS
<1> SUFFICES ASSUME U # {} PROVE FALSE
  BY <1>2, <1>6
<1>8. PICK i \in U : \A k \in U : i <= k
  <2> HIDE DEF U
  <2> QED BY <1>7, LeastNatural
<1>9. i \in 0 .. n /\ i # 0 /\ Sum[i] \notin Int
  BY <1>5, <1>8
<1>10. i - 1 \in 0 .. n /\ ~(i <= i - 1) /\ s[i] \in Int
  BY <1>1, <1>9
<1>11. Sum[i - 1] \in Int
  BY <1>8, <1>10
<1> QED BY <1>5, <1>9, <1>10, <1>11

LEMMA RemainderIsInt == ASSUME NEW a \in Int, NEW b \in Nat \ {0} PROVE a % b \in Int
OBVIOUS

(* What a frame is made of.                                                *)
LEMMA FrameShape ==
  ASSUME NEW r \in Reports
  PROVE  LET f == Frame(r)  n == Len(r.payload) + 3
         IN /\ f \in Seq(Int) /\ Len(f) = n + 2 /\ Len(r.payload) \in 1 .. MaxData - 1
            /\ f[1] = HEAD /\ f[2] = DEVICE /\ f[3] = n /\ f[4] = r.type
            /\ \A i \in 1 .. Len(r.payload) : f[4 + i] = r.payload[i]
            /\ f[n + 2] = Checksum(n, r.type, r.payload)
<1> DEFINE p == r.payload  n == Len(p) + 3  c == Checksum(n, r.type, p)
           h == <<HEAD, DEVICE, n, r.type>>  t == Append(p, c)
<1>1. /\ p \in Seq(Int) /\ Len(p) \in 1 .. MaxData - 1 /\ MaxData \in Nat
      /\ {HEAD, DEVICE, r.type} \subseteq Int /\ Radix \in Nat \ {0}
  <2>1. 0 .. Radix - 1 \subseteq Int
    BY BoardAssumption DEF BoardAssumption
  <2>2. p \in Seq(0 .. Radix - 1)
    BY BoardAssumption DEF BoardAssumption
  <2>3. p \in Seq(Int)
    <3> HIDE DEF p
    <3>1. p \in [1 .. Len(p) -> 0 .. Radix - 1] /\ Len(p) \in Nat
      BY <2>2, LenProperties
    <3>2. p \in [1 .. Len(p) -> Int]
      BY <2>1, <3>1
    <3> QED BY <3>1, <3>2, SeqDef
  <2> QED BY <2>1, <2>3, BoardAssumption DEF BoardAssumption
<1>2. c \in Int
  <2>1. Total(p) \in Int
    BY <1>1, TotalIsNumber
  <2> QED BY <1>1, <2>1, RemainderIsInt DEF Checksum
<1> HIDE DEF c
<1>3. n \in Int /\ h \in Seq(Int) /\ Len(h) = 4
  BY <1>1
<1>4. /\ t \in Seq(Int) /\ Len(t) = Len(p) + 1 /\ t[Len(p) + 1] = c
      /\ \A i \in 1 .. Len(p) : t[i] = p[i]
  <2> HIDE DEF p
  <2> QED BY <1>1, <1>2, AppendProperties
<1>5. /\ Frame(r) = h \o t
      /\ h[1] = HEAD /\ h[2] = DEVICE /\ h[3] = n /\ h[4] = r.type
  BY DEF Frame, c
<1> HIDE DEF h, t, p
<1>6. /\ h \o t \in Seq(Int) /\ Len(h \o t) = Len(h) + Len(t)
      /\ \A i \in 1 .. Len(h) + Len(t) : (h \o t)[i] = IF i <= Len(h) THEN h[i] ELSE t[i - Len(h)]
  BY <1>3, <1>4, ConcatProperties
<1> DEFINE f == h \o t
<1> HIDE DEF f
<1>7. /\ f \in Seq(Int) /\ Len(f) = Len(p) + 5
      /\ \A i \in 1 .. 4 : f[i] = h[i]
      /\ \A i \in 5 .. Len(p) + 5 : f[i] = t[i - 4]
  <2> HIDE DEF n
  <2>1. Len(h) = 4 /\ Len(t) = Len(p) + 1 /\ Len(p) \in Nat
    BY <1>1, <1>3, <1>4
  <2>2. f \in Seq(Int) /\ Len(f) = Len(p) + 5
    BY <1>6, <2>1 DEF f
  <2>3. \A i \in 1 .. Len(p) + 5 : f[i] = IF i <= 4 THEN h[i] ELSE t[i - 4]
    <3>1. Len(h) + Len(t) = Len(p) + 5
      BY <2>1
    <3> QED BY <1>6, <2>1, <3>1 DEF f
  <2>4. \A i \in 1 .. 4 : i \in 1 .. Len(p) + 5 /\ i <= 4
    BY <2>1
  <2>5. \A i \in 5 .. Len(p) + 5 : i \in 1 .. Len(p) + 5 /\ ~(i <= 4)
    BY <2>1
  <2> QED BY <2>2, <2>3, <2>4, <2>5
<1>8. f[1] = HEAD /\ f[2] = DEVICE /\ f[3] = n /\ f[4] = r.type
  BY <1>5, <1>7
<1>9. ASSUME NEW i \in 1 .. Len(p) PROVE f[4 + i] = p[i]
  <2>1. 4 + i \in 5 .. Len(p) + 5 /\ (4 + i) - 4 = i
    BY <1>1
  <2> QED BY <1>4, <1>7, <2>1
<1>10. f[Len(p) + 5] = c
  <2>1. Len(p) + 5 \in 5 .. Len(p) + 5 /\ (Len(p) + 5) - 4 = Len(p) + 1
    BY <1>1
  <2> QED BY <1>4, <1>7, <2>1
<1>11. n + 2 = Len(p) + 5 /\ Frame(r) = f
  BY <1>1, <1>5 DEF f
<1> QED BY <1>1, <1>7, <1>8, <1>9, <1>10, <1>11 DEF c, p

Sent == Len(Frame(report)) - Len(wire)

OnWire ==
  /\ report \in Reports /\ wire \in Seq(Int) /\ Len(wire) \in 1 .. Len(Frame(report))
  /\ \A i \in 1 .. Len(wire) : wire[i] = Frame(report)[Sent + i]

\* How many bytes of a frame a receiver has.
Got(r) ==
  CASE r.at = "head" -> 0 [] r.at = "device" -> 1 [] r.at = "length" -> 2
    [] r.at = "type" -> 3 [] r.at = "data" -> 4 + Len(r.data)

Receivers == [at : {"head", "device", "length", "type", "data"}, length : Int, type : Int,
              data : Seq(Int)]

InFrame(r) ==
  /\ r \in Receivers
  /\ IF r.at = "data" THEN DataLength(r.length) /\ Len(r.data) < r.length - 2
     ELSE r.data = << >>

After(b) == IF Complete(Received(b)) THEN Waiting ELSE Received(b)

\* What the bytes since the last fault are: a frame that is none,
FalseFrame == overdue <= Got(rx)
\* or the end of one without a beginning,
Seeking ==
  /\ Sent >= 1 /\ overdue <= Longest + Sent
  /\ rx.at \in {"head", "device"}
  /\ rx.at = "device" => Sent >= 2 /\ Frame(report)[Sent] = HEAD
\* or the beginning of one.
Tracking ==
  /\ overdue <= 2 * Longest + Sent
  /\ Got(rx) = Sent
  /\ Sent >= 3 => rx.length = Len(report.payload) + 3
  /\ Sent >= 4 => rx.type = report.type
  /\ \A i \in 1 .. Len(rx.data) : rx.data[i] = Frame(report)[4 + i]

BoardInv ==
  /\ OnWire /\ InFrame(rx) /\ overdue \in Nat
  /\ Unmistakable => FalseFrame \/ Seeking \/ Tracking

LEMMA FirstOnWire ==
  ASSUME OnWire
  PROVE  /\ Sent \in Nat /\ Sent < Len(Frame(report))
         /\ Head(wire) = Frame(report)[Sent + 1] /\ Head(wire) \in Int
         /\ Tail(wire) = << >> <=> Sent + 1 = Len(Frame(report))
<1>1. /\ Frame(report) \in Seq(Int) /\ Len(Frame(report)) \in Nat /\ Len(wire) \in Nat
      /\ Len(wire) >= 1 /\ Len(wire) <= Len(Frame(report)) /\ wire \in Seq(Int)
  BY FrameShape, LenProperties DEF OnWire
<1>2. wire # << >>
  BY <1>1, EmptySeq
<1>3. Head(wire) = wire[1] /\ Tail(wire) \in Seq(Int) /\ Len(Tail(wire)) = Len(wire) - 1
  BY <1>1, <1>2, HeadTailProperties
<1>4. Tail(wire) = << >> <=> Len(Tail(wire)) = 0
  BY <1>3, EmptySeq
<1>5. Head(wire) = Frame(report)[Sent + 1] /\ Head(wire) \in Int
  <2>1. 1 \in 1 .. Len(wire)
    BY <1>1
  <2> QED BY <1>1, <1>3, <2>1, ElementOfSeq DEF OnWire
<1>6. Sent \in Nat /\ Sent < Len(Frame(report))
  BY <1>1 DEF Sent
<1>7. Len(Tail(wire)) = 0 <=> Sent + 1 = Len(Frame(report))
  <2> DEFINE a == Len(Frame(report))
             b == Len(wire)
  <2>1. a \in Nat /\ b \in Nat /\ Len(Tail(wire)) = b - 1 /\ Sent = a - b
    BY <1>1, <1>3 DEF Sent
  <2> HIDE DEF a, b
  <2>2. b - 1 = 0 <=> (a - b) + 1 = a
    BY ONLY <2>1
  <2> QED BY <2>1, <2>2 DEF a
<1> QED BY <1>4, <1>5, <1>6, <1>7

LEMMA WireMovesOn ==
  ASSUME OnWire, Follows(Tail(wire))
  PROVE  /\ OnWire'
         /\ IF Sent + 1 = Len(Frame(report)) THEN Sent' = 0
            ELSE report' = report /\ Sent' = Sent + 1
<1>1. /\ Sent \in Nat
      /\ Tail(wire) = << >> <=> Sent + 1 = Len(Frame(report))
  BY FirstOnWire
<1>2. /\ Frame(report) \in Seq(Int) /\ Len(Frame(report)) \in Nat /\ Len(wire) \in Nat
      /\ Len(wire) >= 1 /\ Len(wire) <= Len(Frame(report)) /\ wire \in Seq(Int)
  BY FrameShape, LenProperties DEF OnWire
<1>3. wire # << >>
  BY <1>2, EmptySeq
<1>4. /\ Tail(wire) \in Seq(Int) /\ Len(Tail(wire)) = Len(wire) - 1
      /\ \A i \in 1 .. Len(Tail(wire)) : Tail(wire)[i] = wire[i + 1]
  BY <1>2, <1>3, HeadTailProperties
<1>5. CASE Tail(wire) # << >>
  <2>1. wire' = Tail(wire) /\ report' = report /\ Sent' = Sent + 1
    <3>1. wire' = Tail(wire) /\ report' = report
      BY <1>5 DEF Follows
    <3>2. Len(wire') = Len(wire) - 1 /\ Frame(report') = Frame(report)
      BY <1>4, <3>1
    <3>3. Sent' = Len(Frame(report')) - Len(wire') /\ Sent = Len(Frame(report)) - Len(wire)
      BY DEF Sent
    <3>4. Len(Frame(report)) - (Len(wire) - 1) = Len(Frame(report)) - Len(wire) + 1
      BY <1>2
    <3> QED BY <3>1, <3>2, <3>3, <3>4
  <2>2. Len(Tail(wire)) >= 1
    BY <1>2, <1>4, <1>5, EmptySeq
  <2>3. ASSUME NEW i \in 1 .. Len(Tail(wire)) PROVE Tail(wire)[i] = Frame(report)[Sent + 1 + i]
    <3>1. i + 1 \in 1 .. Len(wire) /\ Sent + (i + 1) = Sent + 1 + i
      BY <1>1, <1>2, <1>4
    <3>2. Tail(wire)[i] = wire[i + 1] /\ wire[i + 1] = Frame(report)[Sent + (i + 1)]
      BY <1>4, <3>1 DEF OnWire
    <3> QED BY <3>1, <3>2
  <2>4. Len(Tail(wire)) \in 1 .. Len(Frame(report)) /\ Frame(report') = Frame(report)
    BY <1>2, <1>4, <2>1, <2>2
  <2>5. OnWire'
    BY <1>4, <2>1, <2>3, <2>4 DEF OnWire
  <2> QED BY <1>1, <1>5, <2>1, <2>5
<1>6. CASE Tail(wire) = << >>
  <2>1. report' \in Reports /\ wire' = Frame(report')
    BY <1>6 DEF Follows
  <2>2. Frame(report') \in Seq(Int) /\ Len(Frame(report')) \in Nat /\ Len(Frame(report')) >= 1
    BY <2>1, FrameShape, LenProperties
  <2>3. Sent' = 0
    BY <2>1, <2>2 DEF Sent
  <2>4. OnWire'
    <3>1. \A i \in 1 .. Len(wire') : wire'[i] = Frame(report')[0 + i]
      BY <2>1, <2>2
    <3> QED BY <2>1, <2>2, <2>3, <3>1 DEF OnWire
  <2> QED BY <1>1, <1>6, <2>3, <2>4
<1> QED BY <1>5, <1>6

LEMMA ReceivesByte ==
  ASSUME InFrame(rx), NEW b \in Int
  PROVE  /\ InFrame(After(b))
         /\ After(b).at = "head" \/ Got(After(b)) = Got(rx) + 1
         /\ Got(rx) \in Nat /\ Got(rx) < Longest
<1>1. MaxData \in Nat /\ Longest = MaxData + 4
  BY BoardAssumption DEF BoardAssumption, Longest
<1>2. Waiting \in Receivers /\ Waiting.data = << >> /\ Waiting.at = "head"
  BY EmptySeq DEF Waiting, Receivers
<1>3. rx \in Receivers /\ rx.data \in Seq(Int) /\ Len(rx.data) \in Nat
  BY LenProperties DEF InFrame, Receivers
<1>4. CASE rx.at = "head"
  <2>1. Received(b) = IF b = HEAD THEN [rx EXCEPT !.at = "device"] ELSE rx
    BY <1>4 DEF Received
  <2>2. Received(b).at \in {"head", "device"} /\ ~Complete(Received(b))
    BY <1>3, <1>4, <2>1 DEF Receivers, Complete
  <2>3. InFrame(Received(b))
    BY <1>3, <1>4, <2>1 DEF InFrame, Receivers
  <2>4. Received(b).at = "device" => Got(Received(b)) = 1
    BY DEF Got
  <2>5. Got(rx) = 0
    BY <1>4 DEF Got
  <2> QED BY <1>1, <2>2, <2>3, <2>4, <2>5 DEF After
<1>5. CASE rx.at = "device"
  <2>1. Received(b) = IF b = DEVICE THEN [rx EXCEPT !.at = "length"] ELSE Waiting
    BY <1>5 DEF Received
  <2>2. Received(b).at \in {"head", "length"} /\ ~Complete(Received(b))
    BY <1>2, <1>3, <1>5, <2>1 DEF Receivers, Complete
  <2>3. InFrame(Received(b))
    BY <1>2, <1>3, <1>5, <2>1 DEF InFrame, Receivers
  <2>4. Received(b).at = "length" => Got(Received(b)) = 2
    BY DEF Got
  <2>5. Got(rx) = 1
    BY <1>5 DEF Got
  <2> QED BY <1>1, <2>2, <2>3, <2>4, <2>5 DEF After
<1>6. CASE rx.at = "length"
  <2>1. Received(b) = [rx EXCEPT !.at = "type", !.length = b]
    BY <1>6 DEF Received
  <2>2. Received(b).at = "type" /\ ~Complete(Received(b))
    BY <1>3, <2>1 DEF Receivers, Complete
  <2>3. InFrame(Received(b))
    BY <1>3, <1>6, <2>1 DEF InFrame, Receivers
  <2>4. Got(Received(b)) = 3
    BY <2>2 DEF Got
  <2>5. Got(rx) = 2
    BY <1>6 DEF Got
  <2> QED BY <1>1, <2>2, <2>3, <2>4, <2>5 DEF After
<1>7. CASE rx.at = "type"
  <2> DEFINE r == [rx EXCEPT !.at = "data", !.type = b]
  <2>1. Received(b) = IF DataLength(rx.length) THEN r ELSE Waiting
    BY <1>7 DEF Received
  <2>2. Got(rx) = 3
    BY <1>7 DEF Got
  <2>3. r \in Receivers /\ r.at = "data" /\ r.data = << >> /\ r.length = rx.length
        /\ r.length \in Int
    BY <1>3, <1>7 DEF InFrame, Receivers
  <2> HIDE DEF r
  <2>4. Len(r.data) = 0 /\ Got(r) = 4
    BY <2>3, EmptySeq DEF Got
  <2>5. CASE DataLength(rx.length) /\ rx.length # 2
    <3>1. ~Complete(r) /\ InFrame(r)
      BY <2>3, <2>4, <2>5, <1>1 DEF Complete, InFrame, DataLength
    <3> QED BY <1>1, <2>1, <2>2, <2>4, <2>5, <3>1 DEF After
  <2>6. CASE ~(DataLength(rx.length) /\ rx.length # 2)
    <3>1. After(b) = Waiting
      BY <2>1, <2>3, <2>4, <2>6 DEF After, Complete
    <3> QED BY <1>1, <1>2, <2>2, <3>1 DEF InFrame
  <2> QED BY <2>5, <2>6
<1>8. CASE rx.at = "data"
  <2> DEFINE r == [rx EXCEPT !.data = Append(@, b)]
  <2>1. Received(b) = r
    BY <1>8 DEF Received
  <2>2. /\ DataLength(rx.length) /\ Len(rx.data) < rx.length - 2 /\ rx.length \in Int
        /\ Got(rx) = 4 + Len(rx.data)
    BY <1>3, <1>8 DEF InFrame, Receivers, Got
  <2>3. Append(rx.data, b) \in Seq(Int) /\ Len(Append(rx.data, b)) = Len(rx.data) + 1
    BY <1>3, AppendProperties
  <2>4. /\ r \in Receivers /\ r.at = "data" /\ r.length = rx.length
        /\ r.data = Append(rx.data, b)
    BY <1>3, <1>8, <2>3 DEF Receivers
  <2> HIDE DEF r
  <2>5. Got(r) = Got(rx) + 1
    <3>1. Got(r) = 4 + (Len(rx.data) + 1)
      BY <2>3, <2>4 DEF Got
    <3> QED BY <1>3, <2>2, <3>1
  <2>6. ~Complete(r) => InFrame(r)
    BY <1>3, <2>2, <2>3, <2>4 DEF Complete, InFrame
  <2>7. Got(rx) \in Nat /\ Got(rx) < Longest
    BY <1>1, <1>3, <2>2 DEF DataLength
  <2> QED BY <1>2, <2>1, <2>5, <2>6, <2>7 DEF After, InFrame
<1> QED BY <1>3, <1>4, <1>5, <1>6, <1>7, <1>8 DEF Receivers

LEMMA GotIsNatural == ASSUME NEW r, InFrame(r) PROVE Got(r) \in Nat /\ (r.at = "data" <=> Got(r) >= 4)
<1>1. r \in Receivers /\ Len(r.data) \in Nat
  BY LenProperties DEF InFrame, Receivers
<1> QED BY <1>1 DEF Got, Receivers

(* The byte that completes a frame as the board sent it counts as nothing. *)
LEMMA WholeFrameCounts ==
  ASSUME OnWire, InFrame(rx), Tracking, Sent + 1 = Len(Frame(report))
  PROVE  LET r == Received(Head(wire))
         IN Complete(r) /\ Correct(r) /\ Whole(r, Tail(wire))
<1> DEFINE p == report.payload  F == Frame(report)  n == Len(p) + 3  b == Head(wire)
           d == Append(rx.data, b)
           r == Received(Head(wire))
<1>1. /\ F \in Seq(Int) /\ Len(F) = n + 2 /\ Len(p) \in 1 .. MaxData - 1
      /\ \A i \in 1 .. Len(p) : F[4 + i] = p[i]
      /\ F[n + 2] = Checksum(n, report.type, p)
  BY FrameShape DEF OnWire
<1>2. Sent \in Nat /\ b = F[Sent + 1] /\ b \in Int /\ Tail(wire) = << >>
  BY FirstOnWire
<1>3. p \in Seq(0 .. Radix - 1) /\ MaxData \in Nat /\ Len(p) \in Nat
  BY BoardAssumption, LenProperties DEF BoardAssumption, OnWire
<1>4. Sent = Len(p) + 4 /\ Len(p) >= 1
  <2> DEFINE k == Len(p)
  <2>1. Sent + 1 = Len(F)
    BY DEF F
  <2>2. Sent \in Nat /\ k \in Nat /\ k \in 1 .. MaxData - 1 /\ Sent + 1 = (k + 3) + 2
    BY <1>1, <1>2, <1>3, <2>1
  <2> HIDE DEF k
  <2>3. Sent = k + 4 /\ k >= 1
    BY ONLY <1>3, <2>2
  <2> QED BY <2>3 DEF k
<1>5. Got(rx) = Len(p) + 4 /\ rx.at = "data"
  BY <1>3, <1>4, GotIsNatural DEF Tracking
<1>6. Len(rx.data) = Len(p) /\ rx.data \in Seq(Int) /\ Len(rx.data) \in Nat
  <2>1. rx.data \in Seq(Int) /\ Len(rx.data) \in Nat
    BY LenProperties DEF InFrame, Receivers
  <2>2. 4 + Len(rx.data) = Len(p) + 4
    BY <1>5 DEF Got
  <2> QED BY ONLY <1>3, <2>1, <2>2
<1>7. /\ d \in Seq(Int) /\ Len(d) = Len(p) + 1 /\ d[Len(p) + 1] = b
      /\ \A i \in 1 .. Len(p) : d[i] = rx.data[i]
  <2>1. /\ d \in Seq(Int) /\ Len(d) = Len(rx.data) + 1 /\ d[Len(rx.data) + 1] = b
        /\ \A i \in 1 .. Len(rx.data) : d[i] = rx.data[i]
    <3> HIDE DEF b
    <3> QED BY <1>2, <1>6, AppendProperties
  <2> QED BY <1>6, <2>1
<1>8. r = [rx EXCEPT !.data = d]
  BY <1>5 DEF Received
<1> HIDE DEF r, d, b, F, p
<1>9. \A i \in 1 .. Len(p) : d[i] = p[i]
  BY <1>1, <1>6, <1>7 DEF Tracking, F
<1>10. /\ r.data = d /\ r.at = "data" /\ r.length = n /\ r.type = report.type
  BY <1>4, <1>5, <1>8 DEF InFrame, Receivers, Tracking, p
<1>11. Complete(r)
  BY <1>3, <1>7, <1>10 DEF Complete
<1>12. Correct(r)
  <2>1. Len(d) - 1 = Len(p) /\ Len(d) > 0 /\ d[Len(d)] = b
    BY <1>3, <1>7
  <2>2. \A i \in 1 .. Len(p) : d[i] \in Int
    BY <1>7, ElementOfSeq
  <2>3. /\ SubSeq(d, 1, Len(p)) \in Seq(Int) /\ Len(SubSeq(d, 1, Len(p))) = Len(p)
        /\ \A i \in 1 .. Len(p) : SubSeq(d, 1, Len(p))[i] = d[i]
    <3>1. /\ SubSeq(d, 1, Len(p)) \in Seq(Int)
          /\ Len(SubSeq(d, 1, Len(p))) = IF 1 <= Len(p) THEN Len(p) - 1 + 1 ELSE 0
          /\ \A i \in 1 .. Len(p) - 1 + 1 : SubSeq(d, 1, Len(p))[i] = d[1 + i - 1]
      BY <1>3, <2>2, SubSeqProperties
    <3> QED BY <1>3, <1>4, <3>1
  <2>4. p \in Seq(Int)
    <3>1. p \in [1 .. Len(p) -> 0 .. Radix - 1]
      BY <1>3, LenProperties
    <3>2. p \in [1 .. Len(p) -> Int]
      BY <3>1, BoardAssumption DEF BoardAssumption
    <3> QED BY <1>3, <3>2, SeqDef
  <2>5. SubSeq(d, 1, Len(p)) = p
    BY <1>9, <2>3, <2>4, SeqEqual
  <2>6. b = Checksum(n, report.type, p)
    <3>1. Sent + 1 = n + 2
      BY <1>3, <1>4
    <3> QED BY <1>1, <1>2, <3>1
  <2> QED BY <1>10, <2>1, <2>5, <2>6 DEF Correct
<1>13. Whole(r, Tail(wire))
  <2>1. \A i \in 5 .. Len(F) : F[i] \in Int
    <3>1. \A i \in 5 .. Len(F) : i \in 1 .. Len(F)
      BY <1>1, <1>3
    <3> QED BY <1>1, <3>1, ElementOfSeq
  <2>2. Len(F) = Len(p) + 5
    BY <1>1, <1>3
  <2>3. /\ SubSeq(F, 5, Len(F)) \in Seq(Int)
        /\ Len(SubSeq(F, 5, Len(F))) = IF 5 <= Len(F) THEN Len(F) - 5 + 1 ELSE 0
        /\ \A i \in 1 .. Len(F) - 5 + 1 : SubSeq(F, 5, Len(F))[i] = F[5 + i - 1]
    <3>1. Len(F) \in Int
      BY <1>3, <2>2
    <3> QED BY <2>1, <3>1, SubSeqProperties
  <2>4. Len(SubSeq(F, 5, Len(F))) = Len(p) + 1
    BY <1>3, <2>2, <2>3
  <2>5. ASSUME NEW i \in 1 .. Len(p) + 1 PROVE d[i] = SubSeq(F, 5, Len(F))[i]
    <3>1. /\ i \in 1 .. Len(F) - 5 + 1 /\ 5 + i - 1 = 4 + i
          /\ i \in 1 .. Len(p) \/ (i = Len(p) + 1 /\ 4 + i = Sent + 1)
      BY <1>3, <1>4, <2>2
    <3>2. SubSeq(F, 5, Len(F))[i] = F[4 + i]
      BY <2>3, <3>1
    <3> QED BY <1>1, <1>2, <1>7, <1>9, <3>1, <3>2
  <2>6. d = SubSeq(F, 5, Len(F))
    BY <1>7, <2>3, <2>4, <2>5, SeqEqual
  <2> QED BY <1>2, <1>10, <2>6 DEF Whole, F
<1> QED BY <1>11, <1>12, <1>13 DEF r

LEMMA TrackingGoesOn ==
  ASSUME OnWire, InFrame(rx), Tracking, Sent + 1 # Len(Frame(report)),
         Follows(Tail(wire)), rx' = After(Head(wire)),
         overdue' <= 2 * Longest + Sent'
  PROVE  Tracking'
<1> DEFINE p == report.payload  F == Frame(report)  n == Len(p) + 3  b == Head(wire)
<1>1. /\ F \in Seq(Int) /\ Len(F) = n + 2 /\ Len(p) \in 1 .. MaxData - 1
      /\ F[1] = HEAD /\ F[2] = DEVICE /\ F[3] = n /\ F[4] = report.type
  BY FrameShape DEF OnWire
<1>2. Sent \in Nat /\ Sent < Len(F) /\ b = F[Sent + 1] /\ b \in Int
  BY FirstOnWire
<1>3. MaxData \in Nat /\ Len(p) \in Nat /\ n \in Int
  <2>1. MaxData \in Nat
    BY BoardAssumption DEF BoardAssumption
  <2>2. Len(p) \in Nat
    BY <1>1, <2>1
  <2> QED BY <2>1, <2>2
<1>4. Sent' = Sent + 1 /\ report' = report
  BY WireMovesOn
<1>5. /\ Got(rx) = Sent /\ rx \in Receivers /\ Len(rx.data) \in Nat /\ rx.data \in Seq(Int)
      /\ Sent >= 3 => rx.length = n
      /\ Sent >= 4 => rx.type = report.type
      /\ \A i \in 1 .. Len(rx.data) : rx.data[i] = F[4 + i]
  BY LenProperties DEF Tracking, InFrame, Receivers
<1> HIDE DEF b, F, p
<1>6. SUFFICES /\ Got(rx') = Sent + 1
               /\ Sent + 1 >= 3 => rx'.length = n
               /\ Sent + 1 >= 4 => rx'.type = report.type
               /\ \A i \in 1 .. Len(rx'.data) : rx'.data[i] = F[4 + i]
  BY <1>4 DEF Tracking, F, p
<1>7. CASE rx.at = "head"
  <2>1. Sent = 0 /\ rx.data = << >>
    BY <1>5, <1>7 DEF Got, InFrame
  <2>2. rx' = [rx EXCEPT !.at = "device"]
    <3>1. Received(b) = [rx EXCEPT !.at = "device"]
      BY <1>1, <1>2, <1>7, <2>1 DEF Received
    <3>2. Received(b).at = "device"
      BY <1>5, <3>1 DEF Receivers
    <3>3. rx' = Received(b)
      BY <3>2 DEF After, Complete, b
    <3> QED BY <3>1, <3>3
  <2>3. rx'.at = "device" /\ rx'.data = << >>
    BY <1>5, <2>1, <2>2 DEF Receivers
  <2> QED BY <2>1, <2>3 DEF Got
<1>8. CASE rx.at = "device"
  <2>1. Sent = 1 /\ rx.data = << >>
    BY <1>5, <1>8 DEF Got, InFrame
  <2>2. rx' = [rx EXCEPT !.at = "length"]
    <3>1. Received(b) = [rx EXCEPT !.at = "length"]
      BY <1>1, <1>2, <1>8, <2>1 DEF Received
    <3>2. Received(b).at = "length"
      BY <1>5, <3>1 DEF Receivers
    <3>3. rx' = Received(b)
      BY <3>2 DEF After, Complete, b
    <3> QED BY <3>1, <3>3
  <2>3. rx'.at = "length" /\ rx'.data = << >>
    BY <1>5, <2>1, <2>2 DEF Receivers
  <2> QED BY <2>1, <2>3 DEF Got
<1>9. CASE rx.at = "length"
  <2>1. Sent = 2 /\ rx.data = << >>
    BY <1>5, <1>9 DEF Got, InFrame
  <2>2. rx' = [rx EXCEPT !.at = "type", !.length = n]
    <3>1. b = n
      BY <1>1, <1>2, <2>1
    <3>2. Received(b) = [rx EXCEPT !.at = "type", !.length = b]
      BY <1>9 DEF Received
    <3>3. Received(b).at = "type"
      BY <1>5, <3>2 DEF Receivers
    <3>4. rx' = Received(b)
      BY <3>3 DEF After, Complete, b
    <3> QED BY <3>1, <3>2, <3>4
  <2>3. rx'.at = "type" /\ rx'.data = << >> /\ rx'.length = n
    BY <1>5, <2>1, <2>2 DEF Receivers
  <2> QED BY <2>1, <2>3 DEF Got
<1>10. CASE rx.at = "type"
  <2>1. Sent = 3 /\ rx.data = << >> /\ rx.length = n
    BY <1>5, <1>10 DEF Got, InFrame
  <2>2. DataLength(rx.length) /\ Len(<< >>) # n - 2
    <3> DEFINE k == Len(p)
    <3>1. k \in 1 .. MaxData - 1 /\ k \in Nat /\ rx.length = k + 3
      BY <1>1, <1>3, <2>1
    <3> HIDE DEF k
    <3>2. k + 3 >= 2 /\ (k + 3) - 2 <= MaxData /\ 0 # (k + 3) - 2
      BY ONLY <1>3, <3>1
    <3>3. Len(<< >>) = 0
      OBVIOUS
    <3> QED BY <3>1, <3>2, <3>3 DEF DataLength, k
  <2>3. rx' = [rx EXCEPT !.at = "data", !.type = report.type]
    <3>1. b = report.type
      BY <1>1, <1>2, <2>1
    <3>2. Received(b) = [rx EXCEPT !.at = "data", !.type = b]
      BY <1>10, <2>2 DEF Received
    <3>3. Received(b).data = << >> /\ Received(b).length = n
      BY <1>5, <2>1, <3>2 DEF Receivers
    <3>4. rx' = Received(b)
      BY <2>2, <3>3 DEF After, Complete, b
    <3> QED BY <3>1, <3>2, <3>4
  <2>4. rx'.at = "data" /\ rx'.data = << >> /\ rx'.length = n /\ rx'.type = report.type
    BY <1>5, <2>1, <2>3 DEF Receivers
  <2> QED BY <2>1, <2>4 DEF Got
<1>11. CASE rx.at = "data"
  <2> DEFINE d == Append(rx.data, b)
  <2>1. Sent = 4 + Len(rx.data) /\ rx.length = n /\ rx.type = report.type
    BY <1>5, <1>11 DEF Got
  <2>2. /\ d \in Seq(Int) /\ Len(d) = Len(rx.data) + 1 /\ d[Len(rx.data) + 1] = b
        /\ \A i \in 1 .. Len(rx.data) : d[i] = rx.data[i]
    BY <1>2, <1>5, AppendProperties
  <2> HIDE DEF d
  <2>3. Len(d) # n - 2
    <3>1. Len(d) = Sent - 3 /\ Sent + 1 # n + 2
      BY <1>1, <1>5, <2>1, <2>2 DEF F
    <3> QED BY <1>2, <1>3, <3>1
  <2>4. rx' = [rx EXCEPT !.data = d]
    BY <1>5, <1>11, <2>1, <2>3 DEF After, Received, Complete, b, d, Receivers
  <2>5. rx'.at = "data" /\ rx'.data = d /\ rx'.length = n /\ rx'.type = report.type
    BY <1>5, <1>11, <2>1, <2>4 DEF Receivers
  <2>6. Got(rx') = 4 + Len(d)
    BY <2>5 DEF Got
  <2>7. ASSUME NEW i \in 1 .. Len(d) PROVE d[i] = F[4 + i]
    <3>1. i \in 1 .. Len(rx.data) \/ (i = Len(rx.data) + 1 /\ 4 + i = Sent + 1)
      <4> DEFINE k == Len(rx.data)
      <4>1. k \in Nat /\ Sent = 4 + k /\ i \in 1 .. k + 1
        BY <1>5, <2>1, <2>2
      <4> HIDE DEF k
      <4>2. i \in 1 .. k \/ (i = k + 1 /\ 4 + i = Sent + 1)
        BY ONLY <4>1
      <4> QED BY <4>2 DEF k
    <3>2. CASE i \in 1 .. Len(rx.data)
      BY <1>5, <2>2, <3>2
    <3>3. CASE i = Len(rx.data) + 1 /\ 4 + i = Sent + 1
      BY <1>2, <2>2, <3>3
    <3> QED BY <3>1, <3>2, <3>3
  <2>8. Got(rx') = Sent + 1
    <3>1. Len(d) = Len(rx.data) + 1 /\ Len(rx.data) \in Nat /\ Sent = 4 + Len(rx.data)
      BY <1>5, <2>1, <2>2
    <3> QED BY ONLY <2>6, <3>1
  <2> QED BY <2>5, <2>7, <2>8
<1> QED BY <1>5, <1>7, <1>8, <1>9, <1>10, <1>11 DEF Receivers

LEMMA ByteStep ==
  ASSUME BoardInv, ByteArrives
  PROVE  BoardInv'
<1> DEFINE b == Head(wire)  F == Frame(report)
<1>1. /\ OnWire /\ InFrame(rx) /\ overdue \in Nat /\ Longest \in Nat /\ MaxData \in Nat
      /\ Longest = MaxData + 4
  BY BoardAssumption DEF BoardInv, BoardAssumption, Longest
<1>2. /\ Sent \in Nat /\ Sent < Len(F) /\ b = F[Sent + 1] /\ b \in Int
      /\ Len(F) \in Nat /\ Len(F) <= Longest /\ Len(F) >= 6
  <2>1. Sent \in Nat /\ Sent < Len(F) /\ b = F[Sent + 1] /\ b \in Int
    BY <1>1, FirstOnWire
  <2>2. Len(report.payload) \in 1 .. MaxData - 1 /\ Len(F) = Len(report.payload) + 3 + 2
    BY <1>1, FrameShape DEF OnWire
  <2> HIDE DEF b, F
  <2> QED BY <1>1, <2>1, <2>2
<1>3. rx' = After(b) /\ Counts(b, Tail(wire)) /\ Follows(Tail(wire))
  BY DEF ByteArrives, TakesByte, After, NoData
<1>4. /\ OnWire'
      /\ IF Sent + 1 = Len(F) THEN Sent' = 0 ELSE report' = report /\ Sent' = Sent + 1
  BY <1>1, <1>3, WireMovesOn
<1>5. /\ InFrame(After(b)) /\ Got(rx) \in Nat /\ Got(rx) < Longest
      /\ After(b).at = "head" \/ Got(After(b)) = Got(rx) + 1
  BY <1>1, <1>2, ReceivesByte
<1>6. overdue' \in Nat /\ overdue' <= overdue + 1
  BY <1>1, <1>3 DEF Counts
<1>7. InFrame(rx')
  BY <1>3, <1>5
<1>8. Sent' \in Nat
  BY <1>2, <1>4
<1> HIDE DEF b, F
\* What is over ends with the frame on its way, if not before.
<1>9. ASSUME rx'.at = "head", overdue' <= Longest + Sent + 1
      PROVE  Seeking' \/ Tracking'
  <2>1. CASE Sent + 1 = Len(F)
    <3>1. Got(rx') = 0 /\ Sent' = 0 /\ overdue' <= 2 * Longest + Sent'
      <4>1. Got(rx') = 0
        BY <1>9 DEF Got
      <4>2. Sent' = 0
        BY <1>4, <2>1
      <4>3. overdue' <= 2 * Longest
        BY <1>1, <1>2, <1>6, <1>9, <2>1
      <4>4. {Longest} \subseteq Nat
        BY <1>1
      <4> QED BY ONLY <4>1, <4>2, <4>3, <4>4
    <3>2. rx'.data = << >>
      BY <1>7, <1>9 DEF InFrame
    <3> QED BY <3>1, <3>2 DEF Tracking
  <2>2. CASE Sent + 1 # Len(F)
    BY <1>1, <1>2, <1>4, <1>6, <1>9, <2>2 DEF Seeking
  <2> QED BY <2>1, <2>2
<1>10. ASSUME Unmistakable PROVE FalseFrame' \/ Seeking' \/ Tracking'
  <2>1. CASE FalseFrame
    <3>1. CASE rx'.at = "head"
      BY <1>1, <1>2, <1>5, <1>6, <1>9, <2>1, <3>1 DEF FalseFrame
    <3>2. CASE rx'.at # "head"
      BY <1>1, <1>3, <1>5, <1>6, <2>1, <3>2 DEF FalseFrame
    <3> QED BY <3>1, <3>2
  <2>2. CASE Seeking
    <3>1. overdue' <= Longest + Sent + 1
      BY <1>1, <1>2, <1>6, <2>2 DEF Seeking
    <3>2. /\ F[Len(F)] # HEAD
          /\ \A i \in 2 .. Len(F) - 1 : ~(F[i] = HEAD /\ F[i + 1] = DEVICE)
      BY <1>1, <1>10 DEF Unmistakable, OnWire, F
    <3>3. CASE rx.at = "device"
      <4>1. Sent \in 2 .. Len(F) - 1 /\ F[Sent] = HEAD
        BY <1>2, <2>2, <3>3 DEF Seeking, F
      <4>2. b # DEVICE
        BY <1>2, <3>2, <4>1
      <4>3. rx' = Waiting
        BY <1>3, <3>3, <4>2 DEF After, Received, Complete, Waiting
      <4> QED BY <1>9, <3>1, <4>3 DEF Waiting
    <3>4. CASE rx.at = "head"
      <4>1. CASE b # HEAD
        <5>1. rx' = rx
          BY <1>3, <3>4, <4>1 DEF After, Received, Complete
        <5> QED BY <1>9, <3>1, <3>4, <5>1
      <4>2. CASE b = HEAD
        <5>1. Sent + 1 # Len(F)
          BY <1>2, <3>2, <4>2
        <5>2. rx' = [rx EXCEPT !.at = "device"]
          BY <1>1, <1>3, <3>4, <4>2 DEF After, Received, Complete, InFrame, Receivers
        <5>3. rx'.at = "device"
          BY <1>1, <5>2 DEF InFrame, Receivers
        <5>4. Sent' = Sent + 1 /\ report' = report /\ Sent >= 1
          BY <1>4, <2>2, <5>1 DEF Seeking
        <5>5. Frame(report')[Sent'] = HEAD
          BY <1>2, <4>2, <5>4 DEF F
        <5> QED BY <1>1, <1>2, <1>6, <3>1, <5>3, <5>4, <5>5 DEF Seeking
      <4> QED BY <4>1, <4>2
    <3> QED BY <2>2, <3>3, <3>4 DEF Seeking
  <2>3. CASE Tracking
    <3>1. CASE Sent + 1 = Len(F)
      <4>1. /\ Complete(Received(b)) /\ Correct(Received(b)) /\ Whole(Received(b), Tail(wire))
        BY <1>1, <2>3, <3>1, WholeFrameCounts DEF b, F
      <4>2. overdue' = 0 /\ rx' = Waiting
        BY <1>3, <4>1 DEF Counts, After
      <4> QED BY <4>2 DEF FalseFrame, Got, Waiting
    <3>2. CASE Sent + 1 # Len(F)
      <4>1. overdue' <= 2 * Longest + Sent'
        BY <1>1, <1>2, <1>4, <1>6, <2>3, <3>2 DEF Tracking
      <4> QED BY <1>1, <1>3, <2>3, <3>2, <4>1, TrackingGoesOn DEF b, F
    <3> QED BY <3>1, <3>2
  <2> QED BY <1>10, <2>1, <2>2, <2>3 DEF BoardInv
<1> QED BY <1>4, <1>6, <1>7, <1>10 DEF BoardInv

LEMMA WaitingIsInFrame == InFrame(Waiting) /\ Got(Waiting) = 0
BY EmptySeq DEF InFrame, Waiting, Receivers, Got

(* After whatever happened on the line, a frame gets through before the    *)
(* bytes of the longest false frame and of two real ones have passed: for  *)
(* any radix, reports and number of faults (receive_loop).                 *)
THEOREM AlwaysResyncsInTime == BoardSpec => []ResyncsInTime
<1>1. BoardInit => BoardInv
  <2> SUFFICES ASSUME BoardInit PROVE BoardInv
    OBVIOUS
  <2>1. report \in Reports /\ wire = Frame(report) /\ rx = Waiting /\ overdue = 0
    BY DEF BoardInit
  <2>2. Frame(report) \in Seq(Int) /\ Len(Frame(report)) \in Nat /\ Len(Frame(report)) >= 1
    BY <2>1, FrameShape, LenProperties
  <2>3. Sent = 0
    BY <2>1, <2>2 DEF Sent
  <2>4. OnWire
    <3>1. \A i \in 1 .. Len(wire) : wire[i] = Frame(report)[0 + i]
      BY <2>1, <2>2
    <3> QED BY <2>1, <2>2, <2>3, <3>1 DEF OnWire
  <2> QED BY <2>1, <2>4, WaitingIsInFrame DEF BoardInv, FalseFrame
<1>2. BoardInv /\ [BoardNext]_boardVars => BoardInv'
  <2> SUFFICES ASSUME BoardInv, [BoardNext]_boardVars PROVE BoardInv'
    OBVIOUS
  <2>1. ASSUME OnWire', InFrame(rx'), overdue' = 0 PROVE BoardInv'
    <3>1. Got(rx') \in Nat
      BY <2>1, GotIsNatural
    <3> QED BY <2>1, <3>1 DEF BoardInv, FalseFrame
  <2>2. CASE ByteArrives
    BY <2>2, ByteStep
  <2>3. CASE NoiseArrives
    <3>1. PICK b \in 0 .. Radix - 1 : TakesByte(b)
      BY <2>3 DEF NoiseArrives
    <3>2. rx' = After(b) /\ overdue' = 0 /\ UNCHANGED <<report, wire>>
      BY <2>3, <3>1 DEF NoiseArrives, TakesByte, After, NoData
    <3>3. InFrame(After(b)) /\ OnWire
      BY ReceivesByte, BoardAssumption DEF BoardInv, BoardAssumption
    <3>4. OnWire'
      BY <3>2, <3>3 DEF OnWire, Sent
    <3> QED BY <2>1, <3>2, <3>3, <3>4
  <2>4. CASE ByteIsLost
    <3>1. Follows(Tail(wire)) /\ rx' = rx /\ overdue' = 0 /\ OnWire /\ InFrame(rx)
      BY <2>4 DEF ByteIsLost, BoardInv
    <3>2. OnWire'
      BY <3>1, WireMovesOn
    <3> QED BY <2>1, <3>1, <3>2
  <2>5. CASE ReadFails \/ BoardRespawns
    <3>1. rx' = Waiting /\ overdue' = 0 /\ UNCHANGED <<report, wire>> /\ OnWire
      BY <2>5 DEF ReadFails, BoardRespawns, BoardInv
    <3>2. OnWire'
      BY <3>1 DEF OnWire, Sent
    <3> QED BY <2>1, <3>1, <3>2, WaitingIsInFrame
  <2>6. CASE UNCHANGED boardVars
    BY <2>6 DEF boardVars, BoardInv, OnWire, Sent, FalseFrame, Seeking, Tracking
  <2> QED BY <2>2, <2>3, <2>4, <2>5, <2>6 DEF BoardNext
<1>3. BoardInv => ResyncsInTime
  <2> SUFFICES ASSUME BoardInv, Unmistakable PROVE overdue <= 3 * Longest
    BY DEF ResyncsInTime
  <2>1. /\ OnWire /\ InFrame(rx) /\ overdue \in Nat /\ MaxData \in Nat /\ Longest = MaxData + 4
        /\ FalseFrame \/ Seeking \/ Tracking
    BY BoardAssumption DEF BoardInv, BoardAssumption, Longest
  <2>2. Got(rx) \in Nat /\ Got(rx) < Longest
    BY <2>1, ReceivesByte
  <2>3. Sent \in Nat /\ Sent < Longest
    <3>1. Sent \in Nat /\ Sent < Len(Frame(report))
      BY <2>1, FirstOnWire
    <3>2. /\ Len(report.payload) \in 1 .. MaxData - 1
          /\ Len(Frame(report)) = Len(report.payload) + 3 + 2
      BY <2>1, FrameShape DEF OnWire
    <3> QED BY <2>1, <3>1, <3>2
  <2> QED BY <2>1, <2>2, <2>3 DEF FalseFrame, Seeking, Tracking
<1> QED BY <1>1, <1>2, <1>3, PTL DEF BoardSpec

-----------------------------------------------------------------------------
\* The controller mapping

\* What a process that starts takes from the file.
Understood ==
  IF LoadedUnits = "degrees" \/ LoadedLimits.steering >= Telling THEN LoadedLimits
  ELSE InDegrees(LoadedLimits)

MappingInv ==
  /\ units = "degrees"
  /\ ~teleop => saving = "no"
  /\ saving = "closed" => tmpFile \in {Payload, TornFile}
  /\ ~cutShort => Understood = keptLimits

(* However often the process dies, the next one drives with the limits     *)
(* that were saved last or that the old file meant, for any limits and     *)
(* units (save_mapping_to_file, migrate_legacy_radians).                   *)
THEOREM RestartAlwaysKeepsMapping == MappingSpec => RestartKeepsMapping
<1> USE JoyMappingAssumption
<1>1. MappingInit => MappingInv
  <2> SUFFICES ASSUME MappingInit PROVE MappingInv
    OBVIOUS
  <2>1. CASE mapFile.is = "whole"
    <3>1. PICK m \in Both(OldLimits) \cup {l \in Both(Limits) : l.steering >= Telling} :
            mapFile = MappingFile("whole", "missing", m)
      BY <2>1 DEF MappingInit, OldFiles, NoFile, TornFile, MappingFile
    <3>2. mapFile.is = "whole" /\ mapFile.units = "missing" /\ mapFile.limits = m
      BY <3>1 DEF MappingFile
    <3> QED BY <3>2 DEF MappingInit, MappingInv, Understood, LoadedUnits, LoadedLimits
  <2>2. CASE mapFile.is # "whole"
    <3>1. mapFile.limits = DefaultLimits /\ DefaultLimits.steering >= Telling
      BY <2>2 DEF MappingInit, OldFiles, NoFile, TornFile, MappingFile, DefaultLimits,
                  JoyMappingAssumption
    <3> QED BY <2>2, <3>1 DEF MappingInit, MappingInv, Understood, LoadedLimits
  <2> QED BY <2>1, <2>2
<1>2. MappingInv /\ [MappingNext]_mappingVars => MappingInv'
  <2> SUFFICES ASSUME MappingInv, [MappingNext]_mappingVars PROVE MappingInv'
    OBVIOUS
  <2> USE DEF MappingInv, Understood, LoadedUnits, LoadedLimits, Payload
  <2>1. CASE TeleopStarts
    BY <2>1 DEF TeleopStarts
  <2>2. CASE SetLimits
    BY <2>2 DEF SetLimits
  <2>3. CASE SaveGivesUp
    BY <2>3 DEF SaveGivesUp
  <2>4. CASE MappingCloses(Payload)
    BY <2>4 DEF MappingCloses
  <2>5. CASE MappingIsRenamed
    <3>1. /\ mapFile' = tmpFile /\ keptLimits' = limits /\ limits' = limits
          /\ cutShort' = (tmpFile.is = "torn") /\ saving' = "no" /\ units' = "degrees"
          /\ tmpFile \in {MappingFile("whole", "degrees", limits), TornFile}
      BY <2>5 DEF MappingIsRenamed
    <3>2. CASE tmpFile = MappingFile("whole", "degrees", limits)
      <4>1. mapFile' = MappingFile("whole", "degrees", limits)
        BY <3>1, <3>2
      <4>2. mapFile'.is = "whole" /\ mapFile'.units = "degrees" /\ mapFile'.limits = limits
        BY <4>1 DEF MappingFile
      <4> QED BY <3>1, <4>2
    <3>3. CASE tmpFile = TornFile
      <4>1. cutShort' = TRUE
        BY <3>1, <3>3 DEF TornFile, MappingFile
      <4> QED BY <3>1, <4>1
    <3> QED BY <3>1, <3>2, <3>3
  <2>6. CASE WebRemovesMapping
    BY <2>6 DEF WebRemovesMapping, NoFile, MappingFile, DefaultLimits
  <2>7. CASE TeleopDies
    BY <2>7 DEF TeleopDies
  <2>8. CASE UNCHANGED mappingVars
    BY <2>8 DEF mappingVars
  <2> QED BY <2>1, <2>2, <2>3, <2>4, <2>5, <2>6, <2>7, <2>8 DEF MappingNext
<1>3. MappingInv /\ [MappingNext]_mappingVars
        => [~teleop /\ teleop' /\ ~cutShort => limits' = keptLimits]_mappingVars
  <2> SUFFICES ASSUME MappingInv, MappingNext, ~teleop, teleop', ~cutShort
               PROVE  limits' = keptLimits
    OBVIOUS
  <2>1. TeleopStarts
    BY DEF MappingNext, SetLimits, SaveGivesUp, MappingCloses, MappingIsRenamed,
           WebRemovesMapping, TeleopDies
  <2> QED BY <2>1 DEF TeleopStarts, MappingInv, Understood
<1> QED BY <1>1, <1>2, <1>3, PTL DEF MappingSpec, RestartKeepsMapping

-----------------------------------------------------------------------------
\* The calibration

LEMMA DivBounds ==
  ASSUME NEW d \in Int, NEW c \in Nat \ {0}
  PROVE  /\ d \div c \in Int
         /\ (d \div c) * c <= d /\ d < (d \div c) * c + c
OBVIOUS

LEMMA Cancel ==
  ASSUME NEW a \in Int, NEW b \in Int, NEW c \in Nat \ {0}, a * c < b * c
  PROVE  a < b
<1>1. ~(a >= b)
  <2> SUFFICES ASSUME a >= b PROVE a * c >= b * c
    OBVIOUS
  <2> QED OBVIOUS
<1> QED BY <1>1

(* What the two decimals keep: half a grain at most is lost, and no        *)
(* multiple of a grain is crossed.                                         *)
LEMMA RoundedIsNear ==
  ASSUME Grain \in Nat \ {0}, NEW v \in Int
  PROVE  /\ \E k \in Int : Rounded(v) = k * Grain
         /\ Rounded(v) \in Int
         /\ 2 * (Rounded(v) - v) \in -Grain .. Grain
         /\ \A k \in Int : /\ v <= k * Grain => Rounded(v) <= k * Grain
                           /\ v >= k * Grain => Rounded(v) >= k * Grain
<1> DEFINE h == Grain \div 2
           q == (v + h) \div Grain
           p == q * Grain
<1>1. h \in Nat /\ 2 * h <= Grain /\ Grain <= 2 * h + 1 /\ h < Grain
  OBVIOUS
<1>2. v + h \in Int
  BY <1>1
<1>3. q \in Int /\ q * Grain <= v + h /\ v + h < q * Grain + Grain
  <2> HIDE DEF h
  <2> QED BY <1>2, DivBounds
<1>4. Rounded(v) = q * Grain
  <2>1. Rounded(v) = Grain * q
    BY DEF Rounded
  <2> HIDE DEF q
  <2> QED BY <2>1, <1>3
<1> HIDE DEF h, q
<1>5. q * Grain \in Int
  BY <1>3
<1>6. 2 * (q * Grain - v) \in -Grain .. Grain
  <2>1. p \in Int /\ p <= v + h /\ v + h < p + Grain
    BY <1>3, <1>5
  <2> HIDE DEF p
  <2>2. 2 * (p - v) \in -Grain .. Grain
    BY <1>1, <2>1
  <2> QED BY <2>2 DEF p
<1>7. ASSUME NEW k \in Int PROVE /\ v <= k * Grain => q * Grain <= k * Grain
                                 /\ v >= k * Grain => q * Grain >= k * Grain
  <2>0. k * Grain \in Int /\ (k + 1) * Grain = k * Grain + Grain
        /\ (q + 1) * Grain = q * Grain + Grain /\ k + 1 \in Int /\ q + 1 \in Int
    BY <1>3
  <2>1. ASSUME v <= k * Grain PROVE q * Grain <= k * Grain
    <3>1. q * Grain < (k + 1) * Grain
      BY <1>1, <1>3, <1>5, <2>0, <2>1
    <3>2. q < k + 1
      BY <1>3, <2>0, <3>1, Cancel
    <3>3. q <= k
      BY <1>3, <3>2
    <3> QED BY <1>3, <3>3
  <2>2. ASSUME v >= k * Grain PROVE q * Grain >= k * Grain
    <3>1. k * Grain < (q + 1) * Grain
      BY <1>1, <1>3, <1>5, <2>0, <2>2
    <3>2. k < q + 1
      BY <1>3, <2>0, <3>1, Cancel
    <3>3. k <= q
      BY <1>3, <3>2
    <3> QED BY <1>3, <3>3
  <2> QED BY <2>1, <2>2
<1> QED BY <1>3, <1>4, <1>5, <1>6, <1>7

-----------------------------------------------------------------------------
Grains == {v \in Int : \E k \in Int : v = k * Grain}
FineCenters == {v \in Grains : -(MaxCenter + Grain) <= v /\ v <= MaxCenter + Grain}
FineGains == {v \in Grains : MinGain <= v /\ v <= MaxGain}

\* The values there can be, and those that a file holds exactly.
Values == [center : [Channels -> -MaxCenter .. MaxCenter \cup FineCenters],
           reverse : BOOLEAN, gain : MinGain .. MaxGain]
FineValues == [center : [Channels -> FineCenters], reverse : BOOLEAN, gain : FineGains]
SavedValues == [center : [Channels -> -MaxCenter .. MaxCenter \cup FineCenters],
                reverse : BOOLEAN, gain : MinGain .. MaxGain, saved : BOOLEAN]

LEMMA GrainsAreKept ==
  ASSUME CalibrationAssumption, NEW v \in Grains
  PROVE  Rounded(v) = v
<1>1. PICK k \in Int : v = k * Grain
  BY DEF Grains
<1>2. v \in Int /\ Grain \in Nat \ {0}
  BY DEF Grains, CalibrationAssumption
<1>3. /\ Rounded(v) \in Int
      /\ v <= k * Grain => Rounded(v) <= k * Grain
      /\ v >= k * Grain => Rounded(v) >= k * Grain
  BY <1>2, RoundedIsNear
<1> QED BY <1>1, <1>2, <1>3

LEMMA MultipleIsGrain ==
  ASSUME NEW v \in Nat, NEW g \in Nat \ {0}, v % g = 0
  PROVE  v = (v \div g) * g /\ v \div g \in Int
OBVIOUS

LEMMA CenterIsRounded ==
  ASSUME CalibrationAssumption, NEW v \in -MaxCenter .. MaxCenter \cup FineCenters
  PROVE  /\ Rounded(v) \in FineCenters
         /\ Bounded(Rounded(v), -LoadCenter, LoadCenter) = Rounded(v)
         /\ 2 * (Rounded(v) - v) \in -Grain .. Grain
<1>1. /\ v \in Int /\ Grain \in Nat \ {0} /\ MaxCenter \in Nat /\ LoadCenter \in Nat
      /\ MaxCenter + Grain <= LoadCenter
  BY DEF CalibrationAssumption, FineCenters, Grains
<1>2. /\ \E k \in Int : Rounded(v) = k * Grain
      /\ Rounded(v) \in Int /\ 2 * (Rounded(v) - v) \in -Grain .. Grain
  BY <1>1, RoundedIsNear
<1>3. Rounded(v) \in Grains
  BY <1>2 DEF Grains
<1>4. -(MaxCenter + Grain) <= Rounded(v) /\ Rounded(v) <= MaxCenter + Grain
  <2>1. CASE v \in -MaxCenter .. MaxCenter
    BY <1>1, <1>2, <2>1
  <2>2. CASE v \in FineCenters
    BY <2>2, GrainsAreKept DEF FineCenters
  <2> QED BY <2>1, <2>2
<1>5. -LoadCenter <= Rounded(v) /\ Rounded(v) <= LoadCenter
  BY <1>1, <1>2, <1>4
<1> QED BY <1>1, <1>2, <1>3, <1>4, <1>5 DEF FineCenters, Bounded

LEMMA GainIsRounded ==
  ASSUME CalibrationAssumption, NEW v \in MinGain .. MaxGain
  PROVE  /\ Rounded(v) \in FineGains /\ Rounded(v) \in MinGain .. MaxGain
         /\ Bounded(Rounded(v), MinGain, MaxGain) = Rounded(v)
         /\ 2 * (Rounded(v) - v) \in -Grain .. Grain
<1>1. /\ v \in Int /\ Grain \in Nat \ {0} /\ MinGain \in Nat /\ MaxGain \in Nat
      /\ MinGain % Grain = 0 /\ MaxGain % Grain = 0
  BY DEF CalibrationAssumption
<1>2. /\ \E k \in Int : Rounded(v) = k * Grain
      /\ Rounded(v) \in Int /\ 2 * (Rounded(v) - v) \in -Grain .. Grain
      /\ \A k \in Int : /\ v <= k * Grain => Rounded(v) <= k * Grain
                        /\ v >= k * Grain => Rounded(v) >= k * Grain
  BY <1>1, RoundedIsNear
<1>3. /\ MinGain = (MinGain \div Grain) * Grain /\ MinGain \div Grain \in Int
      /\ MaxGain = (MaxGain \div Grain) * Grain /\ MaxGain \div Grain \in Int
  BY <1>1, MultipleIsGrain
<1>4. Rounded(v) >= MinGain
  <2>1. v >= (MinGain \div Grain) * Grain
    BY <1>1, <1>3
  <2>2. Rounded(v) >= (MinGain \div Grain) * Grain
    BY <1>2, <1>3, <2>1
  <2> QED BY <1>3, <2>2
<1>5. Rounded(v) <= MaxGain
  <2>1. v <= (MaxGain \div Grain) * Grain
    BY <1>1, <1>3
  <2>2. Rounded(v) <= (MaxGain \div Grain) * Grain
    BY <1>2, <1>3, <2>1
  <2> QED BY <1>3, <2>2
<1>6. Rounded(v) \in FineGains
  BY <1>2, <1>4, <1>5 DEF FineGains, Grains
<1> DEFINE r == Rounded(v)
<1>7. r \in Int /\ MinGain <= r /\ r <= MaxGain
  BY <1>2, <1>4, <1>5
<1> HIDE DEF r
<1>8. r \in MinGain .. MaxGain /\ Bounded(r, MinGain, MaxGain) = r
  BY <1>1, <1>7 DEF Bounded
<1> QED BY <1>2, <1>6, <1>8 DEF r

(* The values that a file holds are those it was given, but for what two   *)
(* decimals lose, and they are read back as they are.                      *)
LEMMA FileHolds ==
  ASSUME CalibrationAssumption, NEW c \in Values
  PROVE  /\ Written(c) \in FineValues
         /\ ValuesOf(Loaded(Written(c))) = Written(c)
         /\ \A ch \in Channels :
              2 * (Loaded(Written(c)).center[ch] - c.center[ch]) \in -Grain .. Grain
         /\ Loaded(Written(c)).reverse = c.reverse
         /\ 2 * (Loaded(Written(c)).gain - c.gain) \in -Grain .. Grain
<1> DEFINE w == Written(c)
<1>1. /\ w.center = [ch \in Channels |-> Rounded(c.center[ch])]
      /\ w.reverse = c.reverse /\ w.gain = Rounded(c.gain)
      /\ w = [center |-> w.center, reverse |-> w.reverse, gain |-> w.gain]
  BY DEF Written
<1>0. /\ c.center \in [Channels -> -MaxCenter .. MaxCenter \cup FineCenters]
      /\ c.reverse \in BOOLEAN /\ c.gain \in MinGain .. MaxGain
  BY DEF Values
<1>2. ASSUME NEW ch \in Channels
      PROVE  /\ w.center[ch] = Rounded(c.center[ch]) /\ w.center[ch] \in FineCenters
             /\ Bounded(w.center[ch], -LoadCenter, LoadCenter) = w.center[ch]
             /\ 2 * (w.center[ch] - c.center[ch]) \in -Grain .. Grain
  BY <1>0, <1>1, <1>2, CenterIsRounded
<1>3. /\ w.gain \in FineGains /\ Bounded(w.gain, MinGain, MaxGain) = w.gain
      /\ 2 * (w.gain - c.gain) \in -Grain .. Grain
  BY <1>0, <1>1, GainIsRounded
<1> DEFINE l == Loaded(w)
<1>4. /\ l.center = [ch \in Channels |-> Bounded(w.center[ch], -LoadCenter, LoadCenter)]
      /\ l.reverse = w.reverse /\ l.gain = Bounded(w.gain, MinGain, MaxGain)
  BY DEF Loaded
<1> HIDE DEF w, l
<1>5. l.center = w.center /\ l.gain = w.gain
  BY <1>1, <1>2, <1>3, <1>4
<1>6. w.center \in [Channels -> FineCenters]
  BY <1>1, <1>2
<1>7. w \in FineValues
  BY <1>0, <1>1, <1>3, <1>6 DEF FineValues
<1>8. ValuesOf(l) = w
  BY <1>1, <1>4, <1>5 DEF ValuesOf
<1> QED BY <1>1, <1>2, <1>3, <1>4, <1>5, <1>7, <1>8 DEF w, l

LEMMA FineIsValue ==
  ASSUME CalibrationAssumption, NEW c \in FineValues
  PROVE  c \in Values /\ Written(c) = c
<1>1. /\ c.center \in [Channels -> FineCenters] /\ c.reverse \in BOOLEAN /\ c.gain \in FineGains
      /\ c = [center |-> c.center, reverse |-> c.reverse, gain |-> c.gain]
  BY DEF FineValues
<1>2. c.gain \in MinGain .. MaxGain
  BY <1>1 DEF FineGains, Grains, CalibrationAssumption
<1>3. c \in Values
  BY <1>1, <1>2 DEF Values
<1>4. \A v \in FineCenters \cup FineGains : Rounded(v) = v
  BY GrainsAreKept DEF FineCenters, FineGains
<1>5. [ch \in Channels |-> Rounded(c.center[ch])] = c.center
  BY <1>1, <1>4
<1>6. Rounded(c.gain) = c.gain
  BY <1>1, <1>4
<1> QED BY <1>1, <1>3, <1>5, <1>6 DEF Written

LEMMA DefaultsAreFine ==
  ASSUME CalibrationAssumption
  PROVE  Defaults \in FineValues
<1>1. /\ UnitGain \in Nat /\ Grain \in Nat \ {0} /\ UnitGain % Grain = 0
      /\ MinGain <= UnitGain /\ UnitGain <= MaxGain /\ MaxCenter \in Nat
  BY DEF CalibrationAssumption
<1>2. UnitGain \in FineGains
  <2>1. UnitGain = (UnitGain \div Grain) * Grain /\ UnitGain \div Grain \in Int
    BY <1>1, MultipleIsGrain
  <2> DEFINE k == UnitGain \div Grain
  <2>2. k \in Int /\ UnitGain = k * Grain
    BY <2>1
  <2> HIDE DEF k
  <2>3. UnitGain \in Grains
    BY <1>1, <2>2 DEF Grains
  <2> QED BY <1>1, <2>3 DEF FineGains
<1>3. 0 = 0 * Grain
  BY <1>1
<1>4. 0 \in FineCenters
  BY <1>1, <1>3 DEF FineCenters, Grains
<1> QED BY <1>2, <1>4 DEF Defaults, FineValues

-----------------------------------------------------------------------------
CalibrationTypes ==
  /\ cal \in SavedValues /\ told \in SavedValues /\ kept \in Values
  /\ running \in BOOLEAN /\ hurt \in BOOLEAN /\ save \in {"idle", "open", "close"}

\* The file is none, empty, or what was kept of it; who was told that it is saved was
\* told values that the file holds exactly.
CalibrationInv ==
  /\ \/ calFile = File("none", Defaults) /\ kept = Defaults /\ ~cal.saved /\ ~told.saved
     \/ calFile = File("empty", Defaults) /\ (hurt \/ save = "close")
     \/ calFile = File("written", Written(kept))
  /\ save = "close" => calFile = File("empty", Defaults)
  /\ ~running => save = "idle"
  /\ told.saved => ValuesOf(told) = ValuesOf(cal) /\ ValuesOf(cal) \in FineValues
  /\ told.saved /\ ~hurt /\ save # "close" => calFile = File("written", ValuesOf(told))

LEMMA ValuesAreValues ==
  ASSUME NEW c \in SavedValues
  PROVE  /\ ValuesOf(c) \in Values /\ Written(ValuesOf(c)) = Written(c)
         /\ [c EXCEPT !.saved = TRUE] \in SavedValues
         /\ [c EXCEPT !.saved = FALSE] \in SavedValues
         /\ \A b : ValuesOf([c EXCEPT !.saved = b]) = ValuesOf(c)
         /\ \A b : [c EXCEPT !.saved = b].saved = b
BY DEF SavedValues, Values, ValuesOf, Written

LEMMA LoadedIsFine ==
  ASSUME CalibrationAssumption, NEW c \in FineValues
  PROVE  /\ Loaded(c) \in SavedValues /\ Loaded(c).saved = TRUE
         /\ ValuesOf(Loaded(c)) = c
<1>1. c \in Values /\ Written(c) = c
  BY FineIsValue
<1>2. ValuesOf(Loaded(c)) = c
  BY <1>1, FileHolds
<1>3. Loaded(c).saved = TRUE
  BY DEF Loaded
<1>4. Loaded(c) = [center |-> Loaded(c).center, reverse |-> Loaded(c).reverse,
                   gain |-> Loaded(c).gain, saved |-> TRUE]
  BY DEF Loaded
<1>5. /\ Loaded(c).center = c.center /\ Loaded(c).reverse = c.reverse
      /\ Loaded(c).gain = c.gain
  BY <1>2 DEF ValuesOf
<1> QED BY <1>1, <1>2, <1>3, <1>4, <1>5 DEF Values, SavedValues

\* What a file that is read gives.
LEMMA ReadBackIsFine ==
  ASSUME CalibrationAssumption, CalibrationTypes, CalibrationInv, NEW saved \in BOOLEAN
  PROVE  /\ ReadBack(saved) \in SavedValues
         /\ ValuesOf(ReadBack(saved)) \in FineValues
         /\ ValuesOf(ReadBack(saved)) = calFile.values
         /\ ReadBack(saved).saved = IF calFile.is = "none" THEN saved ELSE TRUE
<1>1. calFile.values \in FineValues
  BY FileHolds, DefaultsAreFine DEF CalibrationInv, CalibrationTypes, File
<1>2. CASE calFile.is = "none"
  <2>1. calFile.values = Defaults
    BY <1>2 DEF CalibrationInv, File
  <2>2. ReadBack(saved) = [Loaded(Defaults) EXCEPT !.saved = saved]
    BY <1>2 DEF ReadBack
  <2>3. Loaded(Defaults) \in SavedValues /\ ValuesOf(Loaded(Defaults)) = Defaults
    BY DefaultsAreFine, LoadedIsFine
  <2> DEFINE l == Loaded(Defaults)
             r == [l EXCEPT !.saved = saved]
  <2>4. l \in SavedValues
    BY <2>3
  <2> HIDE DEF l
  <2>5. r \in SavedValues /\ r.saved = saved
    BY <2>4 DEF SavedValues
  <2>6. ValuesOf(r) = ValuesOf(l)
    BY <2>4, ValuesAreValues
  <2>7. ReadBack(saved) = r /\ ValuesOf(l) = Defaults
    BY <2>2, <2>3 DEF l
  <2> HIDE DEF r
  <2> QED BY <1>1, <1>2, <2>1, <2>5, <2>6, <2>7
<1>3. CASE calFile.is # "none"
  <2>1. ReadBack(saved) = Loaded(calFile.values)
    BY <1>3 DEF ReadBack
  <2> QED BY <1>1, <1>3, <2>1, LoadedIsFine
<1> QED BY <1>2, <1>3

LEMMA CalibrationInitially ==
  ASSUME CalibrationAssumption, CalibrationInit
  PROVE  CalibrationTypes /\ CalibrationInv
<1>1. /\ Loaded(Defaults) \in SavedValues /\ Defaults \in Values
      /\ ValuesOf(Loaded(Defaults)) = Defaults
  BY DefaultsAreFine, LoadedIsFine, FineIsValue
<1>2. cal = [Loaded(Defaults) EXCEPT !.saved = FALSE] /\ told = cal
  BY DEF CalibrationInit, ReadBack, File
<1>3. cal \in SavedValues /\ cal.saved = FALSE
  BY <1>1, <1>2, ValuesAreValues
<1> QED BY <1>1, <1>2, <1>3 DEF CalibrationInit, CalibrationTypes, CalibrationInv

\* A request that changes the values.
LEMMA AdjustKeepsSound ==
  ASSUME CalibrationAssumption, CalibrationTypes, CalibrationInv,
         NEW c \in SavedValues, Adjust(c)
  PROVE  CalibrationTypes' /\ CalibrationInv'
<1>1. /\ cal' = [c EXCEPT !.saved = FALSE] /\ told' = cal' /\ save' = "open"
      /\ UNCHANGED <<running, calFile, kept, hurt>> /\ running /\ save = "idle"
  BY DEF Adjust, Adopt, NoCall
<1>2. cal' \in SavedValues /\ cal'.saved = FALSE
  BY <1>1, ValuesAreValues
<1> QED BY <1>1, <1>2 DEF CalibrationTypes, CalibrationInv

LEMMA CalibrationStep ==
  ASSUME CalibrationAssumption, CalibrationTypes, CalibrationInv,
         [CalibrationNext]_calibrationVars
  PROVE  CalibrationTypes' /\ CalibrationInv'
<1>0. cal \in SavedValues
  BY DEF CalibrationTypes
<1>1. CASE SetReverse
  <2>1. PICK b \in BOOLEAN : Adjust([cal EXCEPT !.reverse = b])
    BY <1>1 DEF SetReverse
  <2>2. [cal EXCEPT !.reverse = b] \in SavedValues
    BY <1>0 DEF SavedValues
  <2> QED BY <2>1, <2>2, AdjustKeepsSound
<1>2. CASE SetGain
  <2>1. PICK g \in Gains : g >= MinGain /\ g <= MaxGain /\ Adjust([cal EXCEPT !.gain = g])
    BY <1>2 DEF SetGain
  <2>2. g \in MinGain .. MaxGain
    BY <2>1 DEF CalibrationAssumption
  <2>3. [cal EXCEPT !.gain = g] \in SavedValues
    BY <1>0, <2>2 DEF SavedValues
  <2> QED BY <2>1, <2>3, AdjustKeepsSound
<1>3. CASE SetCenter
  <2>1. PICK ch \in Channels, v \in Centers :
          v >= -MaxCenter /\ v <= MaxCenter /\ Adjust([cal EXCEPT !.center[ch] = v])
    BY <1>3 DEF SetCenter
  <2>2. v \in -MaxCenter .. MaxCenter
    BY <2>1 DEF CalibrationAssumption
  <2>3. [cal EXCEPT !.center[ch] = v] \in SavedValues
    BY <1>0, <2>2 DEF SavedValues
  <2> QED BY <2>1, <2>3, AdjustKeepsSound
<1>4. CASE Reload
  <2>1. /\ cal' = ReadBack(cal.saved) /\ told' = cal' /\ save' = "open"
        /\ UNCHANGED <<running, calFile, kept, hurt>> /\ running /\ save = "idle"
    BY <1>4 DEF Reload, Adopt, NoCall
  <2>2. /\ cal' \in SavedValues /\ ValuesOf(cal') \in FineValues
        /\ ValuesOf(cal') = calFile.values
        /\ cal'.saved = IF calFile.is = "none" THEN cal.saved ELSE TRUE
    BY <1>0, <2>1, ReadBackIsFine DEF SavedValues
  <2>3. calFile.is = "none" => ~cal.saved /\ calFile = File("none", Defaults)
    BY DEF CalibrationInv, File
  <2>4. ~hurt /\ calFile.is # "none" => calFile = File("written", calFile.values)
    BY <2>1 DEF CalibrationInv, File
  <2>5. CalibrationTypes'
    BY <2>1, <2>2 DEF CalibrationTypes
  <2>6. CASE calFile.is = "none"
    <3>1. cal'.saved = FALSE /\ told'.saved = FALSE /\ kept = Defaults
      BY <2>1, <2>2, <2>3, <2>6 DEF CalibrationInv, File
    <3> QED BY <2>1, <2>3, <2>5, <2>6, <3>1 DEF CalibrationInv
  <2>7. CASE calFile.is # "none"
    <3>1. calFile # File("none", Defaults)
      BY <2>7 DEF File
    <3>2. ValuesOf(told') = ValuesOf(cal') /\ ValuesOf(cal') = calFile.values
      BY <2>1, <2>2
    <3> QED BY <2>1, <2>2, <2>4, <2>5, <2>7, <3>1, <3>2 DEF CalibrationInv
  <2> QED BY <2>5, <2>6, <2>7
<1>5. CASE SetLimit
  BY <1>5 DEF SetLimit, NoCall, CalibrationTypes, CalibrationInv
<1>6. CASE SaveFails
  BY <1>6 DEF SaveFails, CalibrationTypes, CalibrationInv
<1>7. CASE SaveOpens
  BY <1>7 DEF SaveOpens, CalibrationTypes, CalibrationInv, File
<1>8. CASE SaveCloses
  <2>1. /\ save = "close" /\ save' = "idle" /\ cal' = [cal EXCEPT !.saved = TRUE]
        /\ kept' = ValuesOf(cal) /\ running /\ UNCHANGED <<running, told>>
    BY <1>8 DEF SaveCloses
  <2>2. /\ cal' \in SavedValues /\ kept' \in Values /\ ValuesOf(cal') = ValuesOf(cal)
        /\ Written(kept') = Written(cal)
    BY <1>0, <2>1, ValuesAreValues
  <2>3. calFile = File("empty", Defaults)
    BY <2>1 DEF CalibrationInv
  <2>4. CASE calFile' = File("written", Written(cal)) /\ hurt' = FALSE
    <3>1. told.saved => Written(cal) = ValuesOf(told)
      BY <1>0, FineIsValue, ValuesAreValues DEF CalibrationInv
    <3> QED BY <2>1, <2>2, <2>4, <3>1 DEF CalibrationTypes, CalibrationInv, File
  <2>5. CASE calFile' = calFile /\ hurt' = TRUE
    BY <2>1, <2>2, <2>3, <2>5 DEF CalibrationTypes, CalibrationInv, File
  <2> QED BY <1>8, <2>4, <2>5 DEF SaveCloses
<1>9. CASE CalibrationDies
  BY <1>9 DEF CalibrationDies, CalibrationTypes, CalibrationInv, File
<1>10. CASE CalibrationRespawns
  <2>1. /\ cal' = ReadBack(FALSE) /\ told' = cal' /\ ~running /\ running'
        /\ running' \in BOOLEAN /\ UNCHANGED <<calFile, save, kept, hurt>>
    BY <1>10 DEF CalibrationRespawns, Adopt
  <2>2. /\ cal' \in SavedValues /\ ValuesOf(cal') \in FineValues
        /\ ValuesOf(cal') = calFile.values
        /\ cal'.saved = IF calFile.is = "none" THEN FALSE ELSE TRUE
    BY <2>1, ReadBackIsFine
  <2>3. CalibrationTypes'
    BY <2>1, <2>2 DEF CalibrationTypes
  <2>4. save = "idle"
    BY <2>1 DEF CalibrationInv
  <2>5. CASE calFile.is = "none"
    <3>1. calFile # File("empty", Defaults) /\ calFile # File("written", Written(kept))
      BY <2>5 DEF File
    <3>2. /\ cal'.saved = FALSE /\ told'.saved = FALSE /\ kept = Defaults
          /\ calFile = File("none", Defaults)
      BY <2>1, <2>2, <2>4, <2>5, <3>1 DEF CalibrationInv
    <3> QED BY <2>1, <2>3, <2>4, <3>2 DEF CalibrationInv
  <2>6. CASE calFile.is # "none"
    <3>1. calFile # File("none", Defaults)
      BY <2>6 DEF File
    <3>2. ValuesOf(told') = ValuesOf(cal') /\ ValuesOf(cal') = calFile.values
      BY <2>1, <2>2
    <3>3. ~hurt => calFile = File("written", calFile.values)
      <4>1. ~hurt => calFile = File("written", Written(kept))
        BY <2>4, <3>1 DEF CalibrationInv
      <4> QED BY <4>1 DEF File
    <3> QED BY <2>1, <2>2, <2>3, <2>4, <2>6, <3>1, <3>2, <3>3 DEF CalibrationInv
  <2> QED BY <2>3, <2>5, <2>6
<1>11. CASE UNCHANGED calibrationVars
  BY <1>11 DEF calibrationVars, CalibrationTypes, CalibrationInv
<1> QED BY <1>1, <1>2, <1>3, <1>4, <1>5, <1>6, <1>7, <1>8, <1>9, <1>10, <1>11
        DEF CalibrationNext

(* Whatever was reported as saved is what the next process drives with, to *)
(* the last digit the file holds, for any centers and gains (save,         *)
(* load_json).                                                             *)
THEOREM RestartAlwaysKeepsCalibration == CalibrationSpec => RestartKeepsCalibration
<1> DEFINE Inv == CalibrationTypes /\ CalibrationInv
<1> USE CalibrationAssumption
<1>1. CalibrationInit => Inv
  BY CalibrationInitially
<1>2. Inv /\ [CalibrationNext]_calibrationVars => Inv'
  BY CalibrationStep
<1>3. Inv /\ [CalibrationNext]_calibrationVars
        => [~running /\ running' /\ ~hurt =>
              /\ cal'.reverse = kept.reverse
              /\ \A ch \in Channels : 2 * (cal'.center[ch] - kept.center[ch]) \in -Grain .. Grain
              /\ 2 * (cal'.gain - kept.gain) \in -Grain .. Grain]_calibrationVars
  <2> SUFFICES ASSUME Inv, CalibrationNext, ~running, running', ~hurt
               PROVE  /\ cal'.reverse = kept.reverse
                      /\ \A ch \in Channels :
                           2 * (cal'.center[ch] - kept.center[ch]) \in -Grain .. Grain
                      /\ 2 * (cal'.gain - kept.gain) \in -Grain .. Grain
    OBVIOUS
  <2>1. CalibrationRespawns
    BY DEF CalibrationNext, SetReverse, SetGain, SetCenter, Reload, SetLimit, Adjust, NoCall,
           SaveFails, SaveOpens, SaveCloses, CalibrationDies
  <2>2. cal' = ReadBack(FALSE) /\ kept \in Values /\ save = "idle"
    BY <2>1 DEF CalibrationRespawns, Adopt, CalibrationTypes, CalibrationInv
  <2>3. ValuesOf(cal') = calFile.values
    BY <2>2, ReadBackIsFine
  <2>4. calFile.values = Written(kept)
    BY <2>2, DefaultsAreFine, FineIsValue DEF CalibrationInv, File
  <2>5. ValuesOf(Loaded(Written(kept))) = ValuesOf(cal')
    BY <2>2, <2>3, <2>4, FileHolds
  <2>6. /\ Loaded(Written(kept)).center = cal'.center
        /\ Loaded(Written(kept)).reverse = cal'.reverse
        /\ Loaded(Written(kept)).gain = cal'.gain
    BY <2>5 DEF ValuesOf
  <2> QED BY <2>2, <2>6, FileHolds
<1> HIDE DEF Inv
<1> QED BY <1>1, <1>2, <1>3, PTL DEF CalibrationSpec, RestartKeepsCalibration

(* A status that says so is right about the file, for any centers and      *)
(* gains (CalibrationStatus.msg:24).                                       *)
THEOREM ToldSavedIsAlwaysSaved == CalibrationSpec => []ToldSavedIsSaved
<1> DEFINE Inv == CalibrationTypes /\ CalibrationInv
<1> USE CalibrationAssumption
<1>1. CalibrationInit => Inv
  BY CalibrationInitially
<1>2. Inv /\ [CalibrationNext]_calibrationVars => Inv'
  BY CalibrationStep
<1>3. Inv => ToldSavedIsSaved
  BY DEF CalibrationInv, ToldSavedIsSaved, NoCall
<1> HIDE DEF Inv
<1> QED BY <1>1, <1>2, <1>3, PTL DEF CalibrationSpec

-----------------------------------------------------------------------------
\* The servos

\* A quotient grows by at least what the growth of the dividend holds.
LEMMA QuotientGrows ==
  ASSUME NEW a \in Int, NEW k \in Int, NEW b \in Int, NEW c \in Nat \ {0}, a + k <= b
  PROVE  a \div c + k \div c <= b \div c
<1> DEFINE p == a \div c
           q == k \div c
           r == b \div c
<1>1. /\ p \in Int /\ p * c <= a /\ q \in Int /\ q * c <= k
      /\ r \in Int /\ b < r * c + c
  BY DivBounds
<1> HIDE DEF p, q, r
<1>2. (p + q) * c = p * c + q * c /\ (r + 1) * c = r * c + c
  BY <1>1
<1>3. {p * c, q * c, r * c} \subseteq Int /\ p + q \in Int /\ r + 1 \in Int
  BY <1>1
<1>4. (p + q) * c < (r + 1) * c
  BY <1>1, <1>2, <1>3
<1>5. p + q < r + 1
  BY <1>3, <1>4, Cancel
<1>6. p + q <= r
  BY <1>1, <1>5
<1> QED BY <1>6 DEF p, q, r

\* A product grows by at least the growth of a factor times the other.
LEMMA ProductGrows ==
  ASSUME NEW a \in Int, NEW k \in Int, NEW b \in Int, NEW f \in Nat, a + k <= b
  PROVE  /\ a * f + k * f <= b * f
         /\ {a * f, k * f, b * f} \subseteq Int
<1>1. (a + k) * f = a * f + k * f
  OBVIOUS
<1>2. (a + k) * f <= b * f
  <2> DEFINE j == a + k
  <2>1. j \in Int /\ j <= b
    OBVIOUS
  <2> HIDE DEF j
  <2>2. j * f <= b * f
    BY <2>1
  <2> QED BY <2>2 DEF j
<1> QED BY <1>1, <1>2

\* The two together: what is multiplied, and then divided.
LEMMA ScaledGrows ==
  ASSUME NEW a \in Int, NEW k \in Int, NEW b \in Int, NEW f \in Nat, NEW c \in Nat \ {0},
         a + k <= b
  PROVE  /\ (a * f) \div c + (k * f) \div c <= (b * f) \div c
         /\ {(a * f) \div c, (k * f) \div c, (b * f) \div c} \subseteq Int
<1>1. /\ a * f + k * f <= b * f
      /\ a * f \in Int /\ k * f \in Int /\ b * f \in Int
  BY ProductGrows
<1> DEFINE x == a * f
           y == k * f
           z == b * f
<1>2. x + y <= z /\ x \in Int /\ y \in Int /\ z \in Int
  BY <1>1
<1> HIDE DEF x, y, z
<1>3. x \div c + y \div c <= z \div c /\ {x \div c, y \div c, z \div c} \subseteq Int
  BY <1>2, QuotientGrows, DivBounds
<1> QED BY <1>3 DEF x, y, z

-----------------------------------------------------------------------------
\* The effort for a speed of magnitude n, in the direction the motor is weaker in or not.
EffortOf(n, weak) ==
  LET curve == Slope[settings.mounting] * n + DeadBand[settings.mounting]
      gained == (curve * settings.gain) \div UnitSpeedGain
      volts == IF battery.voltage < LeastVoltage THEN LeastVoltage ELSE battery.voltage IN
  ((IF weak THEN (gained * Weak) \div Strong ELSE gained) * RefVoltage) \div volts

ServosTypes ==
  /\ channel \in ServoChannels /\ settings \in SettingsOf(channel)
  /\ battery.voltage \in Voltages \cup {RefVoltage}

\* A faster speed needs more effort.
LEMMA EffortGrows ==
  ASSUME ServosAssumption, SpeedIsFelt, ServosTypes, NEW weak \in BOOLEAN,
         NEW m \in Nat, NEW n \in Nat, m < n
  PROVE  /\ EffortOf(m, weak) \in Int /\ EffortOf(n, weak) \in Int
         /\ EffortOf(m, weak) + 1 <= EffortOf(n, weak)
<1> DEFINE mo == settings.mounting
           g == settings.gain
           volts == IF battery.voltage < LeastVoltage THEN LeastVoltage ELSE battery.voltage
           curve(i) == Slope[mo] * i + DeadBand[mo]
           gained(i) == (curve(i) * g) \div UnitSpeedGain
           weakened(i) == (gained(i) * Weak) \div Strong
           s == (Slope[mo] * g) \div UnitSpeedGain
           w == (s * Weak) \div Strong
           x(i) == IF weak THEN weakened(i) ELSE gained(i)
           e(i) == (x(i) * RefVoltage) \div volts
<1>1. /\ mo \in Mountings /\ g \in SpeedGains /\ g \in Nat
      /\ Slope[mo] \in Nat /\ DeadBand[mo] \in Nat
      /\ UnitSpeedGain \in Nat \ {0} /\ Strong \in Nat \ {0} /\ Weak \in Nat /\ Weak <= Strong
      /\ RefVoltage \in Nat \ {0} /\ LeastVoltage \in Nat \ {0}
      /\ battery.voltage \in Nat
  BY DEF ServosTypes, SettingsOf, ServosAssumption
<1>2. volts \in Nat \ {0}
  BY <1>1
<1>3. w * RefVoltage >= volts
  <2>1. w * RefVoltage >= battery.voltage /\ w * RefVoltage >= LeastVoltage
    BY <1>1 DEF SpeedIsFelt, ServosTypes
  <2> QED BY <2>1
<1> HIDE DEF mo, volts
<1>4. curve(m) \in Int /\ curve(n) \in Int /\ curve(m) + Slope[mo] <= curve(n)
  <2>1. m + 1 <= n /\ m \in Int /\ n \in Int /\ 1 \in Int
    OBVIOUS
  <2>2. /\ m * Slope[mo] + 1 * Slope[mo] <= n * Slope[mo]
        /\ {m * Slope[mo], 1 * Slope[mo], n * Slope[mo]} \subseteq Int
    <3>1. \A k \in Nat : /\ m * k + 1 * k <= n * k
                         /\ {m * k, 1 * k, n * k} \subseteq Int
      BY ONLY <2>1, ProductGrows
    <3> QED BY <1>1, <3>1
  <2>3. m * Slope[mo] = Slope[mo] * m /\ n * Slope[mo] = Slope[mo] * n
        /\ 1 * Slope[mo] = Slope[mo]
    BY <1>1
  <2> QED BY <1>1, <2>2, <2>3
<1> HIDE DEF curve
<1>5. {gained(m), s, gained(n)} \subseteq Int /\ gained(m) + s <= gained(n)
  <2> DEFINE cm == curve(m)
             cn == curve(n)
             k == Slope[mo]
  <2>1. cm \in Int /\ cn \in Int /\ k \in Int /\ cm + k <= cn
    BY <1>1, <1>4
  <2> HIDE DEF cm, cn, k
  <2>2. /\ (cm * g) \div UnitSpeedGain + (k * g) \div UnitSpeedGain <= (cn * g) \div UnitSpeedGain
        /\ {(cm * g) \div UnitSpeedGain, (k * g) \div UnitSpeedGain,
            (cn * g) \div UnitSpeedGain} \subseteq Int
    <3>1. g \in Nat /\ UnitSpeedGain \in Nat \ {0}
      BY <1>1
    <3> HIDE DEF g
    <3> QED BY <2>1, <3>1, ScaledGrows
  <2> QED BY <2>2 DEF cm, cn, k
<1> HIDE DEF gained, s
<1>6. {weakened(m), w, weakened(n)} \subseteq Int /\ weakened(m) + w <= weakened(n)
  BY <1>1, <1>5, ScaledGrows
<1>7. w <= s \/ w < 0
  <2> SUFFICES ASSUME w >= 0 PROVE w <= s
    BY <1>5, <1>6
  <2>1. w * Strong <= s * Weak
    <3>1. s * Weak \in Int
      BY <1>1, <1>5
    <3> DEFINE y == s * Weak
    <3> HIDE DEF y
    <3>2. (y \div Strong) * Strong <= y
      BY <1>1, <3>1, DivBounds DEF y
    <3> QED BY <3>2 DEF y
  <2> HIDE DEF w
  <2>2. s >= 0
    <3> SUFFICES ASSUME s < 0, Weak # 0 PROVE FALSE
      <4>1. CASE Weak = 0 /\ s < 0
        <5>1. w = 0
          BY <1>1, <1>5, <4>1 DEF w
        <5>2. w * RefVoltage = 0
          BY <1>1, <5>1
        <5> QED BY <1>2, <1>3, <5>2
      <4> QED BY <1>1, <1>5, <4>1
    <3>1. s * Weak < 0
      BY <1>1, <1>5
    <3>2. w * Strong >= 0
      BY <1>1, <1>6
    <3> QED BY <1>1, <1>5, <1>6, <2>1, <3>1, <3>2
  <2>3. s * Weak <= s * Strong
    BY <1>1, <1>5, <2>2
  <2>4. w * Strong < (s + 1) * Strong
    <3>1. (s + 1) * Strong = s * Strong + Strong
      BY <1>1, <1>5
    <3>2. {w * Strong, s * Weak, s * Strong} \subseteq Int
      BY <1>1, <1>5, <1>6
    <3> QED BY <1>1, <2>1, <2>3, <3>1, <3>2
  <2>5. w < s + 1
    BY <1>1, <1>5, <1>6, <2>4, Cancel
  <2> QED BY <1>5, <1>6, <2>5
<1>8. w >= 0
  <2> HIDE DEF w
  <2> SUFFICES ASSUME w < 0 PROVE FALSE
    BY <1>6
  <2>1. w * RefVoltage + 1 * RefVoltage <= 0 * RefVoltage /\ w * RefVoltage \in Int
    BY <1>1, <1>6, ProductGrows
  <2>2. 1 * RefVoltage > 0 /\ 0 * RefVoltage = 0
    BY <1>1
  <2> QED BY <1>2, <1>3, <2>1, <2>2
<1> HIDE DEF weakened, w
<1>9. {x(m), x(n)} \subseteq Int /\ x(m) + w <= x(n)
  BY <1>5, <1>6, <1>7, <1>8
<1> HIDE DEF x
<1>10. /\ e(m) + (w * RefVoltage) \div volts <= e(n)
       /\ {e(m), (w * RefVoltage) \div volts, e(n)} \subseteq Int
  BY <1>1, <1>2, <1>6, <1>9, ScaledGrows
<1>11. (w * RefVoltage) \div volts >= 1
  <2> DEFINE y == w * RefVoltage
  <2>1. y \in Int /\ y >= volts
    BY <1>1, <1>3, <1>6
  <2> HIDE DEF y
  <2> DEFINE q == y \div volts
  <2>2. q \in Int /\ y < q * volts + volts
    BY <1>2, <2>1, DivBounds
  <2> HIDE DEF q
  <2>3. (q + 1) * volts = q * volts + volts /\ 1 * volts = volts /\ q * volts \in Int
    BY <1>2, <2>2
  <2>4. 1 < q + 1
    <3>1. 1 * volts < (q + 1) * volts
      BY <1>2, <2>1, <2>2, <2>3
    <3> QED BY <1>2, <2>2, <3>1, Cancel
  <2>5. q >= 1
    BY <2>2, <2>4
  <2> QED BY <2>5 DEF q, y
<1>12. e(m) + 1 <= e(n) /\ e(m) \in Int /\ e(n) \in Int
  <2> HIDE DEF e
  <2> DEFINE y == (w * RefVoltage) \div volts
  <2>1. y \in Int /\ y >= 1 /\ e(m) + y <= e(n) /\ e(m) \in Int /\ e(n) \in Int
    BY <1>10, <1>11
  <2> HIDE DEF y
  <2> QED BY <2>1
<1>13. EffortOf(m, weak) = e(m) /\ EffortOf(n, weak) = e(n)
  BY DEF EffortOf, e, x, weakened, gained, curve, mo, volts
<1> HIDE DEF e
<1> QED BY <1>12, <1>13

\* What is scaled stays a natural number.
LEMMA ScaledIsNatural ==
  ASSUME NEW a \in Nat, NEW f \in Nat, NEW c \in Nat \ {0}
  PROVE  (a * f) \div c \in Nat
<1>1. a * f \in Nat
  OBVIOUS
<1> DEFINE y == a * f
<1> HIDE DEF y
<1>2. y \div c \in Nat
  BY <1>1 DEF y
<1> QED BY <1>2 DEF y

\* An effort is a natural number.
LEMMA EffortIsNatural ==
  ASSUME ServosAssumption, ServosTypes, NEW weak \in BOOLEAN, NEW n \in Nat
  PROVE  EffortOf(n, weak) \in Nat
<1> DEFINE curve == Slope[settings.mounting] * n + DeadBand[settings.mounting]
           gained == (curve * settings.gain) \div UnitSpeedGain
           volts == IF battery.voltage < LeastVoltage THEN LeastVoltage ELSE battery.voltage
           x == IF weak THEN (gained * Weak) \div Strong ELSE gained
<1>1. /\ settings.mounting \in Mountings /\ settings.gain \in Nat
      /\ Slope[settings.mounting] \in Nat /\ DeadBand[settings.mounting] \in Nat
      /\ UnitSpeedGain \in Nat \ {0} /\ Strong \in Nat \ {0} /\ Weak \in Nat
      /\ RefVoltage \in Nat /\ LeastVoltage \in Nat \ {0}
      /\ battery.voltage \in Nat
  BY DEF ServosTypes, SettingsOf, ServosAssumption
<1>2. curve \in Nat /\ volts \in Nat \ {0}
  BY <1>1
<1> HIDE DEF curve, volts
<1>3. gained \in Nat
  BY <1>1, <1>2, ScaledIsNatural
<1> HIDE DEF gained
<1>4. x \in Nat
  BY <1>1, <1>3, ScaledIsNatural
<1> HIDE DEF x
<1>5. (x * RefVoltage) \div volts \in Nat
  BY <1>1, <1>2, <1>4, ScaledIsNatural
<1> QED BY <1>5 DEF EffortOf, x, gained, volts, curve

-----------------------------------------------------------------------------
\* The ESC's pulse, counted from neutral in the sense of the mounting.
Drive(speed) ==
  IF speed = 0 THEN 0
  ELSE IF speed > 0 THEN EffortOf(speed, settings.mounting = "reversed")
  ELSE -EffortOf(-speed, settings.mounting = "forward")

\* A larger speed drives harder, from full reverse to full speed.
LEMMA DriveGrows ==
  ASSUME ServosAssumption, SpeedIsFelt, ServosTypes, NEW c \in Int, NEW d \in Int, c < d
  PROVE  Drive(c) \in Int /\ Drive(d) \in Int /\ Drive(c) < Drive(d)
<1> DEFINE f == settings.mounting = "forward"
           r == settings.mounting = "reversed"
<1>1. f \in BOOLEAN /\ r \in BOOLEAN
  OBVIOUS
<1> HIDE DEF f, r
<1>2. \A n \in Nat \ {0} : \A weak \in BOOLEAN :
        EffortOf(n, weak) \in Int /\ EffortOf(n, weak) > 0
  <2> SUFFICES ASSUME NEW n \in Nat \ {0}, NEW weak \in BOOLEAN
               PROVE  EffortOf(n, weak) \in Int /\ EffortOf(n, weak) > 0
    OBVIOUS
  <2>1. EffortOf(0, weak) \in Nat /\ 0 < n
    BY EffortIsNatural
  <2>2. EffortOf(0, weak) + 1 <= EffortOf(n, weak) /\ EffortOf(n, weak) \in Int
    BY <2>1, EffortGrows
  <2> QED BY <2>1, <2>2
<1>3. \A s \in Int : Drive(s) \in Int /\ (s > 0 => Drive(s) > 0) /\ (s < 0 => Drive(s) < 0)
  <2> SUFFICES ASSUME NEW s \in Int
               PROVE  Drive(s) \in Int /\ (s > 0 => Drive(s) > 0) /\ (s < 0 => Drive(s) < 0)
    OBVIOUS
  <2>1. CASE s > 0
    <3>1. Drive(s) = EffortOf(s, r) /\ s \in Nat \ {0}
      BY <2>1 DEF Drive, r
    <3> QED BY <1>1, <1>2, <2>1, <3>1
  <2>2. CASE s < 0
    <3>1. Drive(s) = -EffortOf(-s, f) /\ -s \in Nat \ {0}
      BY <2>2 DEF Drive, f
    <3>2. EffortOf(-s, f) \in Int /\ EffortOf(-s, f) > 0
      BY <1>1, <1>2, <3>1
    <3> QED BY <2>2, <3>1, <3>2
  <2>3. CASE s = 0
    BY <2>3 DEF Drive
  <2> QED BY <2>1, <2>2, <2>3
<1>4. CASE c > 0
  <2>1. /\ Drive(c) = EffortOf(c, r) /\ Drive(d) = EffortOf(d, r)
        /\ c \in Nat /\ d \in Nat
    BY <1>4 DEF Drive, r
  <2>2. EffortOf(c, r) + 1 <= EffortOf(d, r)
    BY <1>1, <2>1, EffortGrows
  <2> QED BY <1>3, <2>1, <2>2
<1>5. CASE d < 0
  <2>1. /\ Drive(c) = -EffortOf(-c, f) /\ Drive(d) = -EffortOf(-d, f)
        /\ -c \in Nat /\ -d \in Nat /\ -d < -c
    BY <1>5 DEF Drive, f
  <2>2. /\ EffortOf(-d, f) + 1 <= EffortOf(-c, f)
        /\ EffortOf(-d, f) \in Int /\ EffortOf(-c, f) \in Int
    BY <1>1, <2>1, EffortGrows
  <2> QED BY <1>3, <2>1, <2>2
<1>6. CASE c <= 0 /\ d >= 0
  <2>1. Drive(c) <= 0 /\ Drive(d) >= 0 /\ (Drive(c) < 0 \/ Drive(d) > 0)
    <3>1. c < 0 \/ d > 0
      OBVIOUS
    <3>2. (c = 0 => Drive(c) = 0) /\ (d = 0 => Drive(d) = 0)
      BY DEF Drive
    <3> QED BY <1>3, <1>6, <3>1, <3>2
  <2> QED BY <1>3, <2>1
<1> QED BY <1>4, <1>5, <1>6

\* A clamp keeps the order, but at its ends.
LEMMA ClampKeepsOrder ==
  ASSUME NEW u \in Int, NEW v \in Int, NEW hi \in Nat, u < v
  PROVE  /\ Within(u, 0, hi) \in Int /\ Within(v, 0, hi) \in Int
         /\ \/ Within(u, 0, hi) < Within(v, 0, hi)
            \/ Within(u, 0, hi) = Within(v, 0, hi) /\ Within(u, 0, hi) \in {0, hi}
BY DEF Within

\* The ESC: a larger speed moves its pulse further, up to its ends.
LEMMA ThrottleInOrder ==
  ASSUME ServosAssumption, SpeedIsFelt, ServosTypes, channel = "throttle",
         NEW c \in Int, NEW d \in Int, c < d
  PROVE  \/ Sense * (PulseOf(d) - PulseOf(c)) > 0 /\ Sense * (PulseOf(c) - PulseOf(d)) < 0
         \/ PulseOf(c) \in {0, 2 * Duty * ServoCenter} /\ PulseOf(d) = PulseOf(c)
<1> DEFINE N == Duty * ServoCenter
           M == 2 * Duty * ServoCenter
           x == Drive(c)
           y == Drive(d)
<1>1. N \in Nat /\ M = 2 * N
  <2>1. Duty \in Nat /\ ServoCenter \in Nat
    BY DEF ServosAssumption
  <2> QED BY <2>1
<1>2. settings.mounting \in Mountings
  BY DEF ServosTypes, SettingsOf
<1>3. x \in Int /\ y \in Int /\ x < y
  BY DriveGrows
<1>4. \A s \in Int : Drive(s) \in Int =>
        PulseOf(s) = Within(N + (IF settings.mounting = "forward" THEN -Drive(s) ELSE Drive(s)),
                            0, M)
  <2> SUFFICES ASSUME NEW s \in Int, Drive(s) \in Int
               PROVE  PulseOf(s) =
                 Within(N + (IF settings.mounting = "forward" THEN -Drive(s) ELSE Drive(s)), 0, M)
    OBVIOUS
  <2>0. PulseOf(s) = ThrottlePulse(s)
    BY DEF PulseOf
  <2>1. CASE s = 0
    <3>1. Drive(s) = 0 /\ ThrottlePulse(s) = N
      BY <2>1 DEF Drive, ThrottlePulse
    <3>2. N + (IF settings.mounting = "forward" THEN -Drive(s) ELSE Drive(s)) = N
      BY <1>1, <3>1
    <3>3. Within(N, 0, M) = N
      <4> HIDE DEF N, M
      <4> QED BY <1>1 DEF Within
    <3> QED BY <2>0, <3>1, <3>2, <3>3
  <2>2. CASE s > 0
    <3>1. Drive(s) = Effort(s)
      BY <1>2, <2>2 DEF Drive, EffortOf, Effort, Magnitude, Mountings
    <3> QED BY <1>2, <2>0, <2>2, <3>1 DEF ThrottlePulse, Mountings
  <2>3. CASE s < 0
    <3>1. Drive(s) = -Effort(s)
      BY <1>2, <2>3 DEF Drive, EffortOf, Effort, Magnitude, Mountings
    <3>2. Effort(s) \in Nat /\ -Drive(s) = Effort(s)
      <4>1. Effort(s) = EffortOf(-s, settings.mounting = "forward") /\ -s \in Nat
        BY <1>2, <2>3 DEF EffortOf, Effort, Magnitude, Mountings
      <4>2. Effort(s) \in Nat
        BY <4>1, EffortIsNatural
      <4> QED BY <3>1, <4>2
    <3> QED BY <1>2, <2>0, <2>3, <3>1, <3>2 DEF ThrottlePulse, Mountings
  <2> QED BY <2>1, <2>2, <2>3
<1>5. /\ PulseOf(c) = Within(N + (IF settings.mounting = "forward" THEN -x ELSE x), 0, M)
      /\ PulseOf(d) = Within(N + (IF settings.mounting = "forward" THEN -y ELSE y), 0, M)
  BY <1>3, <1>4
<1>6. Sense = IF settings.mounting = "forward" THEN -1 ELSE 1
  BY DEF Sense
<1> HIDE DEF x, y, N
<1> DEFINE p == PulseOf(c)
           q == PulseOf(d)
<1>7. CASE settings.mounting = "forward"
  <2>1. p = Within(N - x, 0, M) /\ q = Within(N - y, 0, M) /\ Sense = -1
    BY <1>1, <1>3, <1>5, <1>6, <1>7
  <2>2. p \in Int /\ q \in Int /\ (q < p \/ (p = q /\ p \in {0, M}))
    <3> DEFINE u == N - x
               v == N - y
    <3>1. u \in Int /\ v \in Int /\ v < u /\ p = Within(u, 0, M) /\ q = Within(v, 0, M)
      BY <1>1, <1>3, <2>1
    <3>2. M \in Nat
      BY <1>1
    <3> HIDE DEF p, q, M, u, v
    <3> QED BY <3>1, <3>2, ClampKeepsOrder
  <2> HIDE DEF p, q
  <2>3. -1 * (q - p) = p - q /\ -1 * (p - q) = q - p
    BY <2>2
  <2>4. \/ Sense * (q - p) > 0 /\ Sense * (p - q) < 0
        \/ p \in {0, M} /\ q = p
    BY <2>1, <2>2, <2>3
  <2> QED BY <2>4 DEF p, q
<1>8. CASE settings.mounting # "forward"
  <2>1. p = Within(N + x, 0, M) /\ q = Within(N + y, 0, M) /\ Sense = 1
    BY <1>1, <1>3, <1>5, <1>6, <1>8
  <2>2. p \in Int /\ q \in Int /\ (p < q \/ (p = q /\ p \in {0, M}))
    <3> DEFINE u == N + x
               v == N + y
    <3>1. u \in Int /\ v \in Int /\ u < v /\ p = Within(u, 0, M) /\ q = Within(v, 0, M)
      BY <1>1, <1>3, <2>1
    <3>2. M \in Nat
      BY <1>1
    <3> HIDE DEF p, q, M, u, v
    <3> QED BY <3>1, <3>2, ClampKeepsOrder
  <2> HIDE DEF p, q
  <2>4. \/ Sense * (q - p) > 0 /\ Sense * (p - q) < 0
        \/ p \in {0, M} /\ q = p
    BY <2>1, <2>2
  <2> QED BY <2>4 DEF p, q
<1> QED BY <1>7, <1>8

-----------------------------------------------------------------------------
\* An angle on the serial board is within half a degree, and a degree more is felt.
LEMMA DegreesGrow ==
  ASSUME Degree \in Nat \ {0}, NEW s \in Nat, NEW t \in Int, s + Degree <= t
  PROVE  /\ WholeDegrees(s) \in Nat /\ WholeDegrees(t) \in Int
         /\ WholeDegrees(s) < WholeDegrees(t) /\ 2 * WholeDegrees(s) <= 2 * s + Degree
<1> DEFINE w == 2 * Degree
           p == (2 * s + Degree) \div w
           q == (2 * t + Degree) \div w
<1>1. w \in Nat \ {0} /\ 2 * s + Degree \in Nat /\ 2 * t + Degree \in Int
  OBVIOUS
<1>2. /\ p \in Int /\ p * w <= 2 * s + Degree /\ 2 * s + Degree < p * w + w
      /\ q \in Int /\ q * w <= 2 * t + Degree /\ 2 * t + Degree < q * w + w
  <2> HIDE DEF w
  <2> QED BY <1>1, DivBounds
<1>3. p \in Nat
  <2> HIDE DEF w
  <2> QED BY <1>1
<1> HIDE DEF p, q
<1>4. (p + 1) * w = p * w + w /\ (q + 1) * w = q * w + w /\ {p * w, q * w} \subseteq Int
  BY <1>1, <1>2
<1>5. p < q
  <2>1. (p + 1) * w < (q + 1) * w
    BY <1>1, <1>2, <1>4
  <2>2. p + 1 < q + 1
    <3> HIDE DEF w
    <3> QED BY <1>1, <1>2, <2>1, Cancel
  <2> QED BY <1>2, <2>2
<1>6. WholeDegrees(s) = Degree * p /\ WholeDegrees(t) = Degree * q
  BY DEF WholeDegrees, p, q, w
<1>7. Degree * p \in Nat /\ Degree * q \in Int /\ 2 * (Degree * p) = p * w
  BY <1>2, <1>3
<1>8. Degree * p < Degree * q
  <2>1. p + 1 <= q
    BY <1>2, <1>5
  <2>2. /\ p * Degree + 1 * Degree <= q * Degree
        /\ {p * Degree, 1 * Degree, q * Degree} \subseteq Int
    BY <1>2, <2>1, ProductGrows
  <2>3. p * Degree = Degree * p /\ q * Degree = Degree * q /\ 1 * Degree = Degree
    BY <1>2
  <2> QED BY <2>2, <2>3
<1> QED BY <1>2, <1>6, <1>7, <1>8

\* A larger angle is a larger pulse, on either board.
LEMMA PulseGrows ==
  ASSUME ServosAssumption, NEW s \in 0 .. 2 * ServoCenter, NEW t \in 0 .. 2 * ServoCenter,
         s + Degree <= t
  PROVE  PulseFor(s) \in Int /\ PulseFor(t) \in Int /\ PulseFor(s) < PulseFor(t)
<1>1. ServoCenter \in Nat \ {0} /\ Degree \in Nat \ {0} /\ Duty \in Nat \ {0}
  BY DEF ServosAssumption
<1>2. CASE OnGpio
  <2>1. Within(s, 0, 2 * ServoCenter) = s /\ Within(t, 0, 2 * ServoCenter) = t
    BY <1>1 DEF Within
  <2>2. PulseFor(s) = Duty * s /\ PulseFor(t) = Duty * t
    BY <1>2, <2>1 DEF PulseFor
  <2>3. s * Duty + Degree * Duty <= t * Duty /\ {s * Duty, Degree * Duty, t * Duty} \subseteq Int
    <3>1. s \in Int /\ t \in Int
      BY <1>1
    <3> QED BY <1>1, <3>1, ProductGrows
  <2>4. s * Duty = Duty * s /\ t * Duty = Duty * t /\ Degree * Duty > 0
    BY <1>1
  <2> QED BY <2>2, <2>3, <2>4
<1>3. CASE ~OnGpio
  <2> DEFINE a == WholeDegrees(s)
             b == WholeDegrees(t)
             hi == 2 * ServoCenter
  <2>1. a \in Nat /\ b \in Int /\ a < b /\ 2 * a <= 2 * s + Degree
    <3>1. s \in Nat /\ t \in Int
      BY <1>1
    <3> QED BY <1>1, <3>1, DegreesGrow
  <2>2. hi \in Nat /\ s + Degree <= hi /\ s \in Nat
    BY <1>1
  <2>3. PulseFor(s) = Within(a, 0, hi) /\ PulseFor(t) = Within(b, 0, hi)
    BY <1>3 DEF PulseFor
  <2> HIDE DEF a, b, hi
  <2>4. a < hi
    BY <1>1, <2>1, <2>2
  <2> QED BY <2>1, <2>2, <2>3, <2>4 DEF Within
<1> QED BY <1>2, <1>3

\* With limits and trim: the trimmed angle stays within the servo.
LEMMA AngleGrows ==
  ASSUME ServosAssumption, ServosTypes, channel # "throttle", NEW c \in Int, NEW d \in Int,
         {c, d} \subseteq -Reach[channel] .. Reach[channel], c + Degree <= d
  PROVE  /\ AngleApplied(ServoCenter + c) \in Int /\ AngleApplied(ServoCenter + d) \in Int
         /\ AngleApplied(ServoCenter + c) < AngleApplied(ServoCenter + d)
<1> DEFINE R == Reach[channel]
           trim == settings.trim
<1>1. /\ R \in Nat /\ ServoCenter \in Nat /\ Degree \in Nat /\ trim \in Int
      /\ {trim - R, trim + R} \subseteq -ServoCenter .. ServoCenter
  BY DEF ServosAssumption, ServosTypes, SettingsOf
<1>2. \A e \in -R .. R :
        /\ AngleApplied(ServoCenter + e) = PulseFor(ServoCenter + e + trim)
        /\ ServoCenter + e + trim \in 0 .. 2 * ServoCenter
  <2> SUFFICES ASSUME NEW e \in -R .. R
               PROVE  /\ AngleApplied(ServoCenter + e) = PulseFor(ServoCenter + e + trim)
                      /\ ServoCenter + e + trim \in 0 .. 2 * ServoCenter
    OBVIOUS
  <2> DEFINE a == ServoCenter + e
  <2>1. Limited(a) = a
    <3>1. a \in Int /\ a >= ServoCenter - R /\ a <= ServoCenter + R
      BY <1>1
    <3> HIDE DEF a
    <3> QED BY <1>1, <3>1 DEF Limited, Within
  <2>2. AngleApplied(a) = PulseFor(a + trim)
    BY <2>1 DEF AngleApplied, Trimmed
  <2>3. a + trim \in 0 .. 2 * ServoCenter
    <3> HIDE DEF R, trim
    <3> QED BY <1>1
  <2> QED BY <2>2, <2>3
<1> DEFINE s == ServoCenter + c + trim
           t == ServoCenter + d + trim
<1>3. s \in 0 .. 2 * ServoCenter /\ t \in 0 .. 2 * ServoCenter /\ s + Degree <= t
  <2>1. c \in -R .. R /\ d \in -R .. R
    OBVIOUS
  <2>2. s + Degree <= t
    <3> HIDE DEF trim
    <3> QED BY <1>1
  <2> QED BY <1>2, <2>1, <2>2
<1>4. AngleApplied(ServoCenter + c) = PulseFor(s) /\ AngleApplied(ServoCenter + d) = PulseFor(t)
  BY <1>2
<1> HIDE DEF s, t
<1> QED BY <1>3, <1>4, PulseGrows

\* One command against another that is further, in the same state.
LEMMA OneCommandFurther ==
  ASSUME ServosAssumption, SpeedIsFelt, ServosTypes, NEW c \in Int, NEW d \in Int,
         channel = "throttle" \/ {c, d} \subseteq -Reach[channel] .. Reach[channel],
         Further(c, d)
  PROVE  \/ Sense * (PulseOf(d) - PulseOf(c)) > 0 /\ Sense * (PulseOf(c) - PulseOf(d)) < 0
         \/ /\ channel = "throttle" /\ PulseOf(c) \in {0, 2 * Duty * ServoCenter}
            /\ PulseOf(d) = PulseOf(c)
<1>1. CASE channel = "throttle"
  <2>1. c < d
    BY <1>1 DEF Further
  <2> QED BY <1>1, <2>1, ThrottleInOrder
<1>2. CASE channel # "throttle"
  <2> DEFINE R == Reach[channel]
  <2>1. /\ R \in Nat /\ ServoCenter \in Nat /\ Degree \in Nat
        /\ {c, d} \subseteq -R .. R /\ c + Degree <= d
    BY <1>2 DEF Further, ServosAssumption, ServosTypes
  <2>2. Within(c, -R, R) = c /\ Within(d, -R, R) = d
    <3> HIDE DEF R
    <3> QED BY <2>1 DEF Within
  <2>3. CASE channel = "tilt"
    <3> DEFINE p == AngleApplied(ServoCenter + (-c))
               q == AngleApplied(ServoCenter + (-d))
    <3>1. {-d, -c} \subseteq -R .. R /\ (-d) + Degree <= -c /\ -c \in Int /\ -d \in Int
      <4> HIDE DEF R
      <4> QED BY <2>1
    <3>2. q \in Int /\ p \in Int /\ q < p
      BY <1>2, <3>1, AngleGrows
    <3>3. PulseOf(c) = p /\ PulseOf(d) = q /\ Sense = -1
      <4>1. ServoCenter - c = ServoCenter + (-c) /\ ServoCenter - d = ServoCenter + (-d)
        BY <2>1
      <4> QED BY <2>2, <2>3, <4>1 DEF PulseOf, Sense
    <3> HIDE DEF p, q
    <3>4. Sense * (q - p) = p - q /\ Sense * (p - q) = q - p
      BY <3>2, <3>3
    <3>5. p - q > 0 /\ q - p < 0
      BY <3>2
    <3> QED BY <3>3, <3>4, <3>5
  <2>4. CASE channel # "tilt"
    <3> DEFINE p == AngleApplied(ServoCenter + c)
               q == AngleApplied(ServoCenter + d)
    <3>1. q \in Int /\ p \in Int /\ p < q
      BY <1>2, <2>1, AngleGrows
    <3>2. PulseOf(c) = p /\ PulseOf(d) = q /\ Sense = 1
      BY <1>2, <2>2, <2>4 DEF PulseOf, Sense
    <3> HIDE DEF p, q
    <3>3. 1 * (q - p) > 0 /\ 1 * (p - q) < 0
      BY <3>1
    <3> QED BY <3>2, <3>3
  <2> QED BY <2>3, <2>4
<1> QED BY <1>1, <1>2

-----------------------------------------------------------------------------
\* Whose command is known, its pulse is what the servo is sent.
ServosInv ==
  /\ ServosTypes
  /\ last \in {Unknown} \cup {Of(c) : c \in Int}
  /\ \A c \in Int : last = Of(c) => open /\ pulse = PulseOf(c)

\* A known command is not unknown, and known for what it is.
LEMMA OfIsKnown ==
  /\ ~Unknown.known /\ \A c : Of(c).known /\ Of(c).command = c /\ Of(c) # Unknown
  /\ \A c, d : Of(c) = Of(d) => c = d
BY DEF Of, Unknown

\* What centers a servo is the pulse for the command zero.
LEMMA CenterIsPulse ==
  ASSUME ServosAssumption, ServosTypes
  PROVE  /\ AngleApplied(ServoCenter) = PulseOf(0)
         /\ Limited(ServoCenter) = ServoCenter
         /\ Within(0, -Reach[channel], Reach[channel]) = 0
         /\ channel = "throttle" => PulseOf(0) = Duty * ServoCenter
<1> DEFINE R == Reach[channel]
<1>1. R \in Nat /\ ServoCenter \in Nat /\ Duty \in Nat /\ settings.trim \in Int
  <2>1. R \in Nat /\ ServoCenter \in Nat /\ Duty \in Nat
    BY DEF ServosAssumption, ServosTypes
  <2>2. settings.trim = 0 \/ settings.trim \in Trims
    BY DEF ServosTypes, SettingsOf
  <2>3. Trims \subseteq Int
    BY DEF ServosAssumption
  <2>4. \A t \in Trims : t \in Int
    BY <2>3
  <2>5. CASE settings.trim \in Trims
    BY <2>1, <2>4, <2>5
  <2>6. CASE settings.trim = 0
    BY <2>1, <2>6
  <2> QED BY <2>2, <2>5, <2>6
<1>2. Within(0, -R, R) = 0 /\ ServoCenter - 0 = ServoCenter /\ ServoCenter + 0 = ServoCenter
  <2> HIDE DEF R
  <2> QED BY <1>1 DEF Within
<1>3. Limited(ServoCenter) = ServoCenter
  <2>1. ServoCenter - R <= ServoCenter /\ ServoCenter <= ServoCenter + R
    <3> HIDE DEF R
    <3> QED BY <1>1
  <2> QED BY <1>1, <2>1 DEF Limited, Within
<1>4. CASE channel = "throttle"
  <2>1. settings.trim = 0
    BY <1>4 DEF ServosTypes, SettingsOf
  <2>2. 2 * ServoCenter - ServoCenter = ServoCenter /\ ServoCenter + 0 = ServoCenter
    BY <1>1
  <2>3. AngleApplied(ServoCenter) = PulseFor(ServoCenter)
    BY <1>3, <2>1, <2>2 DEF AngleApplied, Trimmed
  <2>4. Within(ServoCenter, 0, 2 * ServoCenter) = ServoCenter
    BY <1>1 DEF Within
  <2>5. PulseFor(ServoCenter) = Duty * ServoCenter
    BY <1>4, <2>4 DEF PulseFor, OnGpio
  <2> QED BY <1>2, <1>3, <1>4, <2>3, <2>5 DEF PulseOf, ThrottlePulse
<1>5. CASE channel # "throttle"
  <2>1. AngleApplied(ServoCenter) = PulseFor(ServoCenter + settings.trim)
    BY <1>3, <1>5 DEF AngleApplied, Trimmed
  <2> QED BY <1>2, <1>3, <1>5, <2>1 DEF PulseOf
<1> QED BY <1>4, <1>5

\* The pulse for a command depends on the settings, and for a speed on the voltage.
LEMMA PulseStays ==
  ASSUME UNCHANGED <<channel, settings>>, NEW c,
         channel = "throttle" /\ c # 0 => battery'.voltage = battery.voltage
  PROVE  PulseOf(c)' = PulseOf(c)
<1>1. \A a : AngleApplied(a)' = AngleApplied(a)
  BY DEF AngleApplied, Trimmed, Limited, PulseFor, OnGpio, Within, WholeDegrees
<1>2. CASE channel = "throttle"
  <2>1. c # 0 => Effort(c)' = Effort(c)
    BY <1>2 DEF Effort, Magnitude
  <2>2. ThrottlePulse(c)' = ThrottlePulse(c)
    BY <1>2, <2>1 DEF ThrottlePulse, Within
  <2> QED BY <1>2, <2>2 DEF PulseOf
<1>3. CASE channel # "throttle"
  BY <1>1, <1>3 DEF PulseOf, Within
<1> QED BY <1>2, <1>3

\* A step leaves the pulse for every command as it is, or forgets the last command, or
\* moves the servo to its center.
LEMMA ServosStep ==
  ASSUME ServosAssumption, ServosInv, [ServosNext]_servosVars
  PROVE  /\ ServosInv' /\ channel' = channel
         /\ last # Unknown /\ last' # Unknown /\ channel = "throttle" =>
              battery'.voltage = battery.voltage
<1> USE DEF ServosInv
<1>1. CASE Opens
  <2>1. ServosTypes' /\ UNCHANGED <<channel, settings>>
    BY <1>1 DEF Opens, ServosTypes, FreshBattery
  <2>2. PulseOf(0)' = AngleApplied(ServoCenter)
    BY <2>1, CenterIsPulse, PulseStays
  <2>3. /\ pulse' = AngleApplied(ServoCenter) /\ last' = Of(0) /\ open' = TRUE
        /\ last = Unknown
    BY <1>1, OfIsKnown DEF Opens
  <2> QED BY <2>1, <2>2, <2>3, OfIsKnown
<1>2. CASE Commanded
  <2>1. UNCHANGED <<channel, settings, battery, open>> /\ open
    BY <1>2 DEF Commanded
  <2>2. ServosTypes' /\ \A c : PulseOf(c)' = PulseOf(c)
    BY <2>1, PulseStays DEF ServosTypes
  <2>3. \/ \E c \in Commands : pulse' = PulseOf(c) /\ last' = Of(c)
        \/ UNCHANGED <<pulse, last>>
    BY <1>2 DEF Commanded
  <2>4. CASE UNCHANGED <<pulse, last>>
    BY <2>1, <2>2, <2>4
  <2>5. ASSUME NEW c \in Commands, pulse' = PulseOf(c), last' = Of(c) PROVE ServosInv'
    <3>1. c \in Int
      BY DEF ServosAssumption
    <3> QED BY <2>1, <2>2, <2>5, <3>1, OfIsKnown
  <2> QED BY <2>1, <2>3, <2>4, <2>5
<1>3. CASE RawCommand
  <2>1. ServosTypes' /\ last' = Unknown /\ channel' = channel
    BY <1>3 DEF RawCommand, ServosTypes
  <2> QED BY <2>1, OfIsKnown
<1>4. CASE Recalibrated
  <2>1. PICK s \in SettingsOf(channel), move_to_center \in BOOLEAN :
          /\ open /\ settings' = s
          /\ IF move_to_center /\ channel # "throttle"
             THEN pulse' = PulseFor(ServoCenter + s.trim) /\ last' = Of(0)
             ELSE last' = Unknown /\ UNCHANGED pulse
          /\ UNCHANGED <<channel, battery, open>>
    BY <1>4 DEF Recalibrated
  <2>2. ServosTypes'
    BY <2>1 DEF ServosTypes, SettingsOf
  <2>3. CASE move_to_center /\ channel # "throttle"
    <3>1. AngleApplied(ServoCenter)' = PulseFor(ServoCenter + s.trim)
      <4>1. Limited(ServoCenter)' = ServoCenter
        <5>1. Limited(ServoCenter)' = Limited(ServoCenter)
          BY <2>1 DEF Limited, Within
        <5> QED BY <5>1, CenterIsPulse
      <4>2. Trimmed(ServoCenter)' = ServoCenter + s.trim
        BY <2>1, <4>1 DEF Trimmed
      <4> QED BY <2>1, <2>3, <4>2 DEF AngleApplied, PulseFor, OnGpio, Within, WholeDegrees
    <3>2. PulseOf(0)' = AngleApplied(ServoCenter)'
      <4>1. Within(0, -Reach[channel], Reach[channel])' = 0
        <5>1. Within(0, -Reach[channel], Reach[channel])'
                = Within(0, -Reach[channel], Reach[channel])
          BY <2>1 DEF Within
        <5> QED BY <5>1, CenterIsPulse
      <4>2. ServoCenter \in Int
        BY DEF ServosAssumption
      <4> QED BY <2>1, <2>3, <4>1, <4>2 DEF PulseOf
    <3> QED BY <2>1, <2>2, <2>3, <3>1, <3>2, OfIsKnown
  <2>4. CASE ~(move_to_center /\ channel # "throttle")
    BY <2>1, <2>2, <2>4, OfIsKnown
  <2> QED BY <2>1, <2>3, <2>4
<1>5. CASE BatteryRead
  <2>1. PICK v \in Voltages \ {0} :
          /\ open /\ battery'.voltage = v
          /\ last' = IF channel = "throttle" /\ v # battery.voltage THEN Unknown ELSE last
          /\ UNCHANGED <<channel, settings, open, pulse>>
    BY <1>5 DEF BatteryRead
  <2>2. ServosTypes'
    BY <2>1 DEF ServosTypes
  <2>3. CASE channel = "throttle" /\ v # battery.voltage
    BY <2>1, <2>2, <2>3, OfIsKnown
  <2>4. CASE ~(channel = "throttle" /\ v # battery.voltage)
    <3>1. \A c : PulseOf(c)' = PulseOf(c)
      BY <2>1, <2>4, PulseStays
    <3> QED BY <2>1, <2>2, <2>4, <3>1
  <2> QED BY <2>3, <2>4
<1>6. CASE Closes \/ ServosAbandoned
  <2>1. ServosTypes' /\ last' = Unknown /\ channel' = channel
    BY <1>6 DEF Closes, ServosAbandoned, ServosTypes
  <2> QED BY <2>1, OfIsKnown
<1>7. CASE UNCHANGED servosVars
  <2>1. UNCHANGED <<channel, settings, battery, open, pulse, last>>
    BY <1>7 DEF servosVars
  <2>2. ServosTypes' /\ \A c : PulseOf(c)' = PulseOf(c)
    BY <2>1, PulseStays DEF ServosTypes
  <2> QED BY <2>1, <2>2
<1> QED BY <1>1, <1>2, <1>3, <1>4, <1>5, <1>6, <1>7 DEF ServosNext

\* Two known commands with one calibration between them.
LEMMA ServosStepInOrder ==
  ASSUME ServosAssumption, SpeedIsFelt, ServosInv, [ServosNext]_servosVars
  PROVE  OrderIsKept
<1>1. ServosInv' /\ channel' = channel
  BY ServosStep
<1>2. CASE last.known /\ last'.known /\ settings' = settings
  <2>1. last # Unknown /\ last' # Unknown
    BY <1>2, OfIsKnown
  <2>2. PICK c \in Int : last = Of(c)
    BY <2>1 DEF ServosInv
  <2>3. PICK d \in Int : last' = Of(d)
    BY <1>1, <2>1 DEF ServosInv
  <2>4. pulse = PulseOf(c) /\ ServosTypes
    BY <2>2 DEF ServosInv
  <2>5. pulse' = PulseOf(d)
    <3>1. pulse' = PulseOf(d)'
      BY <1>1, <2>3 DEF ServosInv
    <3>2. PulseOf(d)' = PulseOf(d)
      BY <1>1, <1>2, <2>1, PulseStays, ServosStep
    <3> QED BY <3>1, <3>2
  <2>6. last.command = c /\ last'.command = d
    BY <2>2, <2>3, OfIsKnown
  <2> DEFINE bounded == channel = "throttle" \/ {c, d} \subseteq -Reach[channel] .. Reach[channel]
             atEnd == /\ channel = "throttle" /\ pulse \in {0, 2 * Duty * ServoCenter}
                      /\ pulse' = pulse
  <2>7. ASSUME bounded, Further(c, d) PROVE Sense * (pulse' - pulse) > 0 \/ atEnd
    BY <2>4, <2>5, <2>7, OneCommandFurther
  <2>8. ASSUME bounded, Further(d, c) PROVE Sense * (pulse' - pulse) < 0 \/ atEnd
    <3>1. {d, c} = {c, d}
      OBVIOUS
    <3> QED BY <2>4, <2>5, <2>8, <3>1, OneCommandFurther
  <2>9. ASSUME channel = "throttle", d = 0 PROVE pulse' = Duty * ServoCenter
    BY <2>4, <2>5, <2>9, CenterIsPulse
  <2> QED BY <2>6, <2>7, <2>8, <2>9 DEF OrderIsKept
<1>3. CASE ~(last.known /\ last'.known /\ settings' = settings)
  BY <1>3 DEF OrderIsKept
<1> QED BY <1>2, <1>3

\* Whatever the calibration, the mounting, the gain and the voltage, a larger command moves
\* a servo further in its sense, and a zero speed is neutral (apply_angle,
\* set_throttle_speed, set_pwm_servo).
THEOREM CommandsAlwaysKeepOrder == ServosSpec => CommandsKeepOrder
<1> USE ServosAssumption, SpeedIsFelt
<1>1. ServosInit => ServosInv
  BY OfIsKnown DEF ServosInit, ServosInv, ServosTypes, FreshBattery
<1>2. ServosInv /\ [ServosNext]_servosVars => ServosInv'
  BY ServosStep
<1>3. ServosInv /\ [ServosNext]_servosVars => [OrderIsKept]_servosVars
  BY ServosStepInOrder
<1> QED BY <1>1, <1>2, <1>3, PTL DEF ServosSpec, CommandsKeepOrder

-----------------------------------------------------------------------------
\* The shape of a scan

LEMMA GreatestOfSome ==
  ASSUME NEW n \in Nat, NEW T \in SUBSET (1 .. n), T # {}
  PROVE  \E x \in T : \A y \in T : y <= x
<1> DEFINE M == {n - x : x \in T}
<1>1. M \in SUBSET Nat /\ M # {}
  <2>1. \A x \in T : n - x \in Nat
    OBVIOUS
  <2> QED BY <2>1
<1>2. PICK l \in M : \A y \in M : l <= y
  <2> HIDE DEF M
  <2> QED BY <1>1, LeastNatural
<1>3. PICK x \in T : l = n - x
  OBVIOUS
<1>4. \A y \in T : n - x <= n - y
  BY <1>2, <1>3
<1> QED BY <1>4

\* The circle in halves, and the bins of it.
LEMMA CircleIsEven ==
  ASSUME ScanShapeAssumption, mounted \in Mounts
  PROVE  \E J \in Nat \ {0} :
           /\ Degrees = 2 * J
           /\ Circle \div 2 = J * Units /\ Circle = 2 * (J * Units)
           /\ Bins \div 2 = J * mounted.multiple /\ Bins = 2 * (J * mounted.multiple)
<1> DEFINE J == Degrees \div 2
           m == mounted.multiple
<1>1. m \in Nat \ {0} /\ Units \in Nat \ {0} /\ Degrees \in Nat \ {0, 1} /\ Degrees % 2 = 0
  BY DEF ScanShapeAssumption, Mounts
<1>2. J \in Nat \ {0} /\ Degrees = 2 * J
  BY <1>1
<1> HIDE DEF J, m
<1>3. ASSUME NEW f \in Nat \ {0}
      PROVE  Degrees * f = 2 * (J * f) /\ (Degrees * f) \div 2 = J * f
  <2> DEFINE x == J * f
  <2>1. (2 * J) * f = 2 * x /\ x \in Nat
    BY <1>2
  <2> HIDE DEF x
  <2>2. (2 * x) \div 2 = x
    BY <2>1
  <2> QED BY <1>2, <2>1, <2>2 DEF x
<1>4. /\ Circle = 2 * (J * Units) /\ Circle \div 2 = J * Units
      /\ Bins = 2 * (J * m) /\ Bins \div 2 = J * m
  BY <1>1, <1>3 DEF Circle, Bins, m
<1> QED BY <1>2, <1>4 DEF m

\* A distance counted round the circle is at most the one that is not.
LEMMA RoundTheCircle ==
  ASSUME NEW W \in Nat \ {0}, NEW x \in Int, NEW z \in {x, x - W}, NEW B \in Int,
         x <= B, -x <= B
  PROVE  LET d == z % W IN (IF d > W - d THEN W - d ELSE d) <= B
<1> DEFINE q == z \div W
           d == z % W
<1>1. /\ q \in Int /\ d \in 0 .. W - 1 /\ z = q * W + d
      /\ q * W <= z /\ z < q * W + W
  OBVIOUS
<1> HIDE DEF q, d
<1>2. ASSUME NEW n \in Int, NEW k \in Int, n <= k PROVE n * W <= k * W /\ n * W \in Int
  BY ProductGrows, <1>2
<1>3. (-1) * W = -W /\ (-2) * W = -(2 * W) /\ 0 * W = 0
  OBVIOUS
<1>4. d <= B \/ W - d <= B
  <2>1. CASE z = x /\ x >= 0
    <3>1. ~(q <= -1)
      BY <1>1, <1>2, <1>3, <2>1
    <3>2. 0 * W <= q * W
      BY <1>1, <1>2, <3>1
    <3> QED BY <1>1, <1>3, <2>1, <3>2
  <2>2. CASE z = x /\ x < 0
    <3>1. ~(0 <= q)
      BY <1>1, <1>2, <1>3, <2>2
    <3>2. q * W <= (-1) * W
      BY <1>1, <1>2, <3>1
    <3> QED BY <1>1, <1>3, <2>2, <3>2
  <2>3. CASE z = x - W /\ x >= 0
    <3>1. ~(q <= -2)
      BY <1>1, <1>2, <1>3, <2>3
    <3>2. (-1) * W <= q * W
      BY <1>1, <1>2, <3>1
    <3> QED BY <1>1, <1>3, <2>3, <3>2
  <2>4. CASE z = x - W /\ x < 0
    <3>1. ~(-1 <= q)
      BY <1>1, <1>2, <1>3, <2>4
    <3>2. q * W <= (-2) * W
      BY <1>1, <1>2, <3>1
    <3> QED BY <1>1, <1>3, <2>4, <3>2
  <2> QED BY <2>1, <2>2, <2>3, <2>4
<1>5. (IF d > W - d THEN W - d ELSE d) <= B
  BY <1>1, <1>4
<1> QED BY <1>5 DEF d

\* How far the bin is from the measurement, in angles times the bins of a degree: less
\* than a bin before it, and less than a degree after it.
LEMMA BinIsNear ==
  ASSUME ScanShapeAssumption, mounted \in Mounts, NEW node, node.angle \in 0 .. Circle - 1,
         NEW b \in FilledBins(node)
  PROVE  LET m == mounted.multiple IN
         /\ b \in 0 .. Bins - 1
         /\ -Units < b * Units - node.angle * m
         /\ b * Units - node.angle * m <= (m - 1) * Units
         /\ BinOf(node) \in FilledBins(node)
<1> DEFINE m == mounted.multiple
           am == node.angle * m
           q == am \div Units
<1>1. m \in Nat \ {0} /\ Units \in Nat \ {0} /\ Degrees \in Nat \ {0, 1}
  BY DEF ScanShapeAssumption, Mounts
<1>2. Circle \in Nat /\ Bins \in Nat /\ Circle = Degrees * Units /\ Bins = Degrees * m
  BY <1>1 DEF Circle, Bins
<1>3. /\ am \in Nat /\ am < Circle * m /\ Circle * m = Bins * Units
      /\ node.angle \in Nat
  <2>1. node.angle + 1 <= Circle /\ node.angle \in Nat
    BY <1>2
  <2>2. node.angle * m + 1 * m <= Circle * m /\ am \in Int
    BY <1>1, <1>2, <2>1, ProductGrows
  <2>3. am \in Nat
    BY <1>1, <2>1
  <2>4. 1 * m = m
    BY <1>1
  <2>5. Circle * m \in Int /\ Circle * m = Bins * Units
    <3>1. ASSUME NEW d \in Nat, NEW u \in Nat, NEW n \in Nat
          PROVE  (d * u) * n = (d * n) * u /\ (d * u) * n \in Int
      OBVIOUS
    <3> QED BY <1>1, <1>2, <3>1
  <2> QED BY <1>1, <2>1, <2>2, <2>3, <2>4, <2>5
<1>4. q \in Int /\ q * Units <= am /\ am < q * Units + Units
  <2> HIDE DEF am
  <2> QED BY <1>1, <1>3, DivBounds
<1>5. q >= 0
  <2> HIDE DEF am
  <2> QED BY <1>1, <1>3
<1> HIDE DEF am, q
<1>6. q < Bins
  <2>1. q * Units < Bins * Units
    BY <1>1, <1>2, <1>3, <1>4, DivBounds
  <2> QED BY <1>1, <1>2, <1>4, <2>1, Cancel
<1>7. BinOf(node) = q
  BY DEF BinOf, q, am, m
<1>8. PICK c \in q .. q + m - 1 : b = IF c < Bins THEN c ELSE Bins - 1
  BY <1>7 DEF FilledBins, m
<1>9. b \in q .. q + m - 1 /\ b \in 0 .. Bins - 1 /\ b \in Int
  BY <1>1, <1>2, <1>4, <1>5, <1>6, <1>8
<1>10. q * Units <= b * Units /\ b * Units <= q * Units + (m - 1) * Units
       /\ {q * Units, b * Units, (m - 1) * Units} \subseteq Int
  <2>1. q + 0 <= b /\ b + (1 - m) <= q /\ {q, b, 1 - m, 0} \subseteq Int /\ Units \in Nat
    BY <1>1, <1>4, <1>9
  <2>2. q * Units + 0 * Units <= b * Units /\ {q * Units, b * Units} \subseteq Int
    BY <2>1, ProductGrows
  <2>3. b * Units + (1 - m) * Units <= q * Units
    BY <2>1, ProductGrows
  <2>4. 0 * Units = 0 /\ (1 - m) * Units = -((m - 1) * Units) /\ (m - 1) * Units \in Int
    BY <1>1
  <2> QED BY <2>2, <2>3, <2>4
<1>11. -Units < b * Units - am /\ b * Units - am <= (m - 1) * Units
  BY <1>1, <1>3, <1>4, <1>10
<1>12. q \in FilledBins(node)
  <2>1. q \in q .. q + m - 1 /\ q = IF q < Bins THEN q ELSE Bins - 1
    BY <1>1, <1>4, <1>6
  <2> QED BY <1>7, <2>1 DEF FilledBins, m
<1> QED BY <1>7, <1>9, <1>11, <1>12 DEF am, m

\* What one step of the message and one of the lidar differ by adds up to y, which is
\* bounded, and in each half of the circle more closely.
LEMMA StepsDiffer ==
  ASSUME NEW J \in Nat \ {0}, NEW m \in Nat \ {0}, NEW U \in Nat \ {0},
         NEW a \in Nat, a < 2 * (J * U), NEW b \in Nat,
         -U < b * U - a * m, b * U - a * m <= (m - 1) * U
  PROVE  LET F == 2 * (J * m) - 1
             y == a * F - b * ((2 * J - 1) * U)
             T == (m - 1) * U
             JT == J * T
             JU == J * U IN
         /\ {y, T, JT, JU} \subseteq Int /\ 0 <= T /\ T <= JT /\ U <= JU
         /\ -(2 * JT - T) <= y /\ y <= 2 * JT + 2 * JU - U
         /\ b < J * m => y <= JT + 2 * JU - U
         /\ b >= J * m => y >= -JT
<1> DEFINE F == 2 * (J * m) - 1
           y == a * F - b * ((2 * J - 1) * U)
           T == (m - 1) * U
           JT == J * T
           JU == J * U
           e == b * U - a * m
           P == a * (m - 1)
           De == (2 * J - 1) * e
<1>1. {y, T, JT, JU, e, P, De, F, b * U, a * m} \subseteq Int
  OBVIOUS
<1>2. y = P - De
  OBVIOUS
<1>3. 0 <= T /\ T <= JT /\ U <= JU
  <2>1. ASSUME NEW x \in Nat PROVE x <= J * x
    <3>1. 1 * x <= J * x
      BY ProductGrows, 1 + 0 <= J
    <3> QED BY <3>1
  <2>2. T \in Nat
    <3>1. m - 1 \in Nat /\ U \in Nat
      OBVIOUS
    <3> QED BY <3>1
  <2> HIDE DEF T
  <2> QED BY <2>1, <2>2
<1>4. /\ De <= 2 * JT - T
      /\ -(2 * JU - U) <= De
  <2> DEFINE f == 2 * J - 1
  <2>1. f \in Nat /\ e + 0 <= T /\ -U + 0 <= e /\ -U \in Int
    BY <1>1
  <2>2. f * T = 2 * JT - T /\ f * (-U) = -(2 * JU - U)
    OBVIOUS
  <2>3. f * e = e * f /\ f * T = T * f /\ f * (-U) = (-U) * f
    BY <1>1, <2>1
  <2> HIDE DEF f, e, T, JT, JU
  <2>4. e * f <= T * f /\ (-U) * f <= e * f
    BY <1>1, <2>1, ProductGrows
  <2> QED BY <2>2, <2>3, <2>4 DEF f
<1>5. ASSUME NEW c \in Int, NEW d \in Int, c <= d
      PROVE  c * (m - 1) <= d * (m - 1) /\ {c * (m - 1), d * (m - 1)} \subseteq Int
  <2>1. m - 1 \in Nat /\ c + 0 <= d
    BY <1>5
  <2>2. c * (m - 1) + 0 * (m - 1) <= d * (m - 1)
    BY <2>1, ProductGrows
  <2>3. c * (m - 1) \in Int /\ d * (m - 1) \in Int /\ 0 * (m - 1) = 0
    BY <2>1
  <2> QED BY <2>2, <2>3
<1>6. /\ 0 * (m - 1) = 0 /\ (2 * JU) * (m - 1) = 2 * JT /\ JU * (m - 1) = JT
      /\ (JU - U) * (m - 1) = JT - T
  OBVIOUS
<1>7. 0 <= P /\ P <= 2 * JT
  BY <1>1, <1>5, <1>6
<1>8. b < J * m => P <= JT
  <2>1. SUFFICES ASSUME b < J * m PROVE P <= JT
    OBVIOUS
  <2>2. b * U + 1 * U <= (J * m) * U
    BY <2>1, ProductGrows, b + 1 <= J * m, J * m \in Int
  <2>3. (J * m) * U = JU * m /\ JU * m \in Int /\ 1 * U = U
    OBVIOUS
  <2>4. a * m < JU * m
    <3> HIDE DEF JU
    <3> QED BY <1>1, <2>2, <2>3
  <2>5. a < JU
    BY <1>1, <2>4, Cancel
  <2> QED BY <1>1, <1>5, <1>6, <2>5
<1>9. b >= J * m => JT - T <= P
  <2>1. SUFFICES ASSUME b >= J * m PROVE JT - T <= P
    OBVIOUS
  <2>2. (J * m) * U + 0 * U <= b * U
    BY <2>1, ProductGrows, J * m + 0 <= b, J * m \in Int
  <2>3. /\ (J * m) * U = JU * m /\ JU * m \in Int /\ 0 * U = 0
        /\ (JU - U) * m = JU * m - T - U
    OBVIOUS
  <2>4. (JU - U) * m < a * m
    <3> HIDE DEF JU
    <3>1. b * U - a * m <= T
      OBVIOUS
    <3> HIDE DEF T
    <3> QED BY <1>1, <2>2, <2>3, <3>1
  <2>5. JU - U < a
    BY <1>1, <2>4, Cancel
  <2> QED BY <1>1, <1>5, <1>6, <2>5
<1> HIDE DEF F, y, T, JT, JU, e, P, De
<1>10. /\ -(2 * JT - T) <= y /\ y <= 2 * JT + 2 * JU - U
       /\ b < J * m => y <= JT + 2 * JU - U
       /\ b >= J * m => y >= -JT
  BY <1>1, <1>2, <1>4, <1>7, <1>8, <1>9
<1> QED BY <1>1, <1>3, <1>10 DEF F, y, T, JT, JU

\* A bin that a measurement fills is shown near it, whichever way the lidar is mounted.
LEMMA ShownNearRoom ==
  ASSUME ScanShapeAssumption, mounted \in Mounts, NEW node, node.angle \in 0 .. Circle - 1,
         NEW b \in FilledBins(node)
  PROVE  Near(Shown(Index(b, Bins)), Room(node.angle))
<1> DEFINE m == mounted.multiple
           U == Units
           F == Fine
           a == node.angle
<1>1. m \in Nat \ {0} /\ U \in Nat \ {0}
  BY DEF ScanShapeAssumption, Mounts
<1>2. PICK J \in Nat \ {0} :
        /\ Degrees = 2 * J
        /\ Circle \div 2 = J * U /\ Circle = 2 * (J * U)
        /\ Bins \div 2 = J * m /\ Bins = 2 * (J * m)
  BY CircleIsEven
<1> DEFINE JU == J * U
           Jm == J * m
           T == (m - 1) * U
           JT == J * T
           g == (2 * J - 1) * U
           y == a * F - b * g
<1>3. /\ b \in 0 .. Bins - 1
      /\ -U < b * U - a * m /\ b * U - a * m <= (m - 1) * U
  BY BinIsNear
<1>4. a \in Nat /\ a < 2 * JU /\ b \in Nat /\ b < 2 * Jm /\ {JU, Jm, g} \subseteq Int
  <2>1. JU \in Nat /\ Jm \in Nat /\ g \in Int
    BY <1>1
  <2> HIDE DEF JU, Jm, g
  <2>2. Circle = 2 * JU /\ Bins = 2 * Jm
    BY <1>2 DEF JU, Jm
  <2> QED BY <1>3, <2>1, <2>2
<1>5. F = 2 * Jm - 1 /\ F \in Int /\ F >= 1
  <2>1. Jm \in Nat \ {0}
    BY <1>1
  <2> QED BY <1>2, <2>1 DEF Fine
<1>6. /\ {y, T, JT, JU} \subseteq Int /\ 0 <= T /\ T <= JT /\ U <= JU
      /\ -(2 * JT - T) <= y /\ y <= 2 * JT + 2 * JU - U
      /\ b < Jm => y <= JT + 2 * JU - U
      /\ b >= Jm => y >= -JT
  <2> DEFINE x == a * (2 * (J * m) - 1) - b * ((2 * J - 1) * U)
  <2>1. x = y
    BY <1>5
  <2>2. /\ {x, T, JT, JU} \subseteq Int /\ 0 <= T /\ T <= JT /\ U <= JU
        /\ -(2 * JT - T) <= x /\ x <= 2 * JT + 2 * JU - U
        /\ b < Jm => x <= JT + 2 * JU - U
        /\ b >= Jm => x >= -JT
    BY <1>1, <1>3, <1>4, StepsDiffer
  <2> HIDE DEF x, y, T, JT, JU
  <2> QED BY <2>1, <2>2
<1> DEFINE UF == U * F
           aF == a * F
           bg == b * g
           V == JU * F
           W == 2 * V
           h == Jm * g
<1>7. {UF, aF, bg, V, W, h, g, F, a, b} \subseteq Int
  BY <1>1, <1>4, <1>5
<1>8. UF = 2 * JT + 2 * JU - U /\ g * F = W - UF /\ h = V - JT
  BY <1>1, <1>5
<1>9. WholeCircle = W
  BY <1>2, <1>5 DEF WholeCircle
<1>10. W \in Nat \ {0}
  <2>1. JU \in Nat \ {0} /\ F \in Nat \ {0}
    BY <1>1, <1>5
  <2> HIDE DEF JU, F
  <2> QED BY <2>1
<1>11. 2 * Units * Fine = 2 * UF
  BY <1>1, <1>5
<1>12. ASSUME NEW k \in Int
       PROVE  Shown(k) = V - g * F + k * g /\ k * g \in Int
  <2>1. /\ (Circle \div 2) * Fine = V /\ Degrees - 1 = 2 * J - 1
    BY <1>2
  <2>2. k * (2 * J - 1) * U = k * g /\ k * g \in Int
    BY <1>1
  <2> QED BY <2>1, <2>2 DEF Shown
<1>13. /\ (F - b) * g = g * F - bg
       /\ (F - b - Jm) * g = g * F - bg - h /\ (F - b + Jm) * g = g * F - bg + h
       /\ (b - Jm) * g = bg - h /\ (b + Jm) * g = bg + h
  BY <1>4, <1>5
<1>14. /\ Room(a) = (IF mounted.inverted THEN aF - V ELSE V - aF)
                      + (IF mounted.flip_x_axis THEN V ELSE 0)
  <2>1. ((Circle \div 2) - a) * Fine = V - aF
    BY <1>2, <1>4, <1>5
  <2>2. (Circle \div 2) * Fine = V
    BY <1>2
  <2> QED BY <1>7, <2>1, <2>2 DEF Room
<1> DEFINE r == IF ~mounted.inverted THEN F - b ELSE b
           k == Index(b, Bins)
           z == Shown(k) - Room(a)
<1>15. k = IF ~mounted.flip_x_axis THEN r ELSE IF r >= Jm THEN r - Jm ELSE r + Jm
  BY <1>2, <1>5, <1>4 DEF Index
<1>16. r >= Jm <=> IF mounted.inverted THEN b >= Jm ELSE b < Jm
  BY <1>4, <1>5
<1> HIDE DEF F, JU, Jm, T, JT, g, y, UF, aF, bg, V, W, h, k, z
<1>17. y = aF - bg
  BY DEF y, aF, bg
<1>18. \E x \in Int : z \in {x, x - W} /\ x <= 2 * UF /\ -x <= 2 * UF
  <2>1. CASE ~mounted.inverted /\ ~mounted.flip_x_axis
    <3>1. z = y
      BY <1>4, <1>5, <1>7, <1>12, <1>13, <1>14, <1>15, <1>17, <2>1 DEF z
    <3> QED BY <1>1, <1>6, <1>7, <1>8, <3>1
  <2>2. CASE ~mounted.inverted /\ mounted.flip_x_axis /\ b < Jm
    <3>1. k = F - b - Jm
      BY <1>4, <1>5, <1>15, <1>16, <2>2
    <3>2. z = (y + JT) - W
      BY <1>4, <1>5, <1>6, <1>7, <1>8, <1>12, <1>13, <1>14, <1>17, <2>2, <3>1 DEF z, W
    <3> QED BY <1>1, <1>6, <1>7, <1>8, <3>2
  <2>3. CASE ~mounted.inverted /\ mounted.flip_x_axis /\ b >= Jm
    <3>1. k = F - b + Jm
      BY <1>4, <1>5, <1>15, <1>16, <2>3
    <3>2. z = y - JT
      BY <1>4, <1>5, <1>6, <1>7, <1>8, <1>12, <1>13, <1>14, <1>17, <2>3, <3>1 DEF z, W
    <3> QED BY <1>1, <1>6, <1>7, <1>8, <3>2
  <2>4. CASE mounted.inverted /\ ~mounted.flip_x_axis
    <3>1. z = UF - y
      BY <1>4, <1>5, <1>6, <1>7, <1>8, <1>12, <1>14, <1>15, <1>17, <2>4 DEF z, W, bg
    <3> QED BY <1>1, <1>6, <1>7, <1>8, <3>1
  <2>5. CASE mounted.inverted /\ mounted.flip_x_axis /\ b >= Jm
    <3>1. k = b - Jm
      BY <1>4, <1>5, <1>15, <1>16, <2>5
    <3>2. z = (UF - y + JT) - W
      BY <1>4, <1>5, <1>6, <1>7, <1>8, <1>12, <1>13, <1>14, <1>17, <2>5, <3>1 DEF z, W
    <3> QED BY <1>1, <1>6, <1>7, <1>8, <2>5, <3>2
  <2>6. CASE mounted.inverted /\ mounted.flip_x_axis /\ b < Jm
    <3>1. k = b + Jm
      BY <1>4, <1>5, <1>15, <1>16, <2>6
    <3>2. z = UF - y - JT
      BY <1>4, <1>5, <1>6, <1>7, <1>8, <1>12, <1>13, <1>14, <1>17, <2>6, <3>1 DEF z, W
    <3>3. y <= JT + 2 * JU - U
      BY <1>6, <2>6
    <3>4. 0 <= z /\ z <= 2 * UF
      BY <1>1, <1>6, <1>7, <1>8, <3>2, <3>3
    <3> QED BY <1>7, <3>2, <3>4, <1>6
  <2>7. mounted.inverted \in BOOLEAN /\ mounted.flip_x_axis \in BOOLEAN
    BY DEF Mounts
  <2> QED BY <1>4, <2>1, <2>2, <2>3, <2>4, <2>5, <2>6, <2>7
<1>19. LET d == z % W IN (IF d > W - d THEN W - d ELSE d) <= 2 * UF
  <2>1. 2 * UF \in Int
    BY <1>7
  <2> QED BY <1>10, <1>18, <2>1, RoundTheCircle
<1> QED BY <1>9, <1>11, <1>19 DEF Near, z, k, a

\* Every bin has an index of its own in the message.
LEMMA IndexIsOneToOne ==
  ASSUME ScanShapeAssumption, mounted \in Mounts, NEW b \in 0 .. Bins - 1
  PROVE  /\ Index(b, Bins) \in 0 .. Bins - 1
         /\ \A c \in 0 .. Bins - 1 : Index(c, Bins) = Index(b, Bins) => c = b
<1>1. PICK J \in Nat \ {0} : /\ Bins \div 2 = J * mounted.multiple
                             /\ Bins = 2 * (J * mounted.multiple)
  BY CircleIsEven
<1>2. mounted.multiple \in Nat \ {0}
  BY DEF ScanShapeAssumption, Mounts
<1> DEFINE j == J * mounted.multiple
<1>3. j \in Nat /\ Bins = 2 * j /\ Bins \div 2 = j
  BY <1>1, <1>2
<1> HIDE DEF j
<1> QED BY <1>3 DEF Index

\* So it shows each bin, and nothing else.
LEMMA MessageShowsBins ==
  ASSUME ScanShapeAssumption, mounted \in Mounts, NEW dist
  PROVE  LET M == Message(dist, Bins) IN
         /\ DOMAIN M = 0 .. Bins - 1
         /\ \A b \in 0 .. Bins - 1 :
              M[Index(b, Bins)] = IF dist[b] = 0 THEN Infinity ELSE dist[b]
         /\ \A k \in 0 .. Bins - 1 :
              M[k] = 0 \/ \E b \in 0 .. Bins - 1 : k = Index(b, Bins)
<1> DEFINE M == Message(dist, Bins)
           To(k) == {b \in 0 .. Bins - 1 : Index(b, Bins) = k}
           Best(k) == CHOOSE b \in To(k) : \A c \in To(k) : c <= b
<1>1. /\ DOMAIN M = 0 .. Bins - 1
      /\ \A k \in 0 .. Bins - 1 :
           M[k] = IF To(k) = {} THEN 0
                  ELSE IF dist[Best(k)] = 0 THEN Infinity ELSE dist[Best(k)]
  BY DEF Message
<1>2. ASSUME NEW b \in 0 .. Bins - 1
      PROVE  M[Index(b, Bins)] = IF dist[b] = 0 THEN Infinity ELSE dist[b]
  <2> DEFINE k == Index(b, Bins)
  <2>1. k \in 0 .. Bins - 1 /\ To(k) = {b}
    BY IndexIsOneToOne
  <2> HIDE DEF k, M, To
  <2>2. Best(k) = b
    BY <2>1
  <2>3. To(k) # {}
    BY <2>1
  <2> HIDE DEF Best
  <2>4. M[k] = IF dist[b] = 0 THEN Infinity ELSE dist[b]
    BY <1>1, <2>1, <2>2, <2>3
  <2> QED BY <2>4 DEF k
<1>3. ASSUME NEW k \in 0 .. Bins - 1, M[k] # 0
      PROVE  \E b \in 0 .. Bins - 1 : k = Index(b, Bins)
  <2>1. To(k) # {}
    <3> HIDE DEF M, To, Best
    <3> QED BY <1>1, <1>3
  <2> QED BY <2>1
<1> HIDE DEF M
<1>4. /\ DOMAIN M = 0 .. Bins - 1
      /\ \A b \in 0 .. Bins - 1 :
           M[Index(b, Bins)] = IF dist[b] = 0 THEN Infinity ELSE dist[b]
      /\ \A k \in 0 .. Bins - 1 :
           M[k] = 0 \/ \E b \in 0 .. Bins - 1 : k = Index(b, Bins)
  BY <1>1, <1>2, <1>3
<1> QED BY <1>4 DEF M

\* A turn: the angles are on the circle, 0 is no distance.
Readings == [angle : 0 .. Circle - 1, dist : Nat]

\* A bin has the distance of a measurement that fills it.
LEMMA BinsShowMeasurements ==
  ASSUME NEW n \in Nat, DOMAIN nodes = 1 .. n, \A i \in 1 .. n : nodes[i].dist \in Nat,
         NEW b \in 0 .. Bins - 1
  PROVE  \/ /\ Compensated[b] = 0
            /\ \A i \in Measured(nodes) : b \notin FilledBins(nodes[i])
         \/ \E i \in Measured(nodes) :
              /\ b \in FilledBins(nodes[i])
              /\ Compensated[b] = nodes[i].dist /\ nodes[i].dist > 0
<1> DEFINE in == {i \in Measured(nodes) : b \in FilledBins(nodes[i])}
           i == CHOOSE x \in in : \A y \in in : y <= x
<1>1. Compensated[b] = IF in = {} THEN 0 ELSE nodes[i].dist
  BY DEF Compensated
<1>2. in \in SUBSET (1 .. n)
  BY DEF Measured
<1>3. CASE in = {}
  BY <1>1, <1>3
<1>4. CASE in # {}
  <2>1. \E x \in in : \A y \in in : y <= x
    <3> HIDE DEF in
    <3> QED BY <1>2, <1>4, GreatestOfSome
  <2>2. i \in in
    <3> HIDE DEF in
    <3> QED BY <2>1
  <2> HIDE DEF i
  <2>3. i \in Measured(nodes) /\ b \in FilledBins(nodes[i])
    BY <2>2
  <2>4. nodes[i].dist > 0
    BY <2>3 DEF Measured
  <2>5. Compensated[b] = nodes[i].dist
    <3> HIDE DEF in
    <3> QED BY <1>1, <1>4
  <2> QED BY <2>3, <2>4, <2>5
<1> QED BY <1>3, <1>4

-----------------------------------------------------------------------------
\* Sorted, with angles for what has none, the nodes are still those that were measured.

SameMeasurements ==
  /\ \A i \in Measured(nodes) : \E j \in Measured(sweep) : nodes[i] = sweep[j]
  /\ \A j \in Measured(sweep) : \E i \in Measured(nodes) : nodes[i] = sweep[j]

ShapeInv ==
  /\ mounted \in Mounts
  /\ stage \in {"waiting", "grabbed", "ascended", "failed", "published"}
  /\ stage # "waiting" =>
       \E n \in Nat : /\ sweep \in [1 .. n -> Readings]
                      /\ DOMAIN nodes = 1 .. n /\ \A i \in 1 .. n : nodes[i].dist \in Nat
  /\ stage \in {"grabbed", "failed"} => nodes = sweep
  /\ stage = "failed" => Measured(sweep) = {}
  /\ stage = "ascended" => SameMeasurements
  /\ ScanShowsTheRoom

LEMMA ShapeInvInit == ShapeInit => ShapeInv
  BY DEF ShapeInit, ShapeInv, ScanShowsTheRoom

LEMMA GrabsATurn == ASSUME ScanShapeAssumption, ShapeInv, Grabs PROVE ShapeInv'
<1>1. PICK n \in 1 .. MaxCount :
        sweep' \in {t \in [1 .. n -> [angle : Angles, dist : 0 .. n]] :
                    \A i \in 1 .. n : t[i].dist \in {0, i}}
  BY DEF Grabs, Turns
<1>2. n \in Nat /\ Angles \subseteq 0 .. Circle - 1
  BY DEF ScanShapeAssumption
<1>3. 0 .. n \subseteq Nat
  BY <1>2
<1>4. sweep' \in [1 .. n -> Readings]
  BY <1>1, <1>2, <1>3 DEF Readings
<1>5. nodes' = sweep' /\ mounted' = mounted /\ stage' = "grabbed"
  BY DEF Grabs
<1>6. DOMAIN nodes' = 1 .. n /\ \A i \in 1 .. n : nodes'[i].dist \in Nat
  BY <1>4, <1>5 DEF Readings
<1>7. Readings' = Readings /\ Mounts' = Mounts
  BY DEF Readings, Mounts, Circle
<1> QED BY <1>2, <1>4, <1>5, <1>6, <1>7 DEF ShapeInv, ScanShowsTheRoom

\* Every node comes once in an order of them.
LEMMA OrdersReachAll ==
  ASSUME NEW n \in Nat, DOMAIN nodes = 1 .. n, NEW p \in Orders, NEW j \in 1 .. n
  PROVE  \E i \in 1 .. n : p[i] = j
<1>1. p \in Injection(1 .. n, 1 .. n)
  BY DEF Orders, Injection, IsInjective
<1>2. IsFiniteSet(1 .. n)
  BY FS_Interval
<1>3. p \in Surjection(1 .. n, 1 .. n)
  BY <1>1, <1>2, FS_Injection
<1> QED BY <1>3 DEF Surjection

LEMMA AscendsTheSame == ASSUME ShapeInv, Ascends PROVE ShapeInv'
<1>1. PICK n \in Nat : sweep \in [1 .. n -> Readings] /\ nodes = sweep
  BY DEF ShapeInv, Ascends
<1>2. sweep' = sweep /\ mounted' = mounted /\ stage' \in {"ascended", "failed"}
  BY DEF Ascends
<1>3. Readings' = Readings /\ Mounts' = Mounts
  BY DEF Readings, Mounts, Circle
<1>4. CASE Measured(nodes) = {}
  <2>1. stage' = "failed" /\ nodes' = nodes
    BY <1>4 DEF Ascends
  <2>2. Measured(sweep') = {} /\ DOMAIN nodes' = 1 .. n
        /\ \A i \in 1 .. n : nodes'[i].dist \in Nat
    BY <1>1, <1>2, <1>4, <2>1 DEF Readings
  <2> QED BY <1>1, <1>2, <1>3, <2>1, <2>2 DEF ShapeInv, ScanShowsTheRoom
<1>5. CASE Measured(nodes) # {}
  <2>1. stage' = "ascended"
        /\ \E p \in Orders : nodes' = [i \in DOMAIN nodes |-> Filled[p[i]]]
    BY <1>5 DEF Ascends
  <2>2. PICK p \in Orders : nodes' = [i \in 1 .. n |-> Filled[p[i]]]
    BY <1>1, <2>1
  <2>3. /\ DOMAIN nodes' = 1 .. n
        /\ \A i \in 1 .. n : p[i] \in 1 .. n /\ nodes'[i] = Filled[p[i]]
    BY <1>1, <2>2 DEF Orders
  <2>4. \A j \in 1 .. n : /\ Filled[j].dist = sweep[j].dist
                          /\ sweep[j].dist \in Nat
                          /\ sweep[j].dist # 0 => Filled[j] = sweep[j]
    BY <1>1 DEF Filled, Readings
  <2>5. \A i \in 1 .. n : /\ nodes'[i].dist = sweep[p[i]].dist /\ nodes'[i].dist \in Nat
                          /\ nodes'[i].dist # 0 => nodes'[i] = sweep[p[i]]
    BY <2>3, <2>4
  <2>6. /\ Measured(nodes') = {i \in 1 .. n : nodes'[i].dist # 0}
        /\ Measured(sweep') = {i \in 1 .. n : sweep[i].dist # 0}
    BY <1>1, <1>2, <2>3 DEF Measured
  <2>7. ASSUME NEW i \in Measured(nodes') PROVE \E j \in Measured(sweep') : nodes'[i] = sweep'[j]
    <3>1. p[i] \in 1 .. n /\ sweep[p[i]].dist # 0 /\ nodes'[i] = sweep[p[i]]
      BY <2>3, <2>5, <2>6
    <3> QED BY <1>2, <2>6, <3>1
  <2>8. ASSUME NEW j \in Measured(sweep') PROVE \E i \in Measured(nodes') : nodes'[i] = sweep'[j]
    <3>1. PICK i \in 1 .. n : p[i] = j
      BY <1>1, <2>6, OrdersReachAll
    <3> QED BY <1>2, <2>5, <2>6, <3>1
  <2>9. SameMeasurements'
    BY <2>7, <2>8 DEF SameMeasurements, Measured
  <2> QED BY <1>1, <1>2, <1>3, <2>1, <2>3, <2>5, <2>9 DEF ShapeInv, ScanShowsTheRoom
<1> QED BY <1>4, <1>5

\* What is published of sorted nodes shows the room.
LEMMA MessageShowsRoom ==
  ASSUME ScanShapeAssumption, mounted \in Mounts, NEW n \in Nat,
         sweep \in [1 .. n -> Readings],
         DOMAIN nodes = 1 .. n, \A i \in 1 .. n : nodes[i].dist \in Nat, SameMeasurements
  PROVE  LET M == Message(Compensated, Bins)
             shown == {k \in DOMAIN M : M[k] > 0} IN
         /\ \A k \in shown : \E i \in Measured(sweep) :
              M[k] = sweep[i].dist /\ Near(Shown(k), Room(sweep[i].angle))
         /\ \A i \in Measured(sweep) : \E k \in shown : Near(Shown(k), Room(sweep[i].angle))
<1> DEFINE M == Message(Compensated, Bins)
           shown == {k \in DOMAIN M : M[k] > 0}
<1>1. /\ DOMAIN M = 0 .. Bins - 1
      /\ \A b \in 0 .. Bins - 1 :
           M[Index(b, Bins)] = IF Compensated[b] = 0 THEN Infinity ELSE Compensated[b]
      /\ \A k \in 0 .. Bins - 1 :
           M[k] = 0 \/ \E b \in 0 .. Bins - 1 : k = Index(b, Bins)
  BY MessageShowsBins
<1>2. ASSUME NEW i \in Measured(nodes)
      PROVE  \E j \in Measured(sweep) : nodes[i] = sweep[j] /\ nodes[i].angle \in 0 .. Circle - 1
  BY DEF SameMeasurements, Measured, Readings
<1>3. ASSUME NEW k \in shown
      PROVE  \E i \in Measured(sweep) :
               M[k] = sweep[i].dist /\ Near(Shown(k), Room(sweep[i].angle))
  <2>1. k \in 0 .. Bins - 1 /\ M[k] > 0 /\ M[k] # 0
    <3> HIDE DEF M
    <3> QED BY <1>1
  <2>2. PICK b \in 0 .. Bins - 1 : k = Index(b, Bins)
    <3> HIDE DEF M
    <3> QED BY <1>1, <2>1
  <2>3. Compensated[b] # 0 /\ M[k] = Compensated[b]
    <3>1. ~(Infinity > 0)
      BY DEF Infinity
    <3> HIDE DEF M
    <3> QED BY <1>1, <2>1, <2>2, <3>1
  <2>4. PICK i \in Measured(nodes) :
          b \in FilledBins(nodes[i]) /\ Compensated[b] = nodes[i].dist
    BY <2>3, BinsShowMeasurements
  <2>5. PICK j \in Measured(sweep) :
          nodes[i] = sweep[j] /\ nodes[i].angle \in 0 .. Circle - 1
    BY <1>2
  <2>6. Near(Shown(k), Room(nodes[i].angle))
    BY <2>2, <2>4, <2>5, ShownNearRoom
  <2> QED BY <2>3, <2>4, <2>5, <2>6
<1>4. ASSUME NEW j \in Measured(sweep)
      PROVE  \E k \in shown : Near(Shown(k), Room(sweep[j].angle))
  <2>1. PICK i \in Measured(nodes) : nodes[i] = sweep[j]
    BY DEF SameMeasurements
  <2>2. nodes[i].angle \in 0 .. Circle - 1
    BY <1>2, <2>1
  <2> DEFINE b == BinOf(nodes[i])
             k == Index(b, Bins)
  <2>3. b \in FilledBins(nodes[i]) /\ b \in 0 .. Bins - 1
    <3>1. \E c \in FilledBins(nodes[i]) : TRUE
      <4>1. mounted.multiple \in Nat \ {0}
        BY DEF ScanShapeAssumption, Mounts
      <4>2. BinOf(nodes[i]) \in Int
        <5>1. nodes[i].angle * mounted.multiple \in Int /\ Units \in Nat \ {0}
          BY <2>2, <4>1 DEF ScanShapeAssumption
        <5> QED BY <5>1, DivBounds DEF BinOf
      <4>3. BinOf(nodes[i]) \in BinOf(nodes[i]) .. BinOf(nodes[i]) + mounted.multiple - 1
        BY <4>1, <4>2
      <4> QED BY <4>3 DEF FilledBins
    <3>2. b \in FilledBins(nodes[i])
      BY <2>2, <3>1, BinIsNear
    <3> QED BY <2>2, <3>2, BinIsNear
  <2> HIDE DEF b
  <2>4. Compensated[b] # 0 /\ Compensated[b] > 0
    <3>1. ~(\A x \in Measured(nodes) : b \notin FilledBins(nodes[x]))
      BY <2>3
    <3>2. \E x \in Measured(nodes) : Compensated[b] = nodes[x].dist /\ nodes[x].dist > 0
      BY <2>3, <3>1, BinsShowMeasurements, Zenon
    <3>3. \A x \in Measured(nodes) : nodes[x].dist \in Nat
      BY DEF Measured
    <3> QED BY <3>2, <3>3
  <2>5. k \in 0 .. Bins - 1
    BY <2>3, IndexIsOneToOne
  <2>6. M[k] = Compensated[b]
    <3> HIDE DEF M
    <3> QED BY <1>1, <2>3, <2>4
  <2>7. k \in shown
    <3> HIDE DEF M, k
    <3> QED BY <1>1, <2>4, <2>5, <2>6
  <2>8. Near(Shown(k), Room(nodes[i].angle))
    BY <2>2, <2>3, ShownNearRoom
  <2> QED BY <2>1, <2>7, <2>8
<1> HIDE DEF M
<1>5. /\ \A k \in shown : \E i \in Measured(sweep) :
           M[k] = sweep[i].dist /\ Near(Shown(k), Room(sweep[i].angle))
      /\ \A i \in Measured(sweep) : \E k \in shown : Near(Shown(k), Room(sweep[i].angle))
  BY <1>3, <1>4
<1> QED BY <1>5 DEF M

LEMMA PublishesTheRoom ==
  ASSUME ScanShapeAssumption, ShapeInv, PublishesScan PROVE ShapeInv'
<1>1. PICK n \in Nat :
        /\ sweep \in [1 .. n -> Readings]
        /\ DOMAIN nodes = 1 .. n /\ \A i \in 1 .. n : nodes[i].dist \in Nat
  BY DEF ShapeInv, PublishesScan
<1>2. /\ mounted' = mounted /\ sweep' = sweep /\ nodes' = nodes /\ stage' = "published"
      /\ mounted \in Mounts
  BY DEF PublishesScan, ShapeInv
<1> DEFINE shown == {k \in DOMAIN ranges' : ranges'[k] > 0}
<1>3. /\ \A k \in shown : \E i \in Measured(sweep) :
           ranges'[k] = sweep[i].dist /\ Near(Shown(k), Room(sweep[i].angle))
      /\ \A i \in Measured(sweep) : \E k \in shown : Near(Shown(k), Room(sweep[i].angle))
  <2>1. CASE stage = "ascended"
    <3>1. ranges' = Message(Compensated, Bins) /\ SameMeasurements
      BY <2>1 DEF PublishesScan, ShapeInv
    <3> QED BY <1>1, <1>2, <3>1, MessageShowsRoom
  <2>2. CASE stage = "failed"
    <3>1. Measured(sweep) = {} /\ nodes = sweep
      BY <2>2 DEF ShapeInv
    <3> DEFINE dist == [i \in 0 .. Len(nodes) - 1 |-> nodes[i + 1].dist]
    <3>2. ranges' = Message(dist, n)
      <4>1. Len(nodes) = n
        BY <1>1, <3>1
      <4> QED BY <2>2, <4>1 DEF PublishesScan
    <3>3. \A b \in 0 .. n - 1 : dist[b] = 0
      <4>1. Len(nodes) = n
        BY <1>1, <3>1
      <4>2. \A i \in 1 .. n : nodes[i].dist = 0
        BY <1>1, <3>1 DEF Measured
      <4> QED BY <1>1, <4>1, <4>2
    <3>4. \A k \in DOMAIN ranges' : ranges'[k] \in {0, Infinity}
      <4> HIDE DEF dist
      <4> DEFINE To(k) == {b \in 0 .. n - 1 : Index(b, n) = k}
      <4>1. ASSUME NEW k \in 0 .. n - 1, To(k) # {}
            PROVE  (CHOOSE b \in To(k) : \A c \in To(k) : c <= b) \in 0 .. n - 1
        <5>1. To(k) \in SUBSET (0 .. n - 1)
          OBVIOUS
        <5>2. \E b \in To(k) : \A c \in To(k) : c <= b
          <6> HIDE DEF To
          <6> DEFINE S == {b + 1 : b \in To(k)}
          <6>1. S \in SUBSET (1 .. n) /\ S # {}
            <7>1. \A b \in 0 .. n - 1 : b + 1 \in 1 .. n
              BY <1>1
            <7> QED BY <4>1, <5>1, <7>1
          <6>2. PICK x \in S : \A y \in S : y <= x
            <7> HIDE DEF S
            <7> QED BY <1>1, <6>1, GreatestOfSome
          <6>3. PICK b \in To(k) : x = b + 1
            OBVIOUS
          <6>4. \A c \in To(k) : c + 1 <= b + 1
            BY <6>2, <6>3
          <6> QED BY <5>1, <6>4
        <5> HIDE DEF To
        <5> QED BY <5>1, <5>2
      <4>2. \A k \in 0 .. n - 1 : Message(dist, n)[k] \in {0, Infinity}
        BY <3>3, <4>1 DEF Message
      <4>3. DOMAIN Message(dist, n) = 0 .. n - 1
        BY DEF Message
      <4> QED BY <3>2, <4>2, <4>3
    <3>5. shown = {}
      BY <3>4 DEF Infinity
    <3> QED BY <3>1, <3>5
  <2> QED BY <2>1, <2>2 DEF PublishesScan
<1>4. ScanShowsTheRoom'
  <2>1. \A k, x : Near(Shown(k), Room(x))' <=> Near(Shown(k), Room(x))
    BY <1>2 DEF Near, Shown, Room, WholeCircle, Fine, Bins, Circle
  <2> QED BY <1>2, <1>3, <2>1 DEF ScanShowsTheRoom, Measured
<1>5. Readings' = Readings /\ Mounts' = Mounts
  BY DEF Readings, Mounts, Circle
<1> QED BY <1>1, <1>2, <1>4, <1>5 DEF ShapeInv

LEMMA ShapeInvNext == ASSUME ScanShapeAssumption, ShapeInv, [ShapeNext]_shapeVars PROVE ShapeInv'
<1>1. CASE Grabs
  BY <1>1, GrabsATurn
<1>2. CASE Ascends
  BY <1>2, AscendsTheSame
<1>3. CASE PublishesScan
  BY <1>3, PublishesTheRoom
<1>4. CASE NextTurn
  BY <1>4 DEF NextTurn, ShapeInv, Mounts, ScanShowsTheRoom
<1>5. CASE UNCHANGED shapeVars
  <2>1. /\ mounted' = mounted /\ sweep' = sweep /\ nodes' = nodes /\ stage' = stage
        /\ ranges' = ranges
    BY <1>5 DEF shapeVars
  <2>2. \A k, x : Near(Shown(k), Room(x))' <=> Near(Shown(k), Room(x))
    BY <2>1 DEF Near, Shown, Room, WholeCircle, Fine, Bins, Circle
  <2>3. ScanShowsTheRoom'
    BY <2>1, <2>2 DEF ShapeInv, ScanShowsTheRoom, Measured
  <2> QED BY <2>1, <2>3
      DEF ShapeInv, SameMeasurements, Measured, Readings, Mounts, Circle
<1> QED BY <1>1, <1>2, <1>3, <1>4, <1>5 DEF ShapeNext

\* Whatever the widths of angles and bins and the mounting, a published scan shows every
\* measurement of the turn within two degrees, and nothing else (ascendScanData_, angle
\* compensation, publish_scan).
THEOREM ScanAlwaysShowsTheRoom == ShapeSpec => []ScanShowsTheRoom
<1>1. ShapeInv => ScanShowsTheRoom
  BY DEF ShapeInv
<1>2. ShapeInv /\ [ShapeNext]_shapeVars => ShapeInv'
  BY ShapeInvNext, ScanShapeAssumption
<1> QED BY <1>1, <1>2, ShapeInvInit, PTL DEF ShapeSpec
=============================================================================

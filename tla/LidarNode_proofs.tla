-------------------------- MODULE LidarNode_proofs --------------------------
(***************************************************************************)
(* The lidar node and the lidar agree, for every lidar and scan mode and   *)
(* any number of frames lost: what the node shows and publishes is what    *)
(* the motor and the laser do, whatever is asked of it.                    *)
(*                                                                         *)
(*   - The scripts of the calls keep their shape (NodeTypes, ScriptInv).   *)
(*   - What the node believes follows from how far a call got (FollowInv). *)
(*   - What the decoder and the answers' slot hold (DecInv).               *)
(*   - A late answer settles at most one question, and a start asks four   *)
(*     it cannot do without (CountInv, ClearInv, HolderInv).               *)
(***************************************************************************)
EXTENDS LidarNode, FiniteSetTheorems, WellFoundedInduction, SequenceTheorems, TLAPS

(* A set of numbers that is not empty has a least one: what an induction   *)
(* over the length of a list rests on here.                                *)
LEMMA LeastNatural ==
  ASSUME NEW T \in SUBSET Nat, T # {}
  PROVE  \E x \in T : \A y \in T : x <= y
<1>1. PICK x \in T : \A y \in T : ~(<<y, x>> \in OpToRel(<, Nat))
  BY NatLessThanWellFounded, WFMin
<1>2. \A y \in T : ~(y < x)
  BY <1>1 DEF OpToRel
<1> QED BY <1>2

-----------------------------------------------------------------------------
\* The calls of the lidar node

Questions == {"devinfo", "health", "conf", "flag", "rate"}
Motors    == {"none", "pwm", "rpm"}
Speeds    == {"off", "slow", "default", "tuned"}
Whats     == Questions \cup Speeds \cup {"stop", "scan", "holder", "channel"}
Dos       == {"ask", "tell", "dtr", "enable", "connect", "disconnect"}

\* The steps of the calls: questions, speeds, a stop, and the three that happen once.
Steps   == [do : Dos, what : Whats, fatal : BOOLEAN, drops : Nat, decides : Motors]
Asking  == {s \in Steps : s.do = "ask" /\ s.what \in Questions}
Driving == {s \in Steps : s.do \in {"tell", "dtr"} /\ s.what \in Speeds}
Halting == {s \in Steps : s.do = "tell" /\ s.what = "stop"}
Mundane == Asking \cup Driving \cup Halting

\* The questions a start cannot do without.
Crucial == {s \in Asking : s.fatal}
Where(s, D, S) == {i \in D : s[i] \in S}
Count(s, S) == Cardinality(Where(s, 1 .. Len(s), S))

\* How much of s goes on is not touched by what may be left out of it.
Guarded(s, n) ==
  \A i \in 1 .. n :
    ~s[i].fatal => i + s[i].drops <= n /\ \A k \in i .. i + s[i].drops : ~s[k].fatal

\* A part of a start that asks at least n crucial questions.
Prelude(s, n) == s \in Seq(Mundane) /\ Guarded(s, Len(s)) /\ Count(s, Crucial) >= n

LEMMA CountIsNatural ==
  ASSUME NEW S, NEW T, NEW s \in Seq(S)
  PROVE  /\ Count(s, T) \in Nat /\ Count(s, T) <= Len(s)
         /\ IsFiniteSet(Where(s, 1 .. Len(s), T))
<1>1. Len(s) \in Nat
  BY LenProperties
<1>2. IsFiniteSet(1 .. Len(s)) /\ Cardinality(1 .. Len(s)) = Len(s)
  <2>1. ASSUME NEW n \in Nat PROVE IsFiniteSet(1 .. n) /\ Cardinality(1 .. n) = n
    <3>1. IsFiniteSet(1 .. n) /\ Cardinality(1 .. n) = IF 1 > n THEN 0 ELSE n - 1 + 1
      BY FS_Interval
    <3> QED BY <3>1
  <2> QED BY <1>1, <2>1
<1> DEFINE I == {i \in 1 .. Len(s) : s[i] \in T}
<1>3. I \in SUBSET (1 .. Len(s))
  OBVIOUS
<1> HIDE DEF I
<1>4. IsFiniteSet(I) /\ Cardinality(I) <= Len(s) /\ Cardinality(I) \in Nat
  BY <1>2, <1>3, FS_Subset, FS_CardinalityType
<1> QED BY <1>1, <1>4 DEF I, Count, Where

\* The elements of two lists together.
LEMMA CountJoined ==
  ASSUME NEW S, NEW T, NEW s \in Seq(S), NEW t \in Seq(S)
  PROVE  Count(s \o t, T) = Count(s, T) + Count(t, T)
<1> DEFINE m == Len(s)
           n == Len(t)
           A == {i \in 1 .. m : s[i] \in T}
           B == {i \in 1 .. n : t[i] \in T}
           C == {i \in m + 1 .. m + n : t[i - m] \in T}
           f == [i \in B |-> i + m]
<1>1. m \in Nat /\ n \in Nat /\ Len(s \o t) = m + n
  BY LenProperties, ConcatProperties
<1>2. \A i \in 1 .. m + n : (s \o t)[i] = IF i <= m THEN s[i] ELSE t[i - m]
  BY ConcatProperties
<1>3. IsFiniteSet(A) /\ IsFiniteSet(B) /\ Cardinality(A) \in Nat /\ Cardinality(B) \in Nat
  <2>1. IsFiniteSet(A) /\ IsFiniteSet(B)
    BY CountIsNatural DEF Where
  <2> HIDE DEF A, B
  <2> QED BY <2>1, FS_CardinalityType
<1> HIDE DEF m, n
<1>4. f \in Bijection(B, C)
  <2>1. \A i \in B : i + m \in C /\ f[i] = i + m
    BY <1>1
  <2>2. f \in [B -> C]
    BY <2>1
  <2>3. \A i, k \in B : f[i] = f[k] => i = k
    BY <1>1, <2>1
  <2>4. \A c \in C : c - m \in B /\ f[c - m] = c
    BY <1>1, <2>1
  <2> HIDE DEF f, B, C
  <2> QED BY <2>2, <2>3, <2>4 DEF Bijection, Injection, IsInjective, Surjection
<1>5. IsFiniteSet(C) /\ Cardinality(C) = Cardinality(B)
  <2> HIDE DEF f, B, C
  <2> QED BY <1>3, <1>4, FS_Bijection DEF ExistsBijection
<1>6. A \cap C = {} /\ Cardinality({}) = 0
  BY <1>1, FS_EmptySet
<1>7. {i \in 1 .. m + n : (s \o t)[i] \in T} = A \cup C
  <2>1. ASSUME NEW i \in 1 .. m + n PROVE (s \o t)[i] \in T <=> i \in A \cup C
    BY <1>1, <1>2, <2>1
  <2>2. A \cup C \subseteq 1 .. m + n
    BY <1>1
  <2> QED BY <2>1, <2>2
<1>8. Cardinality(A \cup C) = Cardinality(A) + Cardinality(C)
  <2> HIDE DEF A, B, C
  <2>1. Cardinality(A \cup C) = Cardinality(A) + Cardinality(C) - Cardinality(A \cap C)
    BY <1>3, <1>5, FS_Union
  <2>2. Cardinality(A \cap C) = 0
    BY <1>6
  <2>3. Cardinality(A) \in Nat /\ Cardinality(C) \in Nat
    BY <1>3, <1>5
  <2> QED BY <2>1, <2>2, <2>3
<1> HIDE DEF A, B, C
<1>9. Count(s \o t, T) = Cardinality(A \cup C)
  BY <1>1, <1>7 DEF Count, Where
<1>10. Count(s, T) = Cardinality(A) /\ Count(t, T) = Cardinality(B)
  BY DEF Count, Where, A, B, m, n
<1> QED BY <1>5, <1>8, <1>9, <1>10

\* The elements of one list inside another.
LEMMA CountInjected ==
  ASSUME NEW T, NEW s, NEW t, NEW D, NEW E, IsFiniteSet(E), NEW e \in [D -> E],
         \A i, k \in D : e[i] = e[k] => i = k,
         \A i \in D : s[i] \in T => t[e[i]] \in T
  PROVE  /\ Cardinality(Where(s, D, T)) <= Cardinality(Where(t, E, T))
         /\ Cardinality(Where(s, D, T)) \in Nat /\ Cardinality(Where(t, E, T)) \in Nat
<1> USE DEF Where
<1> DEFINE A == Where(s, D, T)
           B == Where(t, E, T)
           f == [i \in A |-> e[i]]
<1>1. B \in SUBSET E
  OBVIOUS
<1>2. IsFiniteSet(B)
  <2> HIDE DEF B
  <2> QED BY <1>1, FS_Subset
<1>3. f \in [A -> B] /\ \A i, k \in A : f[i] = f[k] => i = k
  OBVIOUS
<1>4. f \in Injection(A, B)
  <2> HIDE DEF f, A, B
  <2> QED BY <1>3 DEF Injection, IsInjective
<1>5. Cardinality(A) <= Cardinality(B) /\ IsFiniteSet(A)
  <2> HIDE DEF f, A, B
  <2> QED BY <1>2, <1>4, FS_Injection
<1>6. Cardinality(A) \in Nat /\ Cardinality(B) \in Nat
  <2> HIDE DEF A, B
  <2> QED BY <1>2, <1>5, FS_CardinalityType
<1> QED BY <1>5, <1>6

LEMMA PreludesJoin ==
  ASSUME NEW m \in Nat, NEW n \in Nat, NEW s, NEW t, Prelude(s, m), Prelude(t, n)
  PROVE  Prelude(s \o t, m + n)
<1> DEFINE j == Len(s)
           k == Len(t)
<1>1. s \in Seq(Mundane) /\ t \in Seq(Mundane) /\ j \in Nat /\ k \in Nat
  BY LenProperties DEF Prelude
<1>2. /\ s \o t \in Seq(Mundane) /\ Len(s \o t) = j + k
      /\ \A i \in 1 .. j + k : (s \o t)[i] = IF i <= j THEN s[i] ELSE t[i - j]
  BY <1>1, ConcatProperties
<1>3. Count(s \o t, Crucial) >= m + n
  <2>1. Count(s \o t, Crucial) = Count(s, Crucial) + Count(t, Crucial)
    BY <1>1, CountJoined
  <2>2. Count(s, Crucial) \in Nat /\ Count(t, Crucial) \in Nat
    BY <1>1, CountIsNatural
  <2> QED BY <1>1, <2>1, <2>2 DEF Prelude
<1>4. Guarded(s, j) /\ Guarded(t, k)
  BY DEF Prelude
<1>5. \A i \in 1 .. j : s[i].drops \in Nat
  BY <1>1, ElementOfSeq DEF Mundane, Asking, Driving, Halting, Steps
<1>6. \A i \in 1 .. k : t[i].drops \in Nat
  BY <1>1, ElementOfSeq DEF Mundane, Asking, Driving, Halting, Steps
<1> HIDE DEF j, k
<1>7. ASSUME NEW i \in 1 .. j + k, ~(s \o t)[i].fatal
      PROVE  /\ i + (s \o t)[i].drops <= j + k
             /\ \A l \in i .. i + (s \o t)[i].drops : ~(s \o t)[l].fatal
  <2>1. CASE i <= j
    <3> DEFINE d == s[i].drops
    <3>1. i \in 1 .. j /\ (s \o t)[i] = s[i]
      BY <1>1, <1>2, <2>1
    <3>2. d \in Nat /\ i + d <= j /\ \A l \in i .. i + d : ~s[l].fatal
      BY <1>4, <1>5, <1>7, <3>1 DEF Guarded
    <3> HIDE DEF d
    <3>3. ASSUME NEW l \in i .. i + d PROVE (s \o t)[l] = s[l]
      <4>1. l \in 1 .. j + k /\ l <= j
        BY <1>1, <3>1, <3>2
      <4> QED BY <1>2, <4>1
    <3>4. i + d <= j + k
      BY <1>1, <3>1, <3>2
    <3> QED BY <3>1, <3>2, <3>3, <3>4 DEF d
  <2>2. CASE ~(i <= j)
    <3>1. i - j \in 1 .. k /\ (s \o t)[i] = t[i - j]
      <4>1. i - j \in 1 .. k
        BY <1>1, <2>2
      <4> QED BY <1>2, <2>2, <4>1
    <3> DEFINE d == t[i - j].drops
    <3>2. (i - j) + d <= k /\ \A l \in i - j .. (i - j) + d : ~t[l].fatal
      BY <1>4, <1>7, <3>1 DEF Guarded
    <3>3. d \in Nat
      BY <1>6, <3>1
    <3> HIDE DEF d
    <3>4. ASSUME NEW l \in i .. i + d PROVE (s \o t)[l] = t[l - j] /\ l - j \in i - j .. (i - j) + d
      <4>1. l \in Int /\ i <= l /\ l <= i + d /\ i \in Int /\ 1 <= i /\ j < i
        BY <1>1, <2>2, <3>3
      <4>2. l \in 1 .. j + k /\ ~(l <= j)
        BY <1>1, <3>2, <3>3, <4>1
      <4>3. l - j \in i - j .. (i - j) + d
        BY <1>1, <3>3, <4>1
      <4> QED BY <1>2, <4>2, <4>3
    <3>5. i + d <= j + k
      BY <1>1, <3>2, <3>3
    <3> QED BY <3>1, <3>2, <3>4, <3>5 DEF d
  <2> QED BY <2>1, <2>2
<1>8. Guarded(s \o t, Len(s \o t))
  BY <1>2, <1>7 DEF Guarded
<1> QED BY <1>2, <1>3, <1>8 DEF Prelude

LEMMA PreludeWeaker ==
  ASSUME NEW m \in Nat, NEW n \in Nat, m <= n, NEW s, Prelude(s, n) PROVE Prelude(s, m)
<1>1. Count(s, Crucial) \in Nat
  BY CountIsNatural DEF Prelude
<1> QED BY <1>1 DEF Prelude

LEMMA EmptyIsPrelude == Prelude(<< >>, 0)
<1>1. << >> \in Seq(Mundane) /\ Len(<< >>) = 0
  BY EmptySeq
<1>2. Count(<< >>, Crucial) \in Nat
  BY <1>1, CountIsNatural
<1> QED BY <1>1, <1>2 DEF Prelude, Guarded

\* What may fail takes no more with it than the call it is in.
LEMMA ToleratedIsPrelude ==
  ASSUME NEW n, NEW s, Prelude(s, n) PROVE Prelude(Tolerated(s), 0)
<1>1. s \in Seq(Mundane) /\ Len(s) \in Nat /\ DOMAIN s = 1 .. Len(s)
  BY LenProperties DEF Prelude
<1> DEFINE k == Len(s)
           e(i) == IF s[i].fatal THEN [s[i] EXCEPT !.fatal = FALSE, !.drops = k - i] ELSE s[i]
<1>2. ASSUME NEW i \in 1 .. k
      PROVE  e(i) \in Mundane /\ ~e(i).fatal /\ e(i).drops \in Nat /\ i + e(i).drops <= k
  <2>1. s[i] \in Mundane
    BY <1>1, ElementOfSeq
  <2>2. s[i] \in Steps /\ k - i \in Nat
    BY <1>1, <2>1 DEF Mundane, Asking, Driving, Halting
  <2>3. CASE s[i].fatal
    <3>1. e(i) = [s[i] EXCEPT !.fatal = FALSE, !.drops = k - i]
      BY <2>3
    <3>2. /\ e(i) \in Steps /\ e(i).do = s[i].do /\ e(i).what = s[i].what
          /\ e(i).fatal = FALSE /\ e(i).drops = k - i
      BY <2>2, <3>1 DEF Steps
    <3> HIDE DEF e
    <3>3. e(i) \in Mundane
      BY <2>1, <3>2 DEF Mundane, Asking, Driving, Halting
    <3> QED BY <1>1, <2>2, <3>2, <3>3
  <2>4. CASE ~s[i].fatal
    <3>1. e(i) = s[i]
      BY <2>4
    <3>2. i + s[i].drops <= k
      BY <2>4 DEF Prelude, Guarded
    <3> QED BY <2>1, <2>2, <2>4, <3>1, <3>2 DEF Steps
  <2> QED BY <2>3, <2>4
<1>3. Tolerated(s) = [i \in 1 .. k |-> e(i)]
  BY <1>1 DEF Tolerated
<1> HIDE DEF e
<1>4. Tolerated(s) \in Seq(Mundane) /\ Len(Tolerated(s)) = k
  BY <1>1, <1>2, <1>3
<1>5. \A i \in 1 .. k : ~Tolerated(s)[i].fatal /\ i + Tolerated(s)[i].drops <= k
                        /\ Tolerated(s)[i].drops \in Nat
  BY <1>2, <1>3
<1>6. Count(Tolerated(s), Crucial) \in Nat
  BY <1>4, CountIsNatural
<1>7. Guarded(Tolerated(s), k)
  BY <1>1, <1>5 DEF Guarded
<1> QED BY <1>4, <1>6, <1>7 DEF Prelude

LEMMA StepIsPrelude ==
  ASSUME NEW s \in Mundane, s.fatal
  PROVE  Prelude(<<s>>, 0) /\ (s \in Crucial => Prelude(<<s>>, 1))
<1>1. <<s>> \in Seq(Mundane) /\ Len(<<s>>) = 1 /\ <<s>>[1] = s
  OBVIOUS
<1>2. Count(<<s>>, Crucial) \in Nat
  BY <1>1, CountIsNatural
<1>3. Guarded(<<s>>, 1)
  BY <1>1 DEF Guarded
<1>4. ASSUME s \in Crucial PROVE Count(<<s>>, Crucial) = 1
  <2>1. Where(<<s>>, 1 .. 1, Crucial) = {1}
    BY <1>1, <1>4 DEF Where
  <2>2. Cardinality({1}) = 1
    BY FS_Singleton
  <2> QED BY <1>1, <2>1, <2>2 DEF Count
<1> QED BY <1>1, <1>2, <1>3, <1>4 DEF Prelude

\* The parts of the calls.

LEMMA Taken ==
  ASSUME NEW do \in Dos, NEW what \in Whats PROVE Take(do, what) \in Steps
  BY DEF Take, Steps, Motors

LEMMA QuestionIsPrelude == ASSUME NEW q \in Questions PROVE Prelude(<<Ask(q)>>, 1)
<1>1. Ask(q) \in Crucial
  BY Taken DEF Dos, Whats, Crucial, Asking, Ask, Take
<1>2. Ask(q) \in Mundane /\ Ask(q).fatal
  BY <1>1 DEF Crucial, Mundane
<1> QED BY <1>1, <1>2, StepIsPrelude

LEMMA OrderIsPrelude ==
  ASSUME NEW c \in Speeds
  PROVE  /\ Prelude(<<Order(c)>>, 0) /\ Prelude(<<Take("dtr", c)>>, 0)
         /\ Prelude(<<Order("stop")>>, 0)
<1>1. Order(c) \in Mundane /\ Order(c).fatal
  BY Taken DEF Dos, Whats, Mundane, Driving, Order, Take
<1>2. Take("dtr", c) \in Mundane /\ Take("dtr", c).fatal
  BY Taken DEF Dos, Whats, Mundane, Driving, Take
<1>3. Order("stop") \in Mundane /\ Order("stop").fatal
  BY Taken DEF Dos, Whats, Mundane, Halting, Order, Take
<1> QED BY <1>1, <1>2, <1>3, StepIsPrelude

LEMMA ConfIsPrelude ==
  /\ Prelude(GetDeviceInfo, 1) /\ Prelude(GetLidarConf, 1) /\ Prelude(CheckSupportConfigCommands, 1)
  /\ Prelude(Tolerated(GetLidarConf), 0)
<1>1. Prelude(GetDeviceInfo, 1) /\ Prelude(GetLidarConf, 1)
  BY QuestionIsPrelude DEF Questions, GetDeviceInfo, GetLidarConf
<1>2. Prelude(Tolerated(GetLidarConf), 0)
  BY <1>1, ToleratedIsPrelude
<1> QED BY <1>1, <1>2 DEF CheckSupportConfigCommands

LEMMA SpeedIsPrelude ==
  ASSUME NEW support, NEW c \in Speeds
  PROVE  Prelude(SetMotorSpeed(support, c), 0) /\ Prelude(Tolerated(SetMotorSpeed(support, c)), 0)
<1> DEFINE a == IF c = "default" THEN Tolerated(GetLidarConf) ELSE << >>
           b == <<IF support = "none" THEN Take("dtr", c) ELSE Order(c)>>
<1>1. Prelude(a, 0)
  BY ConfIsPrelude, EmptyIsPrelude
<1>2. Prelude(b, 0)
  BY OrderIsPrelude
<1> HIDE DEF a, b
<1>3. Prelude(a \o b, 0)
  <2>1. Prelude(a \o b, 0 + 0)
    BY <1>1, <1>2, PreludesJoin
  <2> QED BY <2>1
<1>4. Prelude(SetMotorSpeed(support, c), 0)
  BY <1>3 DEF SetMotorSpeed, a, b
<1> QED BY <1>4, ToleratedIsPrelude

LEMMA StopIsPrelude ==
  ASSUME NEW support
  PROVE  Prelude(StopCall(support), 0) /\ Prelude(Tolerated(StopCall(support)), 0)
<1> DEFINE a == <<Order("stop")>>
           b == IF support = "pwm" THEN Tolerated(SetMotorSpeed(support, "off")) ELSE << >>
<1>1. Prelude(a, 0)
  BY OrderIsPrelude DEF Speeds
<1>2. Prelude(b, 0)
  BY SpeedIsPrelude, EmptyIsPrelude DEF Speeds
<1> HIDE DEF a, b
<1>3. Prelude(a \o b, 0 + 0)
  BY <1>1, <1>2, PreludesJoin
<1>4. Prelude(StopCall(support), 0)
  BY <1>3 DEF StopCall, a, b
<1> QED BY <1>4, ToleratedIsPrelude

LEMMA InfoIsPrelude == Prelude(ScanModeInfo, 4) /\ Prelude(GetLegacySampleDuration, 2)
<1> DEFINE c == GetLidarConf
<1>1. Prelude(c, 1)
  BY ConfIsPrelude
<1> HIDE DEF c
<1>2. Prelude(c \o c, 1 + 1)
  BY <1>1, PreludesJoin
<1>3. Prelude((c \o c) \o c, (1 + 1) + 1)
  BY <1>1, <1>2, PreludesJoin
<1>4. Prelude(((c \o c) \o c) \o c, ((1 + 1) + 1) + 1)
  BY <1>1, <1>3, PreludesJoin
<1>5. Prelude(ScanModeInfo, 4)
  BY <1>4 DEF ScanModeInfo, c
<1>6. Prelude(<<Ask("rate")>>, 1)
  BY QuestionIsPrelude DEF Questions
<1>7. Prelude(GetDeviceInfo \o <<Ask("rate")>>, 1 + 1)
  BY <1>6, ConfIsPrelude, PreludesJoin
<1> QED BY <1>5, <1>7 DEF GetLegacySampleDuration

\* The shape of what is left of a start: at last the motor, the holder and the command.
ScanStep   == Order("scan")
EnableStep == Take("enable", "holder")
StartMotors == {s \in Driving : s.what = "default" /\ ~s.fatal /\ s.drops = 0}

StartRest(s) ==
  LET n == Len(s) IN
  /\ s \in Seq(Steps)
  /\ n >= 1 => s[n] = ScanStep
  /\ n >= 2 => s[n - 1] = EnableStep
  /\ n >= 3 => s[n - 2] \in StartMotors
  /\ \A i \in 1 .. n - 3 : s[i] \in Mundane
  /\ Guarded(s, n - 3)

\* A whole one, of which n questions are crucial.
Starting(s, n) == StartRest(s) /\ Len(s) >= 3 /\ Count(s, Crucial) >= n

LEMMA StartExtended ==
  ASSUME NEW m \in Nat, NEW n \in Nat, NEW p, NEW s, Prelude(p, m), Starting(s, n)
  PROVE  Starting(p \o s, m + n)
<1> DEFINE j == Len(p)
           k == Len(s)
           t == p \o s
<1>1. p \in Seq(Mundane) /\ p \in Seq(Steps) /\ s \in Seq(Steps) /\ j \in Nat /\ k \in Nat /\ k >= 3
  <2>1. p \in Seq(Mundane) /\ Mundane \subseteq Steps
    BY DEF Prelude, Mundane, Asking, Driving, Halting
  <2>2. p \in Seq(Steps)
    BY <2>1, SeqMonotonic
  <2> QED BY <2>1, <2>2, LenProperties DEF Starting, StartRest
<1>2. /\ t \in Seq(Steps) /\ Len(t) = j + k
      /\ \A i \in 1 .. j + k : t[i] = IF i <= j THEN p[i] ELSE s[i - j]
  BY <1>1, ConcatProperties
<1>3. Count(t, Crucial) >= m + n
  <2>1. Count(t, Crucial) = Count(p, Crucial) + Count(s, Crucial)
    BY <1>1, CountJoined
  <2>2. Count(p, Crucial) \in Nat /\ Count(s, Crucial) \in Nat
    BY <1>1, CountIsNatural
  <2> QED BY <1>1, <2>1, <2>2 DEF Prelude, Starting
<1>4. Guarded(p, j) /\ Guarded(s, k - 3)
  BY DEF Prelude, Starting, StartRest
<1>5. \A i \in 1 .. j : p[i] \in Mundane /\ p[i].drops \in Nat
  BY <1>1, ElementOfSeq DEF Mundane, Asking, Driving, Halting, Steps
<1>6. \A i \in 1 .. k : s[i].drops \in Nat
  <2>1. \A i \in 1 .. k : s[i] \in Steps
    BY <1>1, ElementOfSeq
  <2> QED BY <2>1 DEF Steps
<1>7. /\ s[k] = ScanStep /\ s[k - 1] = EnableStep /\ s[k - 2] \in StartMotors
      /\ \A i \in 1 .. k - 3 : s[i] \in Mundane
  BY <1>1 DEF Starting, StartRest
<1> HIDE DEF j, k, t
<1>8. t[j + k] = ScanStep /\ t[j + k - 1] = EnableStep /\ t[j + k - 2] \in StartMotors
  <2>1. /\ j + k \in 1 .. j + k /\ j + k - 1 \in 1 .. j + k /\ j + k - 2 \in 1 .. j + k
        /\ ~(j + k <= j) /\ ~(j + k - 1 <= j) /\ ~(j + k - 2 <= j)
        /\ (j + k) - j = k /\ (j + k - 1) - j = k - 1 /\ (j + k - 2) - j = k - 2
    BY <1>1
  <2> QED BY <1>2, <1>7, <2>1
<1>9. ASSUME NEW i \in 1 .. j + k - 3
      PROVE  /\ t[i] \in Mundane
             /\ ~t[i].fatal => /\ i + t[i].drops <= j + k - 3
                               /\ \A l \in i .. i + t[i].drops : ~t[l].fatal
  <2>1. CASE i <= j
    <3> DEFINE d == p[i].drops
    <3>1. i \in 1 .. j /\ t[i] = p[i] /\ d \in Nat
      <4>1. i \in 1 .. j /\ i \in 1 .. j + k
        BY <1>1, <2>1
      <4> QED BY <1>2, <1>5, <2>1, <4>1
    <3>2. CASE p[i].fatal
      BY <1>5, <3>1, <3>2
    <3>3. CASE ~p[i].fatal
      <4>1. i + d <= j /\ \A l \in i .. i + d : ~p[l].fatal
        BY <1>4, <3>1, <3>3 DEF Guarded
      <4> HIDE DEF d
      <4>2. ASSUME NEW l \in i .. i + d PROVE t[l] = p[l]
        <5>1. l \in 1 .. j + k /\ l <= j
          BY <1>1, <3>1, <4>1
        <5> QED BY <1>2, <5>1
      <4>3. i + d <= j + k - 3
        BY <1>1, <3>1, <4>1
      <4> QED BY <1>5, <3>1, <4>1, <4>2, <4>3 DEF d
    <3> QED BY <3>2, <3>3
  <2>2. CASE ~(i <= j)
    <3> DEFINE d == s[i - j].drops
    <3>1. i - j \in 1 .. k - 3 /\ t[i] = s[i - j] /\ d \in Nat
      <4>1. i - j \in 1 .. k - 3 /\ i \in 1 .. j + k /\ i - j \in 1 .. k
        BY <1>1, <2>2
      <4> QED BY <1>2, <1>6, <2>2, <4>1
    <3>2. CASE s[i - j].fatal
      BY <1>7, <3>1, <3>2
    <3>3. CASE ~s[i - j].fatal
      <4>1. (i - j) + d <= k - 3 /\ \A l \in i - j .. (i - j) + d : ~s[l].fatal
        BY <1>4, <3>1, <3>3 DEF Guarded
      <4> HIDE DEF d
      <4>2. ASSUME NEW l \in i .. i + d PROVE t[l] = s[l - j] /\ l - j \in i - j .. (i - j) + d
        <5>1. l \in Int /\ i <= l /\ l <= i + d /\ i \in Int /\ 1 <= i /\ j < i
          BY <1>1, <2>2, <3>1
        <5>2. l \in 1 .. j + k /\ ~(l <= j)
          BY <1>1, <3>1, <4>1, <5>1
        <5>3. l - j \in i - j .. (i - j) + d
          BY <1>1, <3>1, <5>1
        <5> QED BY <1>2, <5>2, <5>3
      <4>3. i + d <= j + k - 3
        BY <1>1, <3>1, <4>1
      <4> QED BY <1>7, <3>1, <4>1, <4>2, <4>3 DEF d
    <3> QED BY <3>2, <3>3
  <2> QED BY <2>1, <2>2
<1>10. StartRest(t)
  <2>1. Guarded(t, j + k - 3)
    BY <1>9 DEF Guarded
  <2> DEFINE z == Len(t)
  <2>2. z = j + k
    BY <1>2
  <2> HIDE DEF z
  <2>3. t[z] = ScanStep /\ t[z - 1] = EnableStep /\ t[z - 2] \in StartMotors
    BY <1>1, <1>8, <2>2
  <2>4. \A i \in 1 .. z - 3 : t[i] \in Mundane
    BY <1>1, <1>9, <2>2
  <2>5. Guarded(t, z - 3)
    BY <1>1, <2>1, <2>2
  <2> QED BY <1>2, <2>3, <2>4, <2>5 DEF StartRest, z
<1>11. Len(t) >= 3
  BY <1>1, <1>2
<1> QED BY <1>3, <1>10, <1>11 DEF Starting, t

LEMMA StartWeaker ==
  ASSUME NEW m \in Nat, NEW n \in Nat, m <= n, NEW s, Starting(s, n) PROVE Starting(s, m)
<1>1. s \in Seq(Steps)
  BY DEF Starting, StartRest
<1>2. Count(s, Crucial) \in Nat
  BY <1>1, CountIsNatural
<1> QED BY <1>2 DEF Starting

(* The questions about all the scan modes: the lists for up to so many     *)
(* modes exist, and there is no smallest number for which the list is not  *)
(* a part of a start.                                                      *)
LEMMA ModesArePrelude == Prelude(InfoOfModes[Modes], 0)
<1> USE CallAssumption
<1> DEFINE L == {s \in Seq(Mundane) : Prelude(s, 0)}
           Info(m, f) == f = [i \in 0 .. m |-> IF i = 0 THEN << >> ELSE ScanModeInfo \o f[i - 1]]
           T == {m \in 0 .. Modes : ~ \E f \in [0 .. m -> L] : Info(m, f)}
<1>1. ASSUME NEW s \in L PROVE ScanModeInfo \o s \in L
  <2>1. Prelude(ScanModeInfo, 4) /\ Prelude(s, 0)
    BY InfoIsPrelude
  <2>2. Prelude(ScanModeInfo \o s, 4 + 0)
    BY <2>1, PreludesJoin
  <2>3. Prelude(ScanModeInfo \o s, 0)
    BY <2>2, PreludeWeaker
  <2> QED BY <2>3 DEF Prelude
<1>2. << >> \in L
  BY EmptyIsPrelude DEF Prelude
<1> HIDE DEF L
<1>3. T = {}
  <2> SUFFICES ASSUME T # {} PROVE FALSE
    OBVIOUS
  <2>1. T \in SUBSET Nat
    OBVIOUS
  <2>2. PICK m \in T : \A k \in T : m <= k
    <3> HIDE DEF T
    <3> QED BY <2>1, LeastNatural
  <2>3. m \in 0 .. Modes /\ ~ \E f \in [0 .. m -> L] : Info(m, f)
    BY <2>2
  <2>4. CASE m = 0
    <3> DEFINE g == [i \in 0 .. 0 |-> << >>]
    <3>1. /\ g \in [0 .. 0 -> L]
          /\ g = [i \in 0 .. 0 |-> IF i = 0 THEN << >> ELSE ScanModeInfo \o g[i - 1]]
      BY <1>2
    <3> QED BY <2>3, <2>4, <3>1
  <2>5. CASE m # 0
    <3>1. m - 1 \in 0 .. Modes /\ m - 1 \notin T
      <4>1. m - 1 \in 0 .. Modes /\ ~(m <= m - 1)
        BY <2>3, <2>5
      <4> HIDE DEF T
      <4> QED BY <2>2, <4>1
    <3>2. PICK f \in [0 .. (m - 1) -> L] : Info(m - 1, f)
      BY <3>1
    <3> DEFINE g == [i \in 0 .. m |-> IF i = m THEN ScanModeInfo \o f[m - 1] ELSE f[i]]
    <3>3. m \in 1 .. Modes /\ m \in Nat /\ m - 1 \in 0 .. (m - 1)
      BY <2>3, <2>5
    <3>4. ScanModeInfo \o f[m - 1] \in L
      BY <1>1, <3>3
    <3>5. g \in [0 .. m -> L]
      BY <3>3, <3>4
    <3>6. ASSUME NEW i \in 0 .. m PROVE g[i] = IF i = 0 THEN << >> ELSE ScanModeInfo \o g[i - 1]
      <4>1. CASE i = m
        <5>1. g[i] = ScanModeInfo \o f[m - 1] /\ g[m - 1] = f[m - 1] /\ i # 0
          BY <3>3, <4>1
        <5> HIDE DEF g
        <5> QED BY <4>1, <5>1
      <4>2. CASE i # m
        <5>1. i \in 0 .. (m - 1) /\ (i # 0 => i - 1 \in 0 .. m /\ i - 1 # m)
          BY <3>3, <4>2
        <5>2. f[i] = IF i = 0 THEN << >> ELSE ScanModeInfo \o f[i - 1]
          BY <3>2, <5>1
        <5>3. g[i] = f[i] /\ (i # 0 => g[i - 1] = f[i - 1])
          BY <4>2, <5>1
        <5> HIDE DEF g
        <5> QED BY <5>2, <5>3
      <4> QED BY <4>1, <4>2
    <3>7. g = [i \in 0 .. m |-> IF i = 0 THEN << >> ELSE ScanModeInfo \o g[i - 1]]
      <4> DEFINE hd == [i \in 0 .. m |-> IF i = 0 THEN << >> ELSE ScanModeInfo \o g[i - 1]]
      <4>1. DOMAIN g = 0 .. m /\ DOMAIN hd = 0 .. m /\ \A i \in 0 .. m : g[i] = hd[i]
        BY <3>6
      <4>2. g = [i \in 0 .. m |-> g[i]] /\ hd = [i \in 0 .. m |-> hd[i]]
        BY <4>1
      <4> QED BY <4>1, <4>2
    <3> QED BY <2>3, <3>5, <3>7
  <2> QED BY <2>4, <2>5
<1>4. Modes \in 0 .. Modes
  OBVIOUS
<1>5. PICK f \in [0 .. Modes -> L] : Info(Modes, f)
  BY <1>3, <1>4
<1>6. Info(Modes, InfoOfModes)
  BY <1>5 DEF InfoOfModes
<1> DEFINE U == {i \in 0 .. Modes : InfoOfModes[i] \notin L}
<1>7. U = {}
  <2> SUFFICES ASSUME U # {} PROVE FALSE
    OBVIOUS
  <2>1. U \in SUBSET Nat
    OBVIOUS
  <2>2. PICK m \in U : \A k \in U : m <= k
    <3> HIDE DEF U
    <3> QED BY <2>1, LeastNatural
  <2>3. m \in 0 .. Modes /\ InfoOfModes[m] \notin L
    BY <2>2
  <2>4. InfoOfModes[m] = IF m = 0 THEN << >> ELSE ScanModeInfo \o InfoOfModes[m - 1]
    BY <1>6, <2>3
  <2>5. m # 0
    BY <1>2, <2>3, <2>4
  <2>6. m - 1 \in 0 .. Modes /\ ~(m <= m - 1)
    BY <2>3, <2>5
  <2>7. m - 1 \notin U
    <3> HIDE DEF U
    <3> QED BY <2>2, <2>6
  <2>8. InfoOfModes[m - 1] \in L
    BY <2>6, <2>7
  <2> QED BY <1>1, <2>3, <2>4, <2>5, <2>8
<1>8. InfoOfModes[Modes] \in L
  BY <1>4, <1>7
<1> QED BY <1>8 DEF L

LEMMA Listed ==
  ASSUME NEW S, NEW a \in S, NEW b \in S, NEW c \in S
  PROVE  <<a>> \o <<b>> = <<a, b>> /\ <<a>> \o <<b, c>> = <<a, b, c>>
<1> DEFINE u == <<a>>
           v == <<b>>
           w == <<b, c>>
           z == <<a, b>>
           q == <<a, b, c>>
<1>1. u \in Seq(S) /\ v \in Seq(S) /\ w \in Seq(S) /\ z \in Seq(S) /\ q \in Seq(S)
  OBVIOUS
<1>2. Len(u) = 1 /\ Len(v) = 1 /\ Len(w) = 2 /\ Len(z) = 2 /\ Len(q) = 3
  OBVIOUS
<1>3. /\ u[1] = a /\ v[1] = b /\ w[1] = b /\ w[2] = c
      /\ z[1] = a /\ z[2] = b /\ q[1] = a /\ q[2] = b /\ q[3] = c
  OBVIOUS
<1> HIDE DEF u, v, w, z, q
<1>4. u \o v = z
  <2> DEFINE r == u \o v
  <2>1. /\ r \in Seq(S) /\ Len(r) = Len(u) + Len(v)
        /\ \A i \in 1 .. Len(u) + Len(v) : r[i] = IF i <= Len(u) THEN u[i] ELSE v[i - Len(u)]
    BY <1>1, ConcatProperties
  <2> HIDE DEF r
  <2>2. /\ Len(r) = 2
        /\ \A i \in 1 .. 2 : r[i] = IF i <= 1 THEN u[i] ELSE v[i - 1]
    BY <1>2, <2>1
  <2>3. ASSUME NEW i \in 1 .. 2 PROVE r[i] = z[i]
    <3>1. CASE i = 1
      BY <1>3, <2>2, <3>1
    <3>2. CASE i = 2
      BY <1>3, <2>2, <3>2
    <3> QED BY <3>1, <3>2
  <2>4. r = z
    BY <1>1, <1>2, <2>1, <2>2, <2>3, SeqEqual
  <2> QED BY <2>4 DEF r
<1>5. u \o w = q
  <2> DEFINE r == u \o w
  <2>1. /\ r \in Seq(S) /\ Len(r) = Len(u) + Len(w)
        /\ \A i \in 1 .. Len(u) + Len(w) : r[i] = IF i <= Len(u) THEN u[i] ELSE w[i - Len(u)]
    BY <1>1, ConcatProperties
  <2> HIDE DEF r
  <2>2. /\ Len(r) = 3
        /\ \A i \in 1 .. 3 : r[i] = IF i <= 1 THEN u[i] ELSE w[i - 1]
    BY <1>2, <2>1
  <2>3. ASSUME NEW i \in 1 .. 3 PROVE r[i] = q[i]
    <3>1. CASE i = 1
      BY <1>3, <2>2, <3>1
    <3>2. CASE i = 2
      BY <1>3, <2>2, <3>2
    <3>3. CASE i = 3
      BY <1>3, <2>2, <3>3
    <3> QED BY <3>1, <3>2, <3>3
  <2>4. r = q
    BY <1>1, <1>2, <2>1, <2>2, <2>3, SeqEqual
  <2> QED BY <2>4 DEF r
<1> QED BY <1>4, <1>5 DEF u, v, w, z, q

\* A step as it is when its failure is not one of the call.
Excused(s, drops) == [s EXCEPT !.fatal = FALSE, !.drops = drops]

LEMMA ToleratedSteps ==
  ASSUME NEW s, NEW n, DOMAIN s = 1 .. n, NEW i \in 1 .. n
  PROVE  /\ DOMAIN Tolerated(s) = 1 .. n
         /\ s[i].fatal => Tolerated(s)[i] = Excused(s[i], Len(s) - i)
         /\ ~s[i].fatal => Tolerated(s)[i] = s[i]
  BY DEF Tolerated, Excused

\* Both steps that set the speed before a scan may fail.
LEMMA DefaultSpeed ==
  ASSUME NEW support
  PROVE  \E y \in StartMotors :
           Tolerated(SetMotorSpeed(support, "default")) = Tolerated(GetLidarConf) \o <<y>>
<1> DEFINE x == IF support = "none" THEN Take("dtr", "default") ELSE Order("default")
           y == [x EXCEPT !.fatal = FALSE, !.drops = 0]
           a == Ask("conf")
           c == [a EXCEPT !.fatal = FALSE, !.drops = 0]
<1>1. /\ x \in Steps /\ x.do \in {"tell", "dtr"} /\ x.what = "default" /\ x.fatal
      /\ a \in Steps /\ a.fatal
  BY Taken DEF Dos, Whats, Speeds, Questions, Order, Ask, Take
<1> HIDE DEF x, a
<1>2. y \in StartMotors /\ c \in Steps /\ ~c.fatal
  BY <1>1 DEF Steps, StartMotors, Driving, Speeds
<1> HIDE DEF y
<1> DEFINE u == <<a>>
           v == <<c, x>>
<1>3. Tolerated(u) = <<c>>
  <2>1. DOMAIN u = 1 .. 1 /\ 1 \in 1 .. 1
    OBVIOUS
  <2>2. u[1] = a
    OBVIOUS
  <2>3. Len(u) - 1 = 0
    OBVIOUS
  <2> HIDE DEF u
  <2>4. u[1].fatal
    BY <1>1, <2>2
  <2>5. DOMAIN Tolerated(u) = 1 .. 1 /\ Tolerated(u)[1] = Excused(u[1], Len(u) - 1)
    BY <2>1, <2>4, ToleratedSteps
  <2>6. Tolerated(u)[1] = Excused(a, 0)
    BY <2>2, <2>3, <2>5
  <2>7. Tolerated(u)[1] = c
    BY <2>6 DEF c, Excused
  <2>8. Tolerated(u) = [i \in 1 .. 1 |-> Tolerated(u)[i]]
    BY <2>5 DEF Tolerated
  <2> HIDE DEF c
  <2>9. Tolerated(u) = [i \in 1 .. 1 |-> c]
    BY <2>7, <2>8
  <2> QED BY <2>9
<1> HIDE DEF c
<1>4. <<c>> \o <<x>> = v /\ <<c>> \o <<y>> = <<c, y>>
  <2>1. y \in Steps
    BY <1>2 DEF StartMotors, Driving
  <2> QED BY <1>1, <1>2, <2>1, Listed
<1>5. Tolerated(v) = <<c, y>>
  <2>1. DOMAIN v = 1 .. 2 /\ 1 \in 1 .. 2 /\ 2 \in 1 .. 2
    OBVIOUS
  <2>2. v[1] = c /\ v[2] = x
    OBVIOUS
  <2>3. Len(v) - 2 = 0
    OBVIOUS
  <2> HIDE DEF v
  <2>4. ~v[1].fatal /\ v[2].fatal
    BY <1>1, <1>2, <2>2
  <2>5. /\ DOMAIN Tolerated(v) = 1 .. 2
        /\ Tolerated(v)[1] = v[1] /\ Tolerated(v)[2] = Excused(v[2], Len(v) - 2)
    BY <2>1, <2>4, ToleratedSteps
  <2>6. Tolerated(v)[1] = c /\ Tolerated(v)[2] = Excused(x, 0)
    BY <2>2, <2>3, <2>5
  <2>7. Tolerated(v)[2] = y
    BY <2>6 DEF y, Excused
  <2>8. Tolerated(v) = [i \in 1 .. 2 |-> Tolerated(v)[i]]
    BY <2>5 DEF Tolerated
  <2>9. Tolerated(v) = [i \in 1 .. 2 |-> <<c, y>>[i]]
    BY <2>6, <2>7, <2>8
  <2> QED BY <2>9
<1> HIDE DEF v
<1>6. SetMotorSpeed(support, "default") = Tolerated(GetLidarConf) \o <<x>>
  BY DEF SetMotorSpeed, x
<1>7. Tolerated(GetLidarConf) = <<c>>
  BY <1>3 DEF GetLidarConf, a
<1> QED BY <1>2, <1>4, <1>5, <1>6, <1>7

LEMMA LaunchIsStart ==
  ASSUME NEW m, NEW support PROVE Starting(Launch(m, support), 0)
<1> DEFINE p == UpdateTimingDesc(m)
           c == Tolerated(GetLidarConf)
<1>1. PICK y \in StartMotors : Tolerated(SetMotorSpeed(support, "default")) = c \o <<y>>
  BY DefaultSpeed
<1>2. Prelude(p, 0) /\ Prelude(c, 0)
  BY ConfIsPrelude, EmptyIsPrelude DEF UpdateTimingDesc
<1>3. y \in Steps /\ EnableStep \in Steps /\ ScanStep \in Steps
  BY Taken DEF Dos, Whats, StartMotors, Driving, EnableStep, ScanStep, Order
<1> DEFINE t == <<y, EnableStep, ScanStep>>
           u == <<y>>
           w == <<EnableStep, ScanStep>>
<1>4. Starting(t, 0)
  <2>1. t \in Seq(Steps) /\ Len(t) = 3 /\ t[1] = y /\ t[2] = EnableStep /\ t[3] = ScanStep
    BY <1>3
  <2> HIDE DEF t
  <2>2. Count(t, Crucial) \in Nat
    BY <2>1, CountIsNatural
  <2> QED BY <2>1, <2>2 DEF Starting, StartRest, Guarded
<1> HIDE DEF t
<1>5. Starting(c \o t, 0) /\ Starting(p \o (c \o t), 0)
  <2>1. Starting(c \o t, 0 + 0)
    BY <1>2, <1>4, StartExtended
  <2>2. Starting(p \o (c \o t), 0 + 0)
    BY <1>2, <2>1, StartExtended
  <2> QED BY <2>1, <2>2
<1>6. Launch(m, support) = (p \o (c \o u)) \o w
  BY <1>1 DEF Launch, EnableStep, ScanStep
<1>7. u \in Seq(Steps) /\ w \in Seq(Steps)
  BY <1>3
<1>8. u \o w = t
  <2>1. <<y>> \o <<EnableStep, ScanStep>> = <<y, EnableStep, ScanStep>>
    BY <1>3, Listed, Zenon
  <2> QED BY <2>1 DEF t
<1> HIDE DEF p, c, u, w
<1>9. p \in Seq(Steps) /\ c \in Seq(Steps)
  <2>1. Mundane \subseteq Steps
    BY DEF Mundane, Asking, Driving, Halting
  <2> QED BY <1>2, <2>1, SeqMonotonic DEF Prelude
<1>10. c \o u \in Seq(Steps)
  BY <1>9, <1>7, ConcatProperties
<1>11. (c \o u) \o w = c \o t
  <2>1. (c \o u) \o w = c \o (u \o w)
    BY <1>9, <1>7, ConcatAssociative
  <2> QED BY <1>8, <2>1
<1>12. (p \o (c \o u)) \o w = p \o ((c \o u) \o w)
  <2> DEFINE q == c \o u
  <2>1. q \in Seq(Steps)
    BY <1>10
  <2> HIDE DEF q
  <2>2. p \in Seq(Steps) /\ w \in Seq(Steps)
    BY <1>9, <1>7
  <2>3. (p \o q) \o w = p \o (q \o w)
    BY <2>1, <2>2, ConcatAssociative
  <2> QED BY <2>3 DEF q
<1> QED BY <1>5, <1>6, <1>11, <1>12

\* Whatever the lidar and the mode, a start asks four questions it cannot do without.
LEMMA ExpressIsStart ==
  ASSUME NEW m, NEW support, NEW plain \in BOOLEAN
  PROVE  Starting(StartScanExpress(m, support, plain), 3)
<1> DEFINE t == Tolerated(StopCall(support))
           c == CheckSupportConfigCommands
           x == IF m.conf THEN ScanModeInfo ELSE GetLegacySampleDuration
           l == Launch(m, support)
           e == IF plain THEN StartScanNormal(m, support) ELSE l
<1>1. Prelude(t, 0) /\ Prelude(c, 1) /\ Prelude(x, 2)
  <2>1. Prelude(ScanModeInfo, 2)
    BY InfoIsPrelude, PreludeWeaker
  <2> QED BY <2>1, StopIsPrelude, ConfIsPrelude, InfoIsPrelude
<1>2. Starting(l, 0)
  BY LaunchIsStart
<1> HIDE DEF t, c, x, l
<1>3. Prelude(t \o c, 0 + 1)
  BY <1>1, PreludesJoin
<1>4. Prelude((t \o c) \o x, (0 + 1) + 2)
  BY <1>1, <1>3, PreludesJoin
<1>5. Starting(x \o l, 2 + 0)
  BY <1>1, <1>2, StartExtended
<1>6. Starting((t \o c) \o (x \o l), (0 + 1) + (2 + 0))
  BY <1>3, <1>5, StartExtended
<1>7. StartScanNormal(m, support) = (t \o c) \o (x \o l)
  BY DEF StartScanNormal, StartScanNormalCommonPath, t, c, x, l
<1>8. Starting(e, 0)
  <2>1. Starting((t \o c) \o (x \o l), 0)
    BY <1>6, StartWeaker
  <2> QED BY <1>2, <1>7, <2>1
<1> HIDE DEF e
<1>9. Starting(((t \o c) \o x) \o e, ((0 + 1) + 2) + 0)
  BY <1>4, <1>8, StartExtended
<1> QED BY <1>9 DEF StartScanExpress, t, c, x, l, e

LEMMA StartIsStart ==
  ASSUME NEW plain \in BOOLEAN, NEW named \in BOOLEAN
  PROVE  Starting(Tolerated(SetMotorSpeed(driver.support, "default"))
                  \o SetScanMode(plain, named), 4)
<1> DEFINE m == model
           u == driver.support
           d == Tolerated(SetMotorSpeed(u, "default"))
           t == Tolerated(StopCall(u))
           c == CheckSupportConfigCommands
           g == IF m.conf THEN GetLidarConf ELSE << >>
           a == IF m.conf THEN GetLidarConf \o InfoOfModes[Modes] ELSE << >>
           e == StartScanExpress(m, u, plain)
<1>1. Prelude(d, 0) /\ Prelude(t, 0) /\ Prelude(c, 1)
  BY SpeedIsPrelude, StopIsPrelude, ConfIsPrelude DEF Speeds
<1>2. Prelude(g, 0) /\ Prelude(a, 0)
  <2>1. Prelude(GetLidarConf, 0) /\ Prelude(GetLidarConf \o InfoOfModes[Modes], 0)
    <3>1. Prelude(GetLidarConf \o InfoOfModes[Modes], 1 + 0)
      BY ConfIsPrelude, ModesArePrelude, PreludesJoin
    <3> QED BY <3>1, ConfIsPrelude, PreludeWeaker
  <2> QED BY <2>1, EmptyIsPrelude
<1>3. Starting(e, 3)
  BY ExpressIsStart
<1> HIDE DEF d, t, c, g, a, e
<1>4. Prelude(c \o a, 1 + 0) /\ Prelude(c \o g, 1 + 0) /\ Prelude(t \o c, 0 + 1)
  BY <1>1, <1>2, PreludesJoin
<1>5. Starting((c \o a) \o e, (1 + 0) + 3)
  BY <1>3, <1>4, StartExtended
<1>6. Prelude((t \o c) \o (c \o g), (0 + 1) + (1 + 0))
  BY <1>4, PreludesJoin
<1>7. Starting(((t \o c) \o (c \o g)) \o e, ((0 + 1) + (1 + 0)) + 3)
  BY <1>3, <1>6, StartExtended
<1>8. SetScanMode(plain, named) = IF named THEN (c \o a) \o e ELSE ((t \o c) \o (c \o g)) \o e
  BY DEF SetScanMode, GetAllSupportedScanModes, StartScan, GetTypicalScanMode, t, c, g, a, e
<1>9. Starting(SetScanMode(plain, named), 4)
  <2>1. Starting(((t \o c) \o (c \o g)) \o e, 4)
    BY <1>7, StartWeaker
  <2> QED BY <1>5, <1>8, <2>1
<1>10. Starting(d \o SetScanMode(plain, named), 0 + 4)
  BY <1>1, <1>9, StartExtended
<1> QED BY <1>10 DEF d

\* What is left of a script when k of its steps are over.
Rest(s, k) == SubSeq(s, k + 1, Len(s))

LEMMA RestIsPart ==
  ASSUME NEW S, NEW s \in Seq(S), NEW k \in Nat
  PROVE  /\ Rest(s, k) \in Seq(S)
         /\ Len(Rest(s, k)) = IF k < Len(s) THEN Len(s) - k ELSE 0
         /\ \A i \in 1 .. Len(s) - k : Rest(s, k)[i] = s[k + i]
<1>1. Len(s) \in Nat /\ \A i \in 1 .. Len(s) : s[i] \in S
  BY LenProperties, ElementOfSeq
<1> DEFINE n == Len(s)
           l == k + 1
<1>2. l \in Int /\ n \in Int /\ \A i \in l .. n : s[i] \in S
  BY <1>1
<1> HIDE DEF n, l
<1>3. /\ SubSeq(s, l, n) \in Seq(S)
      /\ Len(SubSeq(s, l, n)) = IF l <= n THEN n - l + 1 ELSE 0
      /\ \A i \in 1 .. n - l + 1 : SubSeq(s, l, n)[i] = s[l + i - 1]
  BY <1>2, SubSeqProperties
<1>4. n - l + 1 = n - k /\ (l <= n <=> k < n) /\ \A i \in 1 .. n - k : l + i - 1 = k + i
  BY <1>1 DEF l, n
<1>5. \A i \in 1 .. n - k : SubSeq(s, l, n)[i] = s[k + i]
  BY <1>3, <1>4
<1> QED BY <1>3, <1>4, <1>5 DEF Rest, n, l

LEMMA TailIsRest == ASSUME NEW S, NEW s \in Seq(S), s # << >> PROVE Tail(s) = Rest(s, 1)
<1>1. Tail(s) = SubSeq(s, 2, Len(s))
  BY TailIsSubSeq
<1> QED BY <1>1 DEF Rest

\* Where a start goes on after its first step, be it done or be it left out with others.
LEMMA StartGoesOn ==
  ASSUME NEW s, StartRest(s), s # << >>,
         NEW k \in Nat, k = 1 \/ (~s[1].fatal /\ k = 1 + s[1].drops)
  PROVE  /\ StartRest(Rest(s, k)) /\ Len(Rest(s, k)) = Len(s) - k
         /\ Len(s) <= 3 => k = 1
         /\ Len(s) > 3 => k <= Len(s) - 3
         /\ Count(s, Crucial) <= Count(Rest(s, k), Crucial) + (IF s[1] \in Crucial THEN 1 ELSE 0)
<1> DEFINE n == Len(s)
           r == Rest(s, k)
           m == n - k
<1>1. s \in Seq(Steps) /\ n \in Nat /\ n >= 1
  BY EmptySeq, LenProperties DEF StartRest
<1>2. /\ s[n] = ScanStep
      /\ n >= 2 => s[n - 1] = EnableStep
      /\ n >= 3 => s[n - 2] \in StartMotors
      /\ \A i \in 1 .. n - 3 : s[i] \in Mundane
      /\ Guarded(s, n - 3)
  BY <1>1 DEF StartRest
<1>3. \A i \in 1 .. n : s[i].drops \in Nat
  <2>1. \A i \in 1 .. n : s[i] \in Steps
    BY <1>1, ElementOfSeq
  <2> QED BY <2>1 DEF Steps
<1> HIDE DEF n
<1>4. k >= 1 /\ (n <= 3 => k = 1) /\ (n > 3 => k <= n - 3)
      /\ \A i \in 2 .. k : ~s[i].fatal
  <2>1. CASE k = 1
    BY <1>1, <2>1
  <2>2. CASE ~s[1].fatal /\ k = 1 + s[1].drops
    <3>1. CASE n > 3
      <4>1. 1 + s[1].drops <= n - 3 /\ \A l \in 1 .. 1 + s[1].drops : ~s[l].fatal
        BY <1>1, <1>2, <2>2, <3>1 DEF Guarded
      <4> QED BY <1>1, <1>3, <2>2, <3>1, <4>1
    <3>2. CASE n = 3
      <4>1. s[1].drops = 0
        BY <1>2, <3>2 DEF StartMotors
      <4> QED BY <2>2, <3>2, <4>1
    <3>3. CASE n = 2 \/ n = 1
      <4>1. s[1] = EnableStep \/ s[1] = ScanStep
        BY <1>2, <3>3
      <4> QED BY <2>2, <4>1 DEF EnableStep, ScanStep, Order, Take
    <3> QED BY <1>1, <3>1, <3>2, <3>3
  <2> QED BY <2>1, <2>2
<1>5. m \in Nat /\ m <= n /\ k <= n
  BY <1>1, <1>4
<1>6. /\ r \in Seq(Steps) /\ Len(r) = m
      /\ \A i \in 1 .. m : r[i] = s[k + i]
  <2>1. /\ r \in Seq(Steps) /\ Len(r) = IF k < Len(s) THEN Len(s) - k ELSE 0
        /\ \A i \in 1 .. Len(s) - k : r[i] = s[k + i]
    BY <1>1, RestIsPart
  <2> QED BY <1>1, <1>5, <2>1 DEF n
<1> HIDE DEF r
<1>7. StartRest(r)
  <2> HIDE DEF m
  <2>0. n = k + m /\ n \in Nat /\ m \in Nat
    BY <1>1, <1>5 DEF m
  <2>1. m >= 1 => r[m] = ScanStep
    BY <1>2, <1>6, <2>0
  <2>2. m >= 2 => r[m - 1] = EnableStep
    <3>1. m >= 2 => m - 1 \in 1 .. m /\ k + (m - 1) = n - 1 /\ n >= 2
      BY <2>0
    <3> QED BY <1>2, <1>6, <3>1
  <2>3. m >= 3 => r[m - 2] \in StartMotors
    <3>1. m >= 3 => m - 2 \in 1 .. m /\ k + (m - 2) = n - 2 /\ n >= 3
      BY <2>0
    <3> QED BY <1>2, <1>6, <3>1
  <2>4. ASSUME NEW i \in 1 .. m - 3
        PROVE  /\ r[i] \in Mundane
               /\ ~r[i].fatal => /\ i + r[i].drops <= m - 3
                                 /\ \A l \in i .. i + r[i].drops : ~r[l].fatal
    <3>1. i \in 1 .. m /\ k + i \in 1 .. n - 3 /\ k + i \in 1 .. n
      BY <2>0
    <3>2. r[i] = s[k + i]
      BY <1>6, <3>1
    <3> DEFINE d == s[k + i].drops
    <3>3. d \in Nat
      BY <1>3, <3>1
    <3>4. CASE ~s[k + i].fatal
      <4>1. (k + i) + d <= n - 3 /\ \A l \in k + i .. (k + i) + d : ~s[l].fatal
        BY <1>2, <3>1, <3>4 DEF Guarded
      <4> HIDE DEF d
      <4>2. ASSUME NEW l \in i .. i + d PROVE ~r[l].fatal
        <5>1. l \in 1 .. m /\ k + l \in k + i .. (k + i) + d
          BY <2>0, <3>1, <3>3, <4>1
        <5>2. r[l] = s[k + l]
          BY <1>6, <5>1
        <5> QED BY <4>1, <5>1, <5>2
      <4>3. i + d <= m - 3
        BY <2>0, <3>3, <4>1
      <4> QED BY <1>2, <3>1, <3>2, <4>2, <4>3 DEF d
    <3> QED BY <1>2, <3>1, <3>2, <3>4
  <2>5. Guarded(r, m - 3)
    BY <2>4 DEF Guarded
  <2> QED BY <1>6, <2>1, <2>2, <2>3, <2>4, <2>5 DEF StartRest
<1>8. Count(s, Crucial) <= Count(r, Crucial) + (IF s[1] \in Crucial THEN 1 ELSE 0)
  <2> DEFINE A == Where(s, 1 .. n, Crucial)
             D == k + 1 .. n
             E == 1 .. m
             e == [i \in D |-> i - k]
             B == Where(s, D, Crucial)
             C == Where(r, E, Crucial)
  <2>1. D \in SUBSET (1 .. n) /\ E \in SUBSET (1 .. m)
    BY <1>1, <1>4, <1>5
  <2>2. e \in [D -> E] /\ \A i \in D : e[i] = i - k
    BY <1>1, <1>4, <1>5
  <2>3. \A i, j \in D : e[i] = e[j] => i = j
    BY <1>1, <1>5
  <2>4. \A i \in D : s[i] \in Crucial => r[e[i]] \in Crucial
    <3> SUFFICES ASSUME NEW i \in D PROVE r[i - k] = s[i]
      BY <2>2
    <3>1. i - k \in 1 .. m /\ k + (i - k) = i
      BY <1>1, <1>5
    <3> QED BY <1>6, <3>1
  <2> HIDE DEF D, E, e
  <2>5. Cardinality(B) <= Cardinality(C) /\ Cardinality(B) \in Nat /\ Cardinality(C) \in Nat
    <3>1. IsFiniteSet(E)
      BY <1>5, FS_Interval DEF E
    <3> QED BY <2>2, <2>3, <2>4, <3>1, CountInjected
  <2>6. A \subseteq B \cup (IF s[1] \in Crucial THEN {1} ELSE {})
    <3> USE DEF Where
    <3> SUFFICES ASSUME NEW i \in A, i # 1 PROVE i \in B
      OBVIOUS
    <3>1. i \in 2 .. n /\ s[i] \in Crucial /\ s[i].fatal
      BY <1>1 DEF Crucial
    <3>2. i \notin 2 .. k
      BY <1>4, <3>1
    <3> QED BY <1>1, <3>1, <3>2 DEF D
  <2>7. Cardinality(A) <= Cardinality(B) + (IF s[1] \in Crucial THEN 1 ELSE 0)
    <3>1. IsFiniteSet(B)
      <4>1. IsFiniteSet(D)
        BY <1>1, FS_Interval DEF D
      <4>2. B \in SUBSET D
        BY DEF Where
      <4> HIDE DEF B
      <4> QED BY <4>1, <4>2, FS_Subset
    <3> HIDE DEF A, B
    <3>2. CASE s[1] \in Crucial
      <4>1. /\ IsFiniteSet(B \cup {1})
            /\ Cardinality(B \cup {1}) = IF 1 \in B THEN Cardinality(B) ELSE Cardinality(B) + 1
        BY <3>1, FS_AddElement
      <4>2. A \in SUBSET (B \cup {1})
        BY <2>6, <3>2
      <4>3. Cardinality(A) <= Cardinality(B \cup {1})
        BY <4>1, <4>2, FS_Subset
      <4>4. Cardinality(A) \in Nat
        BY <4>1, <4>2, FS_Subset, FS_CardinalityType
      <4> QED BY <2>5, <3>2, <4>1, <4>3, <4>4
    <3>3. CASE s[1] \notin Crucial
      <4>1. A \in SUBSET B
        BY <2>6, <3>3
      <4>2. Cardinality(A) <= Cardinality(B) /\ Cardinality(A) \in Nat
        BY <3>1, <4>1, FS_Subset, FS_CardinalityType
      <4> QED BY <2>5, <3>3, <4>2
    <3> QED BY <3>2, <3>3
  <2>8. Count(s, Crucial) = Cardinality(A)
    BY DEF Count, n
  <2>9. Count(r, Crucial) = Cardinality(C)
    BY <1>6 DEF Count, E
  <2>10. Cardinality(A) \in Nat
    BY <1>1, <2>8, CountIsNatural
  <2> HIDE DEF A, B, C
  <2> QED BY <2>5, <2>7, <2>8, <2>9, <2>10
<1> QED BY <1>4, <1>6, <1>7, <1>8 DEF r, n

-----------------------------------------------------------------------------
\* What the node's calls consist of, and what it knows of the lidar.

Frames  == Whats \cup {"descriptor", "sample"}
Opening == {"info", "health", "model", "first"}
Places  == Opening \cup {"connect", "called", "modelled", "motor", "starting", "stopping",
                         "loop", "grab", "spin", "delete", "gone"}

Ports    == [bound : BOOLEAN, working : BOOLEAN, broken : BOOLEAN]
Decoders == [at : {"none", "idle", "callback", "matched"}, frame : Frames \cup {NoFrame}]
Drivers  == [connected : BOOLEAN, waiting : Frames \cup {NoFrame}, event : BOOLEAN,
             answer : Frames \cup {NoFrame}, enabled : BOOLEAN, support : Motors]
Apps     == [at : {"out", "step", "locked", "wait", "join"}, todo : Seq(Steps), ok : BOOLEAN]
LidarStates  == [scanning : BOOLEAN, speed : Whats]
NodeStates    == [at : Places, next : Places, scanning : BOOLEAN, tune : BOOLEAN]

NodeTypes ==
  /\ port \in Ports /\ dec \in Decoders /\ driver \in Drivers /\ app \in Apps
  /\ device \in LidarStates /\ node \in NodeStates
  /\ rx \in {"none", "run"} /\ codecMode \in {"plain", "loop"}
  /\ rxq \in Seq(Frames) /\ air \in Seq(Frames)
  /\ app.at \in {"locked", "wait", "join"} => app.todo # << >>
  /\ lost \in Nat /\ late \in Nat /\ starts \in {0, 1} /\ scanReady \in {0, 1, 2}
  /\ model \in ModelSet /\ mode \in [plain : BOOLEAN, named : BOOLEAN]
  /\ standby \in BOOLEAN

\* The steps that connect, that disconnect, and that only speed the lidar up.
Connecting == {s \in Steps : s.do = "connect"}
Parting    == {s \in Steps : s.do = "disconnect"}
Gentle     == {s \in Driving : s.what # "off"}

ScriptInv ==
  /\ app.at \in {"locked", "wait"} => Doing.do = "ask"
  /\ app.at = "join" => Doing.do = "disconnect"
  /\ app.at = "out" <=> node.at \notin {"called", "modelled", "starting", "stopping"}
  /\ node.at = "called" =>
       /\ node.next \in Opening \cup {"loop", "delete", "gone"}
       /\ node.next = "info" => app.todo \in Seq(Mundane \cup Connecting)
       /\ node.next \in {"health", "model", "first", "delete"} => app.todo \in Seq(Mundane)
       /\ node.next = "loop" => app.todo \in Seq(Gentle)
       /\ node.next = "gone" => app.todo \in Seq(Parting)
  /\ node.at = "modelled" => app.todo \in Seq(Mundane)
  /\ node.at = "starting" => /\ node.next \in {"loop", "grab", "spin"}
                             /\ StartRest(app.todo) /\ (app.todo # << >> => app.ok)
  /\ node.at = "stopping" => /\ node.next \in {"delete", "grab", "spin"}
                             /\ app.todo \in Seq(Mundane)

\* A step that is over: the call has failed, or it goes on.
GoesOn(k) == /\ app'.todo = Rest(app.todo, k) /\ app'.ok = app.ok

LEMMA DoneLeaves ==
  ASSUME NodeTypes, app.todo # << >>, NEW ok \in BOOLEAN, Done(ok)
  PROVE  /\ app' \in [at : {"step"}, todo : Seq(Steps), ok : BOOLEAN]
         /\ \/ ~ok /\ Doing.fatal /\ app'.todo = << >> /\ ~app'.ok
            \/ \E k \in Nat : /\ k = IF ok THEN 1 ELSE 1 + Doing.drops
                              /\ ok \/ ~Doing.fatal
                              /\ GoesOn(k)
<1>1. app.todo \in Seq(Steps) /\ app.ok \in BOOLEAN
  BY DEF NodeTypes, Apps
<1>2. Doing \in Steps
  BY <1>1, ElementOfSeq, EmptySeq, LenProperties DEF Doing
<1>3. app = [at |-> app.at, todo |-> app.todo, ok |-> app.ok]
  BY DEF NodeTypes, Apps
<1>4. CASE ok
  <2>1. app' = [app EXCEPT !.at = "step", !.todo = Tail(@)]
    BY <1>4 DEF Done
  <2>2. app' = [at |-> "step", todo |-> Tail(app.todo), ok |-> app.ok]
    BY <1>3, <2>1
  <2>3. Tail(app.todo) = Rest(app.todo, 1)
    BY <1>1, TailIsRest
  <2>4. Rest(app.todo, 1) \in Seq(Steps)
    BY <1>1, RestIsPart
  <2> QED BY <1>1, <1>4, <2>2, <2>3, <2>4 DEF GoesOn
<1>5. CASE ~ok /\ Doing.fatal
  <2>1. app' = [at |-> "step", todo |-> << >>, ok |-> FALSE]
    BY <1>5 DEF Done
  <2>2. << >> \in Seq(Steps)
    BY EmptySeq
  <2> QED BY <1>5, <2>1, <2>2
<1>6. CASE ~ok /\ ~Doing.fatal
  <2> DEFINE d == Doing.drops
             r == SubSeq(app.todo, 2 + d, Len(app.todo))
  <2>1. app' = [app EXCEPT !.at = "step", !.todo = r]
    BY <1>6 DEF Done
  <2>2. app' = [at |-> "step", todo |-> r, ok |-> app.ok]
    BY <1>3, <2>1
  <2>3. d \in Nat
    BY <1>2 DEF Steps
  <2>4. r = Rest(app.todo, 1 + d)
    <3>1. 2 + d = (1 + d) + 1
      BY <2>3
    <3> QED BY <3>1 DEF Rest
  <2>5. 1 + d \in Nat
    BY <2>3
  <2> HIDE DEF d
  <2>6. Rest(app.todo, 1 + d) \in Seq(Steps)
    BY <1>1, <2>5, RestIsPart
  <2> QED BY <1>1, <1>6, <2>2, <2>4, <2>5, <2>6 DEF GoesOn, d
<1> QED BY <1>4, <1>5, <1>6

LEMMA FirstIsOne ==
  ASSUME NEW M, app.todo \in Seq(M), app.todo # << >> PROVE Doing \in M /\ Doing = app.todo[1]
  BY ElementOfSeq, EmptySeq, LenProperties DEF Doing

\* What is left of a call is made of the same steps.
LEMMA CallProceeds ==
  ASSUME NodeTypes, app.todo # << >>, NEW ok \in BOOLEAN, Done(ok),
         NEW M, app.todo \in Seq(M)
  PROVE  app'.todo \in Seq(M)
<1>1. app'.todo = << >> \/ \E k \in Nat : app'.todo = Rest(app.todo, k)
  <2>1. CASE ~ok /\ Doing.fatal /\ app'.todo = << >> /\ ~app'.ok
    BY <2>1
  <2>2. CASE \E k \in Nat : /\ k = IF ok THEN 1 ELSE 1 + Doing.drops
                            /\ ok \/ ~Doing.fatal
                            /\ GoesOn(k)
    BY <2>2 DEF GoesOn
  <2> QED BY <2>1, <2>2, DoneLeaves
<1>2. ASSUME NEW k \in Nat PROVE Rest(app.todo, k) \in Seq(M)
  BY RestIsPart
<1>3. << >> \in Seq(M)
  BY EmptySeq
<1> QED BY <1>1, <1>2, <1>3

LEMMA StartProceeds ==
  ASSUME NodeTypes, app.todo # << >>, NEW ok \in BOOLEAN, Done(ok), StartRest(app.todo), app.ok
  PROVE  /\ StartRest(app'.todo)
         /\ app'.todo # << >> => app'.ok
         /\ app'.todo = << >> /\ app'.ok => Len(app.todo) = 1
         /\ Len(app'.todo) = 1 => Len(app.todo) = 2
         /\ Len(app'.todo) = 2 => Len(app.todo) = 3
         /\ ~ok /\ Doing.fatal => app'.todo = << >> /\ ~app'.ok
         /\ app'.todo # << >> \/ app'.ok =>
              Count(app.todo, Crucial)
                <= Count(app'.todo, Crucial) + (IF Doing \in Crucial THEN 1 ELSE 0)
<1>1. app.todo \in Seq(Steps) /\ Len(app.todo) \in Nat /\ Len(app.todo) # 0
  BY EmptySeq, LenProperties DEF StartRest
<1>2. Doing = app.todo[1]
  BY <1>1, FirstIsOne
<1>3. CASE ~ok /\ Doing.fatal /\ app'.todo = << >> /\ ~app'.ok
  <2>1. Len(app'.todo) = 0 /\ app'.todo \in Seq(Steps)
    BY <1>3, EmptySeq
  <2>2. StartRest(app'.todo)
    BY <2>1 DEF StartRest, Guarded
  <2> QED BY <1>3, <2>1, <2>2
<1>4. CASE \E k \in Nat : /\ k = IF ok THEN 1 ELSE 1 + Doing.drops
                          /\ ok \/ ~Doing.fatal
                          /\ GoesOn(k)
  <2>1. PICK k \in Nat : /\ k = IF ok THEN 1 ELSE 1 + Doing.drops
                         /\ ok \/ ~Doing.fatal
                         /\ GoesOn(k)
    BY <1>4
  <2>2. k = 1 \/ (~app.todo[1].fatal /\ k = 1 + app.todo[1].drops)
    BY <1>2, <2>1
  <2>3. /\ StartRest(Rest(app.todo, k)) /\ Len(Rest(app.todo, k)) = Len(app.todo) - k
        /\ Len(app.todo) <= 3 => k = 1
        /\ Len(app.todo) > 3 => k <= Len(app.todo) - 3
        /\ Count(app.todo, Crucial)
             <= Count(Rest(app.todo, k), Crucial) + (IF app.todo[1] \in Crucial THEN 1 ELSE 0)
    BY <2>2, StartGoesOn
  <2>4. app'.todo = Rest(app.todo, k) /\ app'.ok = app.ok
    BY <2>1 DEF GoesOn
  <2>5. Len(app'.todo) = Len(app.todo) - k
    BY <2>3, <2>4
  <2>6. app'.todo = << >> => Len(app'.todo) = 0
    BY EmptySeq
  <2>7. /\ app'.todo = << >> => Len(app.todo) = 1
        /\ Len(app'.todo) = 1 => Len(app.todo) = 2
        /\ Len(app'.todo) = 2 => Len(app.todo) = 3
    <3> DEFINE n == Len(app.todo)
               m == Len(app'.todo)
    <3>1. /\ n \in Nat /\ k \in Nat /\ m = n - k /\ (n <= 3 => k = 1) /\ (n > 3 => k <= n - 3)
      BY <1>1, <2>3, <2>5
    <3> HIDE DEF n, m
    <3>2. (m = 0 => n = 1) /\ (m = 1 => n = 2) /\ (m = 2 => n = 3)
      BY <3>1
    <3> QED BY <2>6, <3>2 DEF n, m
  <2>8. ~(~ok /\ Doing.fatal)
    BY <2>1
  <2> QED BY <1>2, <2>3, <2>4, <2>7, <2>8
<1> QED BY <1>3, <1>4, DoneLeaves

\* What the calls that start nothing are made of.

LEMMA SlowIsGentle ==
  ASSUME NEW support, NEW c \in {"slow", "tuned"}
  PROVE  Tolerated(SetMotorSpeed(support, c)) \in Seq(Gentle)
<1> DEFINE x == IF support = "none" THEN Take("dtr", c) ELSE Order(c)
           u == <<x>>
<1>1. /\ x \in Steps /\ x.do \in {"tell", "dtr"} /\ x.what = c
      /\ Excused(x, 0) \in Steps /\ Excused(x, 0).do = x.do /\ Excused(x, 0).what = c
  <2>1. /\ x \in Steps /\ x.do \in {"tell", "dtr"} /\ x.what = c
    BY Taken DEF Dos, Whats, Speeds, Order, Take
  <2> HIDE DEF x
  <2> QED BY <2>1 DEF Steps, Excused
<1>2. x.fatal
  BY DEF Order, Take
<1> HIDE DEF x
<1>3. x \in Gentle /\ Excused(x, 0) \in Gentle
  BY <1>1 DEF Gentle, Driving, Speeds
<1>4. DOMAIN u = 1 .. 1 /\ 1 \in 1 .. 1 /\ u[1] = x /\ Len(u) - 1 = 0
  OBVIOUS
<1>5. SetMotorSpeed(support, c) = << >> \o u
  BY DEF SetMotorSpeed, x
<1>6. << >> \o u = u
  BY ConcatEmptySeq, <1>1
<1> HIDE DEF u
<1>7. DOMAIN Tolerated(u) = 1 .. 1 /\ Tolerated(u)[1] = Excused(x, 0)
  <2>1. /\ DOMAIN Tolerated(u) = 1 .. 1
        /\ u[1].fatal => Tolerated(u)[1] = Excused(u[1], Len(u) - 1)
    BY <1>4, ToleratedSteps, Zenon
  <2> QED BY <1>2, <1>4, <2>1, Zenon
<1>8. Tolerated(u) = [i \in 1 .. 1 |-> Tolerated(u)[i]]
  BY <1>7 DEF Tolerated
<1>9. Tolerated(u) = [i \in 1 .. 1 |-> Excused(x, 0)]
  BY <1>7, <1>8
<1> DEFINE y == Excused(x, 0)
<1>10. Tolerated(u) = <<y>>
  BY <1>9
<1> HIDE DEF y
<1>11. <<y>> \in Seq(Gentle)
  BY <1>3 DEF y
<1> QED BY <1>5, <1>6, <1>10, <1>11

LEMMA ConnectIsAllowed ==
  ASSUME NEW m \in ModelSet PROVE ConnectCall(m) \in Seq(Mundane \cup Connecting)
<1> DEFINE x == [Ask("flag") EXCEPT !.decides = m.motor]
           y == [Ask("devinfo") EXCEPT !.decides = m.motor]
           c == Take("connect", "channel")
<1>1. x \in Mundane /\ x.fatal /\ y \in Mundane /\ y.fatal
  <2>1. m.motor \in Motors
    BY DEF ModelSet, Motors
  <2>2. ASSUME NEW q \in {"flag", "devinfo"}
        PROVE  [Ask(q) EXCEPT !.decides = m.motor] \in Asking
    <3>1. Ask(q) \in Steps /\ Ask(q).do = "ask" /\ Ask(q).what = q
      BY Taken DEF Dos, Whats, Questions, Ask, Take
    <3> QED BY <2>1, <3>1 DEF Asking, Steps, Questions
  <2>3. x.fatal /\ y.fatal
    BY DEF Ask, Take
  <2> HIDE DEF x, y
  <2> QED BY <2>2, <2>3 DEF x, y, Mundane
<1>2. c \in Connecting
  BY Taken DEF Dos, Whats, Connecting, Take
<1> HIDE DEF x, y, c
<1>3. Prelude(<<x>>, 0) /\ Prelude(<<y>>, 0)
  BY <1>1, StepIsPrelude
<1>4. Prelude(GetDeviceInfo \o <<x>>, 1 + 0)
  BY <1>3, ConfIsPrelude, PreludesJoin
<1>5. CheckMotorCtrlSupport(m) = IF m.board THEN GetDeviceInfo \o <<x>> ELSE <<y>>
  BY DEF CheckMotorCtrlSupport, x, y
<1>6. Prelude(Tolerated(CheckMotorCtrlSupport(m)), 0)
  BY <1>3, <1>4, <1>5, ToleratedIsPrelude
<1> DEFINE M == Mundane \cup Connecting
           t == Tolerated(CheckMotorCtrlSupport(m))
           u == <<c>>
<1>7. t \in Seq(M)
  <2>1. t \in Seq(Mundane) /\ Mundane \subseteq M
    BY <1>6 DEF Prelude
  <2> HIDE DEF M, t
  <2> QED BY <2>1
<1>8. u \in Seq(M)
  <2>1. c \in M
    BY <1>2
  <2> HIDE DEF M
  <2> QED BY <2>1
<1>9. ConnectCall(m) = u \o t
  BY DEF ConnectCall, c
<1> HIDE DEF M, t, u
<1>10. u \o t \in Seq(M)
  BY <1>7, <1>8, ConcatProperties
<1> QED BY <1>9, <1>10 DEF M

LEMMA QueryIsMundane ==
  /\ GetDeviceInfo \in Seq(Mundane) /\ GetHealth \in Seq(Mundane) /\ << >> \in Seq(Mundane)
  /\ << >> \in Seq(Gentle)
<1>1. Prelude(GetHealth, 1)
  BY QuestionIsPrelude DEF Questions, GetHealth
<1> QED BY <1>1, ConfIsPrelude, EmptySeq DEF Prelude

LEMMA GentleIsMundane == ASSUME NEW s \in Seq(Gentle) PROVE s \in Seq(Mundane)
<1>1. Gentle \subseteq Mundane
  BY DEF Gentle, Mundane
<1> HIDE DEF Gentle, Mundane
<1> QED BY <1>1

LEMMA MundaneIsStep ==
  ASSUME NEW s \in Seq(Mundane)
  PROVE  s \in Seq(Steps) /\ s \in Seq(Mundane \cup Connecting)
<1>1. Mundane \subseteq Steps /\ Mundane \subseteq Mundane \cup Connecting
  BY DEF Mundane, Asking, Driving, Halting
<1> DEFINE M == Mundane \cup Connecting
<1> HIDE DEF Mundane, Steps, M
<1>2. Mundane \subseteq M
  BY <1>1 DEF M
<1> QED BY <1>1, <1>2 DEF M

\* The call that ends a scan begins with the stop.
StopCalls(u) == Tolerated(StopCall(u)) \o Tolerated(SetMotorSpeed(u, "off"))

LEMMA StopIsMundane ==
  ASSUME NEW u
  PROVE  /\ StopCalls(u) \in Seq(Mundane)
         /\ StopCalls(u) # << >> /\ StopCalls(u)[1].do = "tell" /\ StopCalls(u)[1].what = "stop"
<1> DEFINE c == StopCall(u)
           s == Tolerated(c)
           t == Tolerated(SetMotorSpeed(u, "off"))
<1>1. Prelude(s, 0) /\ Prelude(t, 0)
  BY StopIsPrelude, SpeedIsPrelude DEF Speeds
<1>2. s \in Seq(Mundane) /\ t \in Seq(Mundane)
  BY <1>1 DEF Prelude
<1>3. Len(s) >= 1 /\ s[1].do = "tell" /\ s[1].what = "stop"
  <2> DEFINE o == <<Order("stop")>>
             e == IF u = "pwm" THEN Tolerated(SetMotorSpeed(u, "off")) ELSE << >>
  <2>1. o \in Seq(Steps) /\ Len(o) = 1 /\ o[1] = Order("stop")
    BY Taken DEF Dos, Whats, Order
  <2>2. e \in Seq(Steps) /\ Len(e) \in Nat
    <3>1. Prelude(Tolerated(SetMotorSpeed(u, "off")), 0)
      BY SpeedIsPrelude DEF Speeds
    <3>2. e \in Seq(Mundane)
      BY <3>1, EmptySeq DEF Prelude
    <3> HIDE DEF e
    <3> QED BY <3>2, MundaneIsStep, LenProperties
  <2>3. c = o \o e
    BY DEF StopCall
  <2> HIDE DEF o, e, c
  <2>4. c \in Seq(Steps) /\ Len(c) = Len(o) + Len(e)
        /\ \A i \in 1 .. Len(o) + Len(e) : c[i] = IF i <= Len(o) THEN o[i] ELSE e[i - Len(o)]
    BY <2>1, <2>2, <2>3, ConcatProperties
  <2>5. Len(c) >= 1 /\ c[1] = Order("stop") /\ DOMAIN c = 1 .. Len(c) /\ Len(c) \in Nat
    <3>1. c[1] = o[1]
      BY <2>1, <2>2, <2>4
    <3>2. Len(c) = 1 + Len(e)
      BY <2>1, <2>4
    <3> HIDE DEF c
    <3> QED BY <2>1, <2>2, <2>4, <3>1, <3>2, LenProperties
  <2>6. Order("stop") \in Steps /\ Order("stop").fatal /\ Order("stop").do = "tell"
        /\ Order("stop").what = "stop"
    BY Taken DEF Dos, Whats, Order, Take
  <2>7. DOMAIN s = 1 .. Len(c) /\ s[1] = Excused(Order("stop"), Len(c) - 1)
    <3>1. 1 \in 1 .. Len(c)
      BY <2>5
    <3> QED BY <2>5, <2>6, <3>1, ToleratedSteps
  <2>8. s[1].do = "tell" /\ s[1].what = "stop"
    BY <2>6, <2>7 DEF Excused, Order, Take
  <2>9. Len(s) = Len(c)
    <3> HIDE DEF s
    <3> QED BY <1>2, <2>5, <2>7, LenProperties
  <2> QED BY <2>5, <2>8, <2>9
<1> HIDE DEF s, t
<1>4. /\ s \o t \in Seq(Mundane) /\ Len(s \o t) = Len(s) + Len(t)
      /\ \A i \in 1 .. Len(s) + Len(t) : (s \o t)[i] = IF i <= Len(s) THEN s[i] ELSE t[i - Len(s)]
  BY <1>2, ConcatProperties
<1>5. Len(s) \in Nat /\ Len(t) \in Nat
  BY <1>2, LenProperties
<1>6. (s \o t)[1] = s[1] /\ Len(s \o t) # 0
  BY <1>3, <1>4, <1>5
<1>7. s \o t # << >>
  BY <1>6, EmptySeq
<1> QED BY <1>3, <1>4, <1>6, <1>7 DEF StopCalls, s, t, c

LEMMA LeavingIsMundane ==
  ASSUME NEW u
  PROVE  Tolerated(SetMotorSpeed(u, "off")) \o Tolerated(StopCall(u)) \in Seq(Mundane)
<1>1. Prelude(Tolerated(SetMotorSpeed(u, "off")), 0) /\ Prelude(Tolerated(StopCall(u)), 0)
  BY StopIsPrelude, SpeedIsPrelude DEF Speeds
<1>2. Prelude(Tolerated(SetMotorSpeed(u, "off")) \o Tolerated(StopCall(u)), 0 + 0)
  BY <1>1, PreludesJoin
<1> QED BY <1>2 DEF Prelude

LEMMA PartingIsStep == DisconnectCall \in Seq(Parting) /\ DisconnectCall \in Seq(Steps)
<1> DEFINE d == Take("disconnect", "channel")
<1>1. d \in Parting /\ d \in Steps
  BY Taken DEF Dos, Whats, Parting, Take
<1> HIDE DEF d
<1>2. <<d>> \in Seq(Parting) /\ <<d>> \in Seq(Steps)
  BY <1>1
<1> QED BY <1>2 DEF DisconnectCall, d

-----------------------------------------------------------------------------
\* Types and scripts are kept.

Typed == NodeTypes /\ ScriptInv

LEMMA Queued ==
  ASSUME NEW S, NEW s \in Seq(S)
  PROVE  /\ s # << >> => Head(s) \in S /\ Tail(s) \in Seq(S)
         /\ \A e \in S : Append(s, e) \in Seq(S)
<1>1. s # << >> => Head(s) \in S /\ Tail(s) \in Seq(S)
  BY HeadTailProperties
<1>2. \A e \in S : Append(s, e) \in Seq(S)
  BY AppendProperties
<1> QED BY <1>1, <1>2

LEMMA TypedInit == LidarInit => Typed
<1> SUFFICES ASSUME LidarInit PROVE Typed
  OBVIOUS
<1> USE DEF LidarInit, LinkInit
<1>1. << >> \in Seq(Frames) /\ << >> \in Seq(Steps)
  BY EmptySeq
<1>2. model \in ModelSet /\ mode \in [plain : BOOLEAN, named : BOOLEAN]
  BY NodeAssumption
<1>3. NodeTypes
  BY <1>1, <1>2
  DEF NodeTypes, Ports, Decoders, Drivers, Apps, LidarStates, NodeStates, Frames, Whats,
      Speeds, Motors, Places, Opening, Idle, NoFrame
<1>4. ScriptInv
  BY DEF ScriptInv
<1> QED BY <1>3, <1>4 DEF Typed

\* The two threads of the driver, and the wire: they leave the call alone.
LEMMA TypedThreads ==
  ASSUME NodeTypes, Rx \/ Dec \/ Wire, UNCHANGED nodeVars PROVE NodeTypes'
<1> USE DEF NodeTypes
<1>1. /\ rxq # << >> => Head(rxq) \in Frames /\ Tail(rxq) \in Seq(Frames)
      /\ air # << >> => Head(air) \in Frames /\ Tail(air) \in Seq(Frames)
      /\ \A e \in Frames : Append(rxq, e) \in Seq(Frames)
  BY Queued
<1>2. << >> \in Seq(Frames) /\ <<"sample">> \in Seq(Frames) /\ "sample" \in Frames
  BY EmptySeq DEF Frames
<1>3. "off" \in Whats
  BY DEF Whats, Speeds
<1> HIDE DEF NodeTypes
<1> USE DEF nodeVars
<1>4. CASE Rx
  <2>1. CASE RxTake
    BY <1>1, <2>1 DEF RxTake, NodeTypes
  <2>2. CASE RxEnds
    BY <2>2 DEF RxEnds, NodeTypes
  <2> QED BY <1>4, <2>1, <2>2 DEF Rx
<1>5. CASE DecDecode
  <2>1. dec' \in Decoders
    <3>1. Decoded \in Decoders
      BY <1>1, <1>2, <1>5 DEF DecDecode, Decoded, Idle, Decoders
    <3> QED BY <1>5, <3>1 DEF DecDecode
  <2>2. codecMode' \in {"plain", "loop"} /\ rxq' \in Seq(Frames)
    BY <1>1, <1>5 DEF DecDecode, NodeTypes
  <2> QED BY <1>5, <2>1, <2>2 DEF DecDecode, NodeTypes
<1>6. CASE DecHandle
  <2>1. dec' \in Decoders
    BY <1>6 DEF DecHandle, Idle, NodeTypes, Decoders
  <2>2. scanReady' \in {0, 1, 2}
    BY <1>6 DEF DecHandle, NodeTypes
  <2> QED BY <1>6, <2>1, <2>2 DEF DecHandle, NodeTypes
<1>7. CASE DecAnswer \/ DecEnds
  <2>1. CASE DecAnswer
    <3>1. driver' \in Drivers
      BY <2>1 DEF DecAnswer, NodeTypes, Drivers, Decoders
    <3>2. dec' \in Decoders
      BY <2>1 DEF DecAnswer, Idle, Decoders
    <3> QED BY <2>1, <3>1, <3>2 DEF DecAnswer, NodeTypes
  <2>2. CASE DecEnds
    <3>1. dec' \in Decoders
      BY <2>2 DEF DecEnds, NodeTypes, Decoders
    <3> QED BY <2>2, <3>1 DEF DecEnds, NodeTypes
  <2> QED BY <1>7, <2>1, <2>2
<1>8. CASE Wire
  <2>1. CASE DeviceSamples
    BY <1>2, <2>1 DEF DeviceSamples, NodeTypes
  <2>2. CASE FrameLost
    BY <1>1, <2>2 DEF FrameLost, NodeTypes
  <2>3. CASE Unplugged
    <3>1. port' \in Ports
      BY <2>3 DEF Unplugged, NodeTypes, Ports
    <3>2. device' \in LidarStates /\ lost' \in Nat
      BY <1>3, <2>3, LinkAssumption DEF Unplugged, LidarStates
    <3> QED BY <1>2, <2>3, <3>1, <3>2 DEF Unplugged, NodeTypes
  <2> QED BY <1>8, <2>1, <2>2, <2>3 DEF Wire
<1> QED BY <1>4, <1>5, <1>6, <1>7, <1>8 DEF Dec

\* The application's thread, in a call.
LEMMA TypedCall ==
  ASSUME Typed, Call, UNCHANGED nodeVars PROVE NodeTypes'
<1>0. NodeTypes /\ ScriptInv
  BY DEF Typed
<1> USE DEF nodeVars
<1>1. ASSUME app.todo # << >> PROVE Doing \in Steps
  BY <1>0, <1>1, FirstIsOne DEF NodeTypes, Apps
<1>2. ASSUME NEW ok \in BOOLEAN, Done(ok), app.todo # << >>
      PROVE  /\ app' \in Apps
             /\ app'.at = "step"
  <2>1. app' \in [at : {"step"}, todo : Seq(Steps), ok : BOOLEAN]
    BY <1>0, <1>2, DoneLeaves
  <2> QED BY <2>1 DEF Apps
<1>3. ASSUME NEW f \in Frames PROVE Append(air, f) \in Seq(Frames)
  BY <1>0, <1>3, Queued DEF NodeTypes
<1>4. CASE AskLock
  <2>1. /\ app' \in Apps
        /\ app'.todo # << >>
    BY <1>0, <1>4 DEF AskLock, InStep, NodeTypes, Apps
  <2> QED BY <1>0, <1>4, <2>1 DEF AskLock, NodeTypes
<1>5. CASE AskSend
  <2>1. app.todo # << >> /\ Doing.what \in Whats
    BY <1>0, <1>1, <1>5 DEF AskSend, NodeTypes, Steps
  <2>2. /\ app' \in Apps
        /\ app'.at = "step" \/ app'.todo # << >>
    <3>1. CASE Writable
      BY <1>0, <1>5, <2>1, <3>1 DEF AskSend, NodeTypes, Apps
    <3>2. CASE ~Writable
      BY <1>2, <1>5, <2>1, <3>2 DEF AskSend
    <3> QED BY <3>1, <3>2
  <2>3. driver' \in Drivers
    BY <1>0, <1>5, <2>1 DEF AskSend, NodeTypes, Frames, Drivers
  <2>4. air' \in Seq(Frames)
    <3>1. Doing.what \in Frames
      BY <2>1 DEF Frames
    <3> QED BY <1>0, <1>3, <1>5, <3>1 DEF AskSend, NodeTypes
  <2>5. codecMode' = "plain"
    BY <1>5 DEF AskSend
  <2> QED BY <1>0, <1>5, <2>2, <2>3, <2>4, <2>5 DEF AskSend, NodeTypes
<1>6. CASE AskTimesOut
  <2>1. app.todo # << >> /\ Done(FALSE)
    BY <1>0, <1>6 DEF AskTimesOut, NodeTypes
  <2>2. late' \in Nat
    BY <1>0, <1>6 DEF AskTimesOut, NodeTypes
  <2>9. app' \in Apps /\ app'.at = "step"
    BY <1>2, <2>1
  <2> QED BY <1>0, <2>9, <1>6, <2>1, <2>2 DEF AskTimesOut, NodeTypes
<1>7. CASE AskTake
  <2>1. app.todo # << >> /\ Done(TRUE) /\ Doing.decides \in Motors
    BY <1>0, <1>1, <1>7 DEF AskTake, NodeTypes, Steps
  <2>2. driver' \in Drivers
    BY <1>0, <1>7, <2>1 DEF AskTake, NodeTypes, Drivers
  <2>9. app' \in Apps /\ app'.at = "step"
    BY <1>2, <2>1
  <2> QED BY <1>0, <2>9, <1>7, <2>1, <2>2 DEF AskTake, NodeTypes
<1>8. CASE Tell
  <2>1. app.todo # << >> /\ Done(Writable) /\ Doing.what \in Whats /\ Writable \in BOOLEAN
    BY <1>0, <1>1, <1>8 DEF Tell, InStep, Steps, Writable, NodeTypes
  <2>2. driver' \in Drivers
    BY <1>0, <1>8 DEF Tell, NodeTypes, Drivers
  <2>5. codecMode' \in {"plain", "loop"} /\ starts' \in {0, 1}
    BY <1>0, <1>8 DEF Tell, NodeTypes
  <2>3. device' \in LidarStates
    BY <1>0, <1>8, <2>1 DEF Tell, Obey, NodeTypes, LidarStates
  <2>4. air' \in Seq(Frames)
    BY <1>0, <1>3, <1>8 DEF Tell, NodeTypes, Frames
  <2>9. app' \in Apps /\ app'.at = "step"
    BY <1>2, <2>1
  <2> QED BY <1>0, <2>9, <1>8, <2>1, <2>2, <2>3, <2>4, <2>5 DEF Tell, NodeTypes
<1>9. CASE TellDTR
  <2>1. app.todo # << >> /\ Done(TRUE) /\ Doing.what \in Whats
    BY <1>0, <1>1, <1>9 DEF TellDTR, InStep, Steps
  <2>2. device' \in LidarStates
    BY <1>0, <1>9, <2>1 DEF TellDTR, NodeTypes, LidarStates
  <2>9. app' \in Apps /\ app'.at = "step"
    BY <1>2, <2>1
  <2> QED BY <1>0, <2>9, <1>9, <2>1, <2>2 DEF TellDTR, NodeTypes
<1>10. CASE Enable
  <2>1. app.todo # << >> /\ Done(TRUE)
    BY <1>10 DEF Enable, InStep
  <2>2. driver' \in Drivers
        /\ scanReady' \in {0, 1, 2}
    BY <1>0, <1>10 DEF Enable, NodeTypes, Drivers
  <2>9. app' \in Apps /\ app'.at = "step"
    BY <1>2, <2>1
  <2> QED BY <1>0, <2>9, <1>10, <2>1, <2>2 DEF Enable, NodeTypes
<1>11. CASE Connect
  <2>1. app.todo # << >> /\ Done(TRUE)
    BY <1>11 DEF Connect, InStep
  <2>2. port' \in Ports /\ rx' \in {"none", "run"}
    BY <1>0, <1>11 DEF Connect, NodeTypes, Ports
  <2>3. dec' \in Decoders
    BY <1>0, <1>11 DEF Connect, NodeTypes, Idle, Decoders
  <2>4. driver' \in Drivers
        /\ codecMode' \in {"plain", "loop"}
    BY <1>0, <1>11 DEF Connect, NodeTypes, Motors, Drivers
  <2>9. app' \in Apps /\ app'.at = "step"
    BY <1>2, <2>1
  <2> QED BY <1>0, <2>9, <1>11, <2>1, <2>2, <2>3, <2>4 DEF Connect, NodeTypes
<1>12. CASE Unbind
  <2>1. app.todo # << >>
    BY <1>12 DEF Unbind, InStep
  <2>2. /\ app' \in Apps
        /\ app'.todo = app.todo
    BY <1>0, <1>12 DEF Unbind, NodeTypes, Apps
  <2>3. driver' \in Drivers
        /\ codecMode' \in {"plain", "loop"}
    BY <1>0, <1>12 DEF Unbind, NodeTypes, Drivers
  <2>4. port' \in Ports
    BY <1>0, <1>12 DEF Unbind, NodeTypes, Ports
  <2> QED BY <1>0, <1>12, <2>1, <2>2, <2>3, <2>4 DEF Unbind, NodeTypes
<1>13. CASE Join
  <2>1. app.todo # << >> /\ Done(TRUE)
    BY <1>0, <1>13 DEF Join, NodeTypes
  <2>2. driver' \in Drivers
    BY <1>0, <1>13 DEF Join, NodeTypes, Drivers
  <2>3. port' \in Ports
    BY <1>0, <1>13 DEF Join, NodeTypes, Ports
  <2>4. rxq' \in Seq(Frames) /\ air' \in Seq(Frames)
    BY <1>13, EmptySeq DEF Join
  <2>9. app' \in Apps /\ app'.at = "step"
    BY <1>2, <2>1
  <2> QED BY <1>0, <2>9, <1>13, <2>1, <2>2, <2>3, <2>4 DEF Join, NodeTypes
<1> QED BY <1>4, <1>5, <1>6, <1>7, <1>8, <1>9, <1>10, <1>11, <1>12, <1>13 DEF Call

\* A step of a call is begun, or it is over.
LEMMA CallMoves ==
  ASSUME Typed, Call
  PROVE  /\ app.todo # << >> /\ app.at # "out"
         /\ \/ \E ok \in BOOLEAN : Done(ok)
            \/ /\ app'.todo = app.todo /\ app'.ok = app.ok
               /\ \/ app'.at \in {"locked", "wait"} /\ Doing.do = "ask"
                  \/ app'.at = "join" /\ Doing.do = "disconnect"
<1> USE DEF Typed
<1>1. CASE AskLock \/ Unbind
  BY <1>1 DEF AskLock, Unbind, InStep, NodeTypes, Apps
<1>2. CASE AskSend
  <2>1. app.todo # << >> /\ Doing.do = "ask" /\ app.at = "locked"
    BY <1>2 DEF AskSend, NodeTypes, ScriptInv
  <2>2. app' = [app EXCEPT !.at = "wait"] \/ Done(FALSE)
    BY <1>2 DEF AskSend
  <2> QED BY <2>1, <2>2 DEF NodeTypes, Apps
<1>3. CASE AskTimesOut \/ AskTake \/ Join
  <2>1. app.todo # << >> /\ app.at # "out"
    BY <1>3 DEF AskTimesOut, AskTake, Join, NodeTypes
  <2>2. Done(TRUE) \/ Done(FALSE)
    BY <1>3 DEF AskTimesOut, AskTake, Join
  <2> QED BY <2>1, <2>2
<1>4. CASE Tell \/ TellDTR \/ Enable \/ Connect
  <2>1. app.todo # << >> /\ app.at # "out"
    BY <1>4 DEF Tell, TellDTR, Enable, Connect, InStep
  <2>2. Done(TRUE) \/ Done(Writable)
    BY <1>4 DEF Tell, TellDTR, Enable, Connect
  <2>3. Writable \in BOOLEAN
    BY DEF Writable
  <2> QED BY <2>1, <2>2, <2>3
<1> QED BY <1>1, <1>2, <1>3, <1>4 DEF Call

LEMMA ScriptKept ==
  ASSUME Typed, LinkNext, UNCHANGED nodeVars PROVE ScriptInv'
<1>0. NodeTypes /\ ScriptInv
  BY DEF Typed
<1>1. CASE Rx \/ Dec \/ Wire
  <2>1. app' = app /\ node' = node
    BY <1>1
    DEF Rx, RxTake, RxEnds, Dec, DecDecode, DecHandle, DecAnswer, DecEnds, Wire, DeviceSamples,
        FrameLost, Unplugged, nodeVars
  <2> QED BY <1>0, <2>1 DEF ScriptInv, Doing
<1>2. CASE Call
  <2>1. node' = node
    BY DEF nodeVars
  <2>2. app.todo # << >> /\ app.at # "out"
    BY <1>2, CallMoves
  <2>3. CASE \E ok \in BOOLEAN : Done(ok)
    <3>1. PICK ok \in BOOLEAN : Done(ok)
      BY <2>3
    <3>2. app'.at = "step"
      BY <1>0, <2>2, <3>1, DoneLeaves
    <3>3. ASSUME NEW M, app.todo \in Seq(M) PROVE app'.todo \in Seq(M)
      BY <1>0, <2>2, <3>1, <3>3, CallProceeds
    <3>4. ASSUME node.at = "starting" PROVE StartRest(app'.todo) /\ (app'.todo # << >> => app'.ok)
      BY <1>0, <2>2, <3>1, <3>4, StartProceeds DEF ScriptInv
    <3>5. /\ app.todo \in Seq(Mundane \cup Connecting) => app'.todo \in Seq(Mundane \cup Connecting)
          /\ app.todo \in Seq(Mundane) => app'.todo \in Seq(Mundane)
          /\ app.todo \in Seq(Gentle) => app'.todo \in Seq(Gentle)
          /\ app.todo \in Seq(Parting) => app'.todo \in Seq(Parting)
      BY <3>3
    <3> QED BY <1>0, <2>1, <2>2, <3>2, <3>4, <3>5 DEF ScriptInv
  <2>4. CASE /\ app'.todo = app.todo /\ app'.ok = app.ok
             /\ \/ app'.at \in {"locked", "wait"} /\ Doing.do = "ask"
                \/ app'.at = "join" /\ Doing.do = "disconnect"
    <3>1. Doing' = Doing
      BY <2>4 DEF Doing
    <3> QED BY <1>0, <2>1, <2>2, <2>4, <3>1 DEF ScriptInv
  <2> QED BY <1>2, <2>3, <2>4, CallMoves
<1> QED BY <1>1, <1>2 DEF LinkNext

\* The node begins a call, or is back from one.
LEMMA TypedCalls ==
  ASSUME NodeTypes, NEW script, script \in Seq(Steps), Calls(script),
         node' \in NodeStates, UNCHANGED <<model, mode, standby>>
  PROVE  NodeTypes' /\ app' \in Apps /\ app'.at = "step" /\ app'.todo = script /\ app'.ok
<1>1. app' \in Apps /\ app'.at = "step" /\ app'.todo = script /\ app'.ok
  BY DEF Calls, Apps
<1> QED BY <1>1 DEF NodeTypes, Calls

LEMMA TypedReturns ==
  ASSUME NodeTypes, Returns, node' \in NodeStates, UNCHANGED <<model, mode, standby>>
  PROVE  NodeTypes' /\ app'.at = "out"
<1>1. app' \in Apps /\ app'.at = "out"
  BY DEF Returns, NodeTypes, Apps
<1> QED BY <1>1 DEF NodeTypes, Returns

LEMMA StartScripted ==
  ASSUME NodeTypes, StartScript
  PROVE  \E s \in Seq(Steps) : Calls(s) /\ Starting(s, 4) /\ StartRest(s)
<1> DEFINE s == Tolerated(SetMotorSpeed(driver.support, "default"))
                  \o SetScanMode(mode.plain, mode.named)
<1>1. mode.plain \in BOOLEAN /\ mode.named \in BOOLEAN
  BY DEF NodeTypes
<1>2. Starting(s, 4)
  BY <1>1, StartIsStart
<1>3. Calls(s)
  BY DEF StartScript
<1> HIDE DEF s
<1> QED BY <1>2, <1>3 DEF Starting, StartRest

LEMMA StopScripted ==
  ASSUME StopScript
  PROVE  \E s \in Seq(Mundane) : /\ Calls(s) /\ s \in Seq(Steps)
                                 /\ s # << >> /\ s[1].do = "tell" /\ s[1].what = "stop"
<1> DEFINE s == StopCalls(driver.support)
<1>1. Calls(s)
  BY DEF StopScript, StopCalls
<1>2. s \in Seq(Mundane) /\ s # << >> /\ s[1].do = "tell" /\ s[1].what = "stop"
  BY StopIsMundane
<1> HIDE DEF s
<1> QED BY <1>1, <1>2, MundaneIsStep

LEMMA TypedStartUp ==
  ASSUME Typed, StartUp PROVE Typed'
<1>0. NodeTypes /\ ScriptInv /\ UNCHANGED <<model, mode, standby>>
  BY DEF Typed, StartUp, Connects, AsksInfo, AsksHealth, AsksModel, SpinsUp, FirstStart,
      Checked, Same
<1>1. CASE Connects
  <2>1. ConnectCall(model) \in Seq(Mundane \cup Connecting)
    BY <1>0, ConnectIsAllowed DEF NodeTypes
  <2>2. ConnectCall(model) \in Seq(Steps)
    <3>1. Mundane \cup Connecting \subseteq Steps
      BY DEF Mundane, Asking, Driving, Halting, Connecting
    <3> DEFINE M == Mundane \cup Connecting
    <3> HIDE DEF M
    <3>2. ConnectCall(model) \in Seq(M) /\ M \subseteq Steps
      BY <2>1, <3>1 DEF M
    <3> QED BY <3>2
  <2>3. node' \in NodeStates /\ node'.at = "called" /\ node'.next = "info"
    BY <1>0, <1>1 DEF Connects, Goes, NodeStates, NodeTypes, Places, Opening
  <2>4. NodeTypes' /\ app'.at = "step" /\ app'.todo = ConnectCall(model) /\ app'.ok
    BY <1>0, <1>1, <2>2, <2>3, TypedCalls DEF Connects
  <2> QED BY <2>1, <2>3, <2>4 DEF Typed, ScriptInv, Opening
<1>2. CASE AsksInfo \/ AsksHealth \/ AsksModel
  <2> DEFINE s == IF AsksHealth THEN GetHealth ELSE GetDeviceInfo
  <2>1. Calls(s)
    BY <1>2 DEF AsksInfo, AsksHealth, AsksModel
  <2>2. s \in Seq(Mundane) /\ s \in Seq(Steps)
    BY QueryIsMundane, MundaneIsStep
  <2>3. /\ node' \in NodeStates
        /\ \/ node'.at = "called" /\ node'.next \in {"health", "model"}
           \/ node'.at = "modelled"
    BY <1>0, <1>2 DEF AsksInfo, AsksHealth, AsksModel, Goes, NodeStates, NodeTypes, Places, Opening
  <2> HIDE DEF s
  <2>4. NodeTypes' /\ app'.at = "step" /\ app'.todo = s /\ app'.ok
    BY <1>0, <2>1, <2>2, <2>3, TypedCalls
  <2> QED BY <2>2, <2>3, <2>4 DEF Typed, ScriptInv, Opening
<1>3. CASE SpinsUp
  <2>1. PICK spins \in BOOLEAN :
          /\ Calls(IF spins THEN Tolerated(SetMotorSpeed(driver.support, "slow")) ELSE << >>)
          /\ node' = [node EXCEPT !.at = "called", !.next = IF standby THEN "loop" ELSE "first",
                                  !.tune = ~spins]
    BY <1>3 DEF SpinsUp
  <2> DEFINE s == IF spins THEN Tolerated(SetMotorSpeed(driver.support, "slow")) ELSE << >>
  <2>2. s \in Seq(Gentle)
    BY SlowIsGentle, QueryIsMundane
  <2>3. s \in Seq(Mundane) /\ s \in Seq(Steps)
    <3> HIDE DEF s
    <3> QED BY <2>2, GentleIsMundane, MundaneIsStep
  <2>4. node' \in NodeStates /\ node'.at = "called" /\ node'.next \in {"loop", "first"}
    BY <1>0, <2>1 DEF NodeStates, NodeTypes, Places, Opening
  <2> HIDE DEF s
  <2>5. NodeTypes' /\ app'.at = "step" /\ app'.todo = s /\ app'.ok
    BY <1>0, <2>1, <2>3, <2>4, TypedCalls DEF s
  <2> QED BY <2>2, <2>3, <2>4, <2>5 DEF Typed, ScriptInv, Opening
<1>4. CASE FirstStart
  <2>1. PICK s \in Seq(Steps) : Calls(s) /\ StartRest(s)
    BY <1>0, <1>4, StartScripted DEF FirstStart
  <2>2. node' \in NodeStates /\ node'.at = "starting" /\ node'.next = "loop"
    BY <1>0, <1>4 DEF FirstStart, Goes, NodeStates, NodeTypes, Places, Opening
  <2>3. NodeTypes' /\ app'.at = "step" /\ app'.todo = s /\ app'.ok
    BY <1>0, <2>1, <2>2, TypedCalls
  <2> QED BY <2>1, <2>2, <2>3 DEF Typed, ScriptInv
<1>5. CASE Checked
  <2>1. PICK at \in {node.next, "delete"} : node' = [node EXCEPT !.at = at]
    BY <1>5 DEF Checked
  <2>2. node.next \in Opening \cup {"loop", "delete", "gone"}
    BY <1>0, <1>5 DEF Checked, ScriptInv
  <2>3. node' \in NodeStates /\ node'.at \in Opening \cup {"loop", "delete", "gone"}
    BY <1>0, <2>1, <2>2 DEF NodeStates, NodeTypes, Places
  <2>4. NodeTypes' /\ app'.at = "out"
    BY <1>0, <1>5, <2>3, TypedReturns DEF Checked
  <2> QED BY <2>3, <2>4 DEF Typed, ScriptInv, Opening
<1> QED BY <1>1, <1>2, <1>3, <1>4, <1>5 DEF StartUp

LEMMA TypedStartStop ==
  ASSUME Typed, StartStop \/ StandbyStarts \/ StandbyStops \/ Services PROVE Typed'
<1>0. NodeTypes /\ ScriptInv /\ UNCHANGED <<model, mode, standby>>
  BY DEF Typed, StartStop, Started, StartFailed, Stopped, StandbyStarts, StandbyStops, Services,
         StopMotor, StartMotor, Same
<1>1. CASE Started \/ Stopped
  <2>1. node.next \in {"loop", "grab", "spin", "delete"}
    BY <1>0, <1>1 DEF Started, Stopped, ScriptInv
  <2>2. node' \in NodeStates /\ node'.at = node.next
    BY <1>0, <1>1 DEF Started, Stopped, NodeStates, NodeTypes
  <2>3. NodeTypes' /\ app'.at = "out"
    BY <1>0, <1>1, <2>2, TypedReturns DEF Started, Stopped
  <2> QED BY <2>1, <2>2, <2>3 DEF Typed, ScriptInv
<1>2. CASE StartFailed \/ StandbyStops \/ StopMotor
  <2>1. PICK s \in Seq(Mundane) : Calls(s) /\ s \in Seq(Steps)
    BY <1>2, StopScripted DEF StartFailed, StandbyStops, StopMotor
  <2>2. node' \in NodeStates /\ node'.at = "stopping" /\ node'.next \in {"delete", "grab", "spin"}
    <3>1. CASE StartFailed
      <4>1. node.next \in {"loop", "grab", "spin"}
        BY <1>0, <3>1 DEF StartFailed, ScriptInv
      <4> QED BY <1>0, <3>1, <4>1 DEF StartFailed, Goes, NodeStates, NodeTypes, Places
    <3>2. CASE StandbyStops \/ StopMotor
      BY <1>0, <3>2 DEF StandbyStops, StopMotor, Goes, NodeStates, NodeTypes, Places
    <3> QED BY <1>2, <3>1, <3>2
  <2>3. NodeTypes' /\ app'.at = "step" /\ app'.todo = s /\ app'.ok
    BY <1>0, <2>1, <2>2, TypedCalls
  <2> QED BY <2>1, <2>2, <2>3 DEF Typed, ScriptInv
<1>3. CASE StandbyStarts \/ StartMotor
  <2>1. PICK s \in Seq(Steps) : Calls(s) /\ StartRest(s)
    BY <1>0, <1>3, StartScripted DEF StandbyStarts, StartMotor
  <2>2. node' \in NodeStates /\ node'.at = "starting" /\ node'.next \in {"grab", "spin"}
    BY <1>0, <1>3 DEF StandbyStarts, StartMotor, Goes, NodeStates, NodeTypes, Places
  <2>3. NodeTypes' /\ app'.at = "step" /\ app'.todo = s /\ app'.ok
    BY <1>0, <2>1, <2>2, TypedCalls
  <2> QED BY <2>1, <2>2, <2>3 DEF Typed, ScriptInv
<1> QED BY <1>1, <1>2, <1>3 DEF StartStop, Services

LEMMA TypedLoop ==
  ASSUME Typed, Loops \/ GrabsFirst \/ Publishes \/ GrabTimesOut \/ Spins \/ Leaves \/ Deletes
                  \/ Interrupted \/ ListenersChange
  PROVE  Typed'
<1>0. NodeTypes /\ ScriptInv
  BY DEF Typed
<1>1. CASE Loops \/ Publishes \/ GrabTimesOut \/ Spins
  <2>1. /\ UNCHANGED <<port, rx, dec, rxq, codecMode, driver, app, device, air, lost, late, starts,
                       model, mode, standby>>
        /\ scanReady' = scanReady \/ scanReady' = 0
        /\ app.at = "out"
    BY <1>1 DEF Loops, Publishes, GrabTimesOut, Spins, linkVars, Free
  <2>2. node' \in NodeStates /\ node'.at \in {"grab", "spin", "loop"}
    BY <1>0, <1>1 DEF Loops, Publishes, GrabTimesOut, Spins, NodeStates, NodeTypes, Places
  <2>3. NodeTypes'
    BY <1>0, <2>1, <2>2 DEF NodeTypes
  <2> QED BY <1>0, <2>1, <2>2, <2>3 DEF Typed, ScriptInv, Doing
<1>2. CASE Interrupted \/ ListenersChange
  <2>1. UNCHANGED <<linkVars, model, mode, standby, node>>
    BY <1>2 DEF Interrupted, ListenersChange
  <2> QED BY <1>0, <2>1 DEF Typed, NodeTypes, ScriptInv, Doing, linkVars
<1>3. CASE GrabsFirst
  <2> DEFINE s == Tolerated(SetMotorSpeed(driver.support, "tuned"))
  <2>1. s \in Seq(Gentle)
    BY SlowIsGentle
  <2>2. app' = [at |-> "step", todo |-> s, ok |-> TRUE]
    BY <1>3 DEF GrabsFirst
  <2> HIDE DEF s
  <2>3. s \in Seq(Steps)
    BY <2>1, GentleIsMundane, MundaneIsStep
  <2>4. app' \in Apps /\ app'.at = "step" /\ app'.todo = s /\ app'.ok
    BY <2>2, <2>3 DEF Apps
  <2>5. node' \in NodeStates /\ node'.at = "called" /\ node'.next = "loop"
    BY <1>0, <1>3 DEF GrabsFirst, NodeStates, NodeTypes, Places
  <2>6. NodeTypes'
    BY <1>0, <1>3, <2>4, <2>5 DEF GrabsFirst, Same, NodeTypes
  <2> QED BY <2>1, <2>4, <2>5, <2>6 DEF Typed, ScriptInv
<1>4. CASE Leaves
  <2> DEFINE s == Tolerated(SetMotorSpeed(driver.support, "off"))
                    \o Tolerated(StopCall(driver.support))
  <2>1. s \in Seq(Mundane)
    BY LeavingIsMundane
  <2>2. Calls(s)
    BY <1>4 DEF Leaves
  <2> HIDE DEF s
  <2>3. node' \in NodeStates /\ node'.at = "called" /\ node'.next = "delete"
    BY <1>0, <1>4 DEF Leaves, Goes, NodeStates, NodeTypes, Places
  <2>4. NodeTypes' /\ app'.at = "step" /\ app'.todo = s /\ app'.ok
    BY <1>0, <1>4, <2>1, <2>2, <2>3, MundaneIsStep, TypedCalls DEF Leaves, Same
  <2> QED BY <2>1, <2>3, <2>4 DEF Typed, ScriptInv
<1>5. CASE Deletes
  <2>1. node' \in NodeStates /\ node'.at = "called" /\ node'.next = "gone"
    BY <1>0, <1>5 DEF Deletes, Goes, NodeStates, NodeTypes, Places
  <2>2. NodeTypes' /\ app'.at = "step" /\ app'.todo = DisconnectCall /\ app'.ok
    BY <1>0, <1>5, <2>1, PartingIsStep, TypedCalls DEF Deletes, Same
  <2> QED BY <2>1, <2>2, PartingIsStep DEF Typed, ScriptInv
<1> QED BY <1>1, <1>2, <1>3, <1>4, <1>5

LEMMA TypedNext == ASSUME Typed, [LidarNext]_lidarVars PROVE Typed'
<1>1. CASE LinkNext /\ UNCHANGED nodeVars
  <2>1. NodeTypes'
    BY <1>1, TypedThreads, TypedCall DEF LinkNext, Typed
  <2> QED BY <1>1, <2>1, ScriptKept DEF Typed
<1>2. CASE StartUp \/ StartStop \/ WorkLoop \/ Services \/ Interrupted \/ ListenersChange
  BY <1>2, TypedStartUp, TypedStartStop, TypedLoop DEF WorkLoop
<1>3. CASE UNCHANGED lidarVars
  BY <1>3 DEF Typed, NodeTypes, ScriptInv, Doing, lidarVars, linkVars, nodeVars
<1> QED BY <1>1, <1>2, <1>3 DEF LidarNext, Gone

-----------------------------------------------------------------------------
\* The lidar follows the node.

\* Neither in a start nor in a stop, nor on the way out.
Settled ==
  /\ node.at \notin {"starting", "stopping", "delete", "gone"}
  /\ node.at = "called" => node.next \notin {"delete", "gone"}

\* Before the first start.
NotYet == \/ node.at \in Opening \cup {"connect", "modelled"}
          \/ node.at = "called" /\ node.next \in Opening

Announced(s) == \E i \in DOMAIN s : s[i] = "descriptor"
Heard == driver.enabled /\ (codecMode = "loop" \/ Announced(air) \/ Announced(rxq))

BoundInv ==
  /\ app.at # "join" => port.bound = port.working
  /\ app.at = "join" => ~port.working

NotYetInv ==
  /\ NotYet => ~node.scanning
  /\ node.at = "connect" \/ (node.at = "called" /\ node.next = "info") => ~device.scanning

SettledInv ==
  Settled =>
    /\ Writable => /\ node.scanning = device.scanning
                   /\ node.scanning => device.speed # "off"
    /\ node.scanning /\ lost = 0 => Heard
    /\ ~node.scanning => ~driver.enabled

\* The last steps of a start: the motor runs, the unpacker is enabled, the lidar scans.
StartingInv ==
  node.at = "starting" =>
    /\ app.todo = << >> /\ app.ok =>
         /\ Writable => device.scanning /\ device.speed # "off"
         /\ lost = 0 => Heard
    /\ Len(app.todo) \in {1, 2} /\ Writable => device.speed # "off"
    /\ Len(app.todo) = 1 => driver.enabled

\* The first step of a stop.
StoppingInv ==
  node.at = "stopping" =>
    \/ app.at = "step" /\ app.todo # << >> /\ Doing.do = "tell" /\ Doing.what = "stop"
    \/ (Writable => ~device.scanning) /\ ~driver.enabled

FollowInv == BoundInv /\ NotYetInv /\ SettledInv /\ StartingInv /\ StoppingInv

LEMMA FollowInit == LidarInit => FollowInv
  BY EmptySeq
  DEF LidarInit, LinkInit, FollowInv, BoundInv, NotYetInv, SettledInv, StartingInv, StoppingInv,
      NotYet, Settled, Opening, Writable, Announced, Heard

\* A descriptor in a queue stays in it until it is taken.
LEMMA AnnouncedQueue ==
  ASSUME NEW s \in Seq(Frames)
  PROVE  /\ s # << >> /\ Announced(s) => Head(s) = "descriptor" \/ Announced(Tail(s))
         /\ \A f \in Frames : f = "descriptor" \/ Announced(s) => Announced(Append(s, f))
<1>1. ASSUME s # << >>, Announced(s), Head(s) # "descriptor" PROVE Announced(Tail(s))
  <2> DEFINE hd == Head(s)
             t == Tail(s)
  <2>1. /\ hd = s[1] /\ t \in Seq(Frames) /\ Len(t) = Len(s) - 1
        /\ \A i \in 1 .. Len(t) : t[i] = s[i + 1]
    BY <1>1, HeadTailProperties
  <2>2. DOMAIN s = 1 .. Len(s) /\ DOMAIN t = 1 .. Len(t) /\ Len(s) \in Nat
    BY <2>1, LenProperties
  <2>3. hd # "descriptor"
    BY <1>1
  <2> HIDE DEF hd, t
  <2>4. PICK i \in 1 .. Len(s) : s[i] = "descriptor" /\ i # 1
    BY <1>1, <2>1, <2>2, <2>3 DEF Announced
  <2>5. i - 1 \in 1 .. Len(t) /\ (i - 1) + 1 = i
    BY <2>1, <2>2, <2>4
  <2>6. t[i - 1] = "descriptor"
    BY <2>1, <2>4, <2>5
  <2>7. Announced(t)
    BY <2>2, <2>5, <2>6 DEF Announced
  <2> QED BY <2>7 DEF t
<1>2. ASSUME NEW f \in Frames, f = "descriptor" \/ Announced(s) PROVE Announced(Append(s, f))
  <2>1. /\ DOMAIN s = 1 .. Len(s) /\ Len(s) \in Nat
        /\ Len(Append(s, f)) = Len(s) + 1 /\ Append(s, f) \in Seq(Frames)
        /\ \A i \in 1 .. Len(s) : Append(s, f)[i] = s[i]
        /\ Append(s, f)[Len(s) + 1] = f
    BY AppendProperties, LenProperties
  <2>2. DOMAIN Append(s, f) = 1 .. Len(s) + 1
    BY <2>1, LenProperties
  <2>3. Len(s) + 1 \in 1 .. Len(s) + 1 /\ \A i \in 1 .. Len(s) : i \in 1 .. Len(s) + 1
    BY <2>1
  <2> QED BY <1>2, <2>1, <2>2, <2>3 DEF Announced
<1> QED BY <1>1, <1>2

\* What the receiver, the decoder and the wire do to it.
LEMMA ThreadsEffect ==
  ASSUME NodeTypes, Rx \/ Dec \/ Wire
  PROVE  /\ app' = app /\ driver'.enabled = driver.enabled
         /\ \/ port' = port /\ device' = device
            \/ /\ ~device'.scanning /\ port'.broken
               /\ port'.bound = port.bound /\ port'.working = port.working
         /\ lost' = 0 => lost = 0 /\ (Heard => Heard')
<1>1. CASE Rx
  <2>1. CASE RxTake
    <3> DEFINE hd == Head(air)
               t == Tail(air)
    <3>1. /\ app' = app /\ driver' = driver /\ port' = port /\ device' = device /\ lost' = lost
          /\ codecMode' = codecMode /\ rxq' = Append(rxq, hd) /\ air' = t /\ air # << >>
      BY <2>1 DEF RxTake
    <3>2. air \in Seq(Frames) /\ rxq \in Seq(Frames)
      BY DEF NodeTypes
    <3>3. hd \in Frames
      BY <3>1, <3>2, Queued
    <3>4. Announced(air) => hd = "descriptor" \/ Announced(t)
      BY <3>1, <3>2, AnnouncedQueue
    <3>5. Announced(rxq) \/ hd = "descriptor" => Announced(Append(rxq, hd))
      BY <3>2, <3>3, AnnouncedQueue
    <3> HIDE DEF hd, t
    <3>6. Heard => Heard'
      BY <3>1, <3>4, <3>5 DEF Heard, Announced
    <3> QED BY <3>1, <3>6
  <2>2. CASE RxEnds
    BY <2>2 DEF RxEnds, Heard, Announced
  <2> QED BY <1>1, <2>1, <2>2 DEF Rx
<1>2. CASE Dec
  <2>1. CASE DecDecode
    <3> DEFINE hd == Head(rxq)
               t == Tail(rxq)
    <3>1. /\ app' = app /\ driver' = driver /\ port' = port /\ device' = device /\ lost' = lost
          /\ air' = air /\ rxq' = t /\ rxq # << >>
          /\ codecMode' = IF hd = "descriptor" THEN "loop" ELSE codecMode
      BY <2>1 DEF DecDecode
    <3>2. rxq \in Seq(Frames)
      BY DEF NodeTypes
    <3>3. Announced(rxq) => hd = "descriptor" \/ Announced(t)
      BY <3>1, <3>2, AnnouncedQueue
    <3> HIDE DEF hd, t
    <3>4. Heard => Heard'
      BY <3>1, <3>3 DEF Heard, Announced
    <3> QED BY <3>1, <3>4
  <2>2. CASE DecHandle \/ DecEnds
    BY <2>2 DEF DecHandle, DecEnds, Heard, Announced
  <2>3. CASE DecAnswer
    <3>1. driver'.enabled = driver.enabled
      BY <2>3 DEF DecAnswer, NodeTypes, Drivers
    <3> QED BY <2>3, <3>1 DEF DecAnswer, Heard, Announced
  <2> QED BY <1>2, <2>1, <2>2, <2>3 DEF Dec
<1>3. CASE Wire
  <2>1. CASE DeviceSamples
    <3>1. ~Announced(air)
      BY <2>1 DEF DeviceSamples, Announced
    <3> QED BY <2>1, <3>1 DEF DeviceSamples, Heard, Announced
  <2>2. CASE FrameLost
    BY <2>2 DEF FrameLost, NodeTypes
  <2>3. CASE Unplugged
    <3>1. lost' # 0
      BY <2>3, LinkAssumption DEF Unplugged, NodeTypes
    <3>2. ~device'.scanning /\ port'.broken /\ port'.bound = port.bound
          /\ port'.working = port.working
      BY <2>3 DEF Unplugged, NodeTypes, Ports
    <3> QED BY <2>3, <3>1, <3>2 DEF Unplugged
  <2> QED BY <1>3, <2>1, <2>2, <2>3 DEF Wire
<1> QED BY <1>1, <1>2, <1>3

LEMMA FollowThreads ==
  ASSUME NodeTypes, FollowInv, Rx \/ Dec \/ Wire, UNCHANGED nodeVars PROVE FollowInv'
<1>1. node' = node
  BY DEF nodeVars
<1>2. /\ app' = app /\ driver'.enabled = driver.enabled
      /\ \/ port' = port /\ device' = device
         \/ /\ ~device'.scanning /\ port'.broken
            /\ port'.bound = port.bound /\ port'.working = port.working
      /\ lost' = 0 => lost = 0 /\ (Heard => Heard')
  BY ThreadsEffect
<1>3. Writable' => Writable /\ device' = device
  BY <1>2 DEF Writable
<1>4. Doing' = Doing
  BY <1>2 DEF Doing
<1> USE DEF FollowInv
<1>5. BoundInv'
  BY <1>2 DEF BoundInv
<1>6. NotYetInv'
  BY <1>1, <1>2 DEF NotYetInv, NotYet
<1>7. SettledInv'
  BY <1>1, <1>2, <1>3 DEF SettledInv, Settled
<1>8. StartingInv'
  BY <1>1, <1>2, <1>3 DEF StartingInv
<1>9. StoppingInv'
  BY <1>1, <1>2, <1>3, <1>4 DEF StoppingInv
<1> QED BY <1>5, <1>6, <1>7, <1>8, <1>9

\* Each kind of step has its actions.
LEMMA StepHasAction ==
  ASSUME Typed, Call
  PROVE  \/ Doing.do = "ask" /\ (AskLock \/ AskSend \/ AskTimesOut \/ AskTake)
         \/ Doing.do = "tell" /\ Tell
         \/ Doing.do = "dtr" /\ TellDTR
         \/ Doing.do = "enable" /\ Enable
         \/ Doing.do = "connect" /\ Connect
         \/ Doing.do = "disconnect" /\ (Unbind \/ Join)
<1>1. ScriptInv
  BY DEF Typed
<1>2. ASSUME AskLock \/ AskSend \/ AskTimesOut \/ AskTake PROVE Doing.do = "ask"
  BY <1>1, <1>2 DEF ScriptInv, AskLock, AskSend, AskTimesOut, AskTake, InStep
<1>3. ASSUME Join PROVE Doing.do = "disconnect"
  BY <1>1, <1>3 DEF ScriptInv, Join
<1>4. /\ Tell => Doing.do = "tell"
      /\ TellDTR => Doing.do = "dtr"
      /\ Enable => Doing.do = "enable"
      /\ Connect => Doing.do = "connect"
      /\ Unbind => Doing.do = "disconnect"
  BY DEF Tell, TellDTR, Enable, Connect, Unbind, InStep
<1> QED BY <1>2, <1>3, <1>4 DEF Call

\* A question and its answer change nothing of the lidar.
LEMMA AskEffect ==
  ASSUME NodeTypes, AskLock \/ AskSend \/ AskTimesOut \/ AskTake
  PROVE  /\ port' = port /\ device' = device /\ (driver'.enabled => driver.enabled)
         /\ app'.at # "join" /\ app.at # "join" /\ lost' = lost
<1>1. /\ port' = port /\ device' = device /\ lost' = lost /\ app.at # "join"
  BY DEF AskLock, AskSend, AskTimesOut, AskTake, InStep
<1>2. driver'.enabled => driver.enabled
  BY DEF AskLock, AskSend, AskTimesOut, AskTake, NodeTypes, Drivers
<1>3. app'.at # "join"
  <2>1. CASE Done(TRUE) \/ Done(FALSE)
    <3>1. app.todo # << >>
      BY DEF NodeTypes, AskLock, AskSend, AskTimesOut, AskTake, InStep
    <3>2. app'.at = "step"
      BY <2>1, <3>1, DoneLeaves
    <3> QED BY <3>2
  <2>2. CASE app' = [app EXCEPT !.at = "wait"] \/ app' = [app EXCEPT !.at = "locked"]
    BY <2>2 DEF NodeTypes, Apps
  <2> QED BY <2>1, <2>2 DEF AskLock, AskSend, AskTimesOut, AskTake
<1> QED BY <1>1, <1>2, <1>3

\* Nor does any other step of a start change what was said of the scan before it, but
\* the last ones.
LEMMA MundaneEffect ==
  ASSUME Typed, Call, Doing \in Mundane
  PROVE  /\ port' = port /\ (device'.scanning => device.scanning)
         /\ driver'.enabled => driver.enabled
         /\ app'.at # "join" /\ app.at # "join" /\ lost' = lost
         /\ Doing.do = "tell" /\ Doing.what = "stop" =>
              (Writable => ~device'.scanning) /\ ~driver'.enabled
<1>0. NodeTypes /\ app.todo # << >>
  BY CallMoves DEF Typed
<1>1. Doing \in Mundane
  OBVIOUS
<1>2. CASE AskLock \/ AskSend \/ AskTimesOut \/ AskTake
  BY <1>0, <1>2, AskEffect, StepHasAction
  DEF AskLock, AskSend, AskTimesOut, AskTake, InStep, ScriptInv, Typed
<1>3. CASE Tell \/ TellDTR
  <2>1. app.at = "step" /\ port' = port /\ lost' = lost
    BY <1>3 DEF Tell, TellDTR, InStep
  <2>2. app'.at = "step"
    <3>1. Done(Writable) \/ Done(TRUE)
      BY <1>3 DEF Tell, TellDTR
    <3>2. Writable \in BOOLEAN
      BY DEF Writable
    <3> QED BY <1>0, <3>1, <3>2, DoneLeaves
  <2>3. driver'.enabled => driver.enabled
    BY <1>0, <1>3 DEF Tell, TellDTR, NodeTypes, Drivers
  <2>4. Doing.what # "scan"
    BY <1>1 DEF Mundane, Asking, Driving, Halting, Questions, Speeds
  <2>5. device'.scanning => device.scanning
    BY <1>0, <1>3, <2>4 DEF Tell, TellDTR, Obey, NodeTypes, LidarStates
  <2>6. Tell /\ Doing.what = "stop" => (Writable => ~device'.scanning) /\ ~driver'.enabled
    BY <1>0 DEF Tell, Obey, NodeTypes, LidarStates, Drivers
  <2>7. Doing.do = "tell" => Tell
    BY <1>3 DEF TellDTR, InStep
  <2> QED BY <2>1, <2>2, <2>3, <2>5, <2>6, <2>7
<1>4. Doing.do \notin {"enable", "connect", "disconnect"}
  BY <1>1 DEF Mundane, Asking, Driving, Halting
<1> QED BY <1>2, <1>3, <1>4, StepHasAction

LEMMA GentleEffect ==
  ASSUME Typed, Call, app.todo \in Seq(Gentle)
  PROVE  /\ UNCHANGED <<port, rxq, air, codecMode, lost>>
         /\ device'.scanning = device.scanning
         /\ device'.speed = device.speed \/ device'.speed # "off"
         /\ driver'.enabled = driver.enabled
<1>0. NodeTypes /\ app.todo # << >>
  BY CallMoves DEF Typed
<1>1. Doing \in Gentle
  BY <1>0, FirstIsOne
<1>2. Doing.do \in {"tell", "dtr"} /\ Doing.what \in Speeds /\ Doing.what # "off"
  BY <1>1 DEF Gentle, Driving
<1>3. Tell \/ TellDTR
  BY <1>2, StepHasAction
<1>4. Doing.what \notin {"scan", "stop"}
  BY <1>2 DEF Speeds
<1>5. UNCHANGED <<port, rxq, air, codecMode, lost>>
  BY <1>3, <1>4 DEF Tell, TellDTR
<1>6. driver'.enabled = driver.enabled
  BY <1>0, <1>3, <1>4 DEF Tell, TellDTR, NodeTypes, Drivers
<1>7. /\ device'.scanning = device.scanning
      /\ device'.speed = device.speed \/ device'.speed # "off"
  BY <1>0, <1>2, <1>3, <1>4 DEF Tell, TellDTR, Obey, NodeTypes, LidarStates
<1> QED BY <1>5, <1>6, <1>7

\* The channel is opened before the lidar was told anything.
LEMMA ConnectEffect ==
  ASSUME Typed, Connect
  PROVE  /\ device' = device /\ driver'.enabled = driver.enabled /\ app'.at = "step"
         /\ port'.bound = port'.working
<1>0. NodeTypes /\ app.todo # << >>
  BY DEF Typed, Connect, InStep
<1>1. app'.at = "step"
  BY <1>0, DoneLeaves DEF Connect
<1>2. driver'.enabled = driver.enabled
  BY <1>0 DEF Connect, NodeTypes, Drivers
<1>3. port'.bound = port'.working
  BY <1>0 DEF Connect, NodeTypes, Ports
<1> QED BY <1>1, <1>2, <1>3 DEF Connect

\* The way out: the threads are told to stop, then the channel is closed.
LEMMA PartingEffect ==
  ASSUME Typed, BoundInv, Call, app.todo \in Seq(Parting) PROVE BoundInv'
<1>0. NodeTypes /\ app.todo # << >>
  BY CallMoves DEF Typed
<1>1. Doing \in Parting
  BY <1>0, FirstIsOne
<1>2. Unbind \/ Join
  BY <1>1, StepHasAction DEF Parting
<1>3. CASE Unbind
  BY <1>0, <1>3 DEF Unbind, BoundInv, NodeTypes, Apps, Ports
<1>4. CASE Join
  <2>1. app'.at = "step"
    BY <1>0, <1>4, DoneLeaves DEF Join
  <2> QED BY <1>0, <1>4, <2>1 DEF Join, BoundInv, NodeTypes, Ports
<1> QED BY <1>2, <1>3, <1>4

\* The last three steps of a start.
LEMMA ScanEffect ==
  ASSUME Typed, Call, StartRest(app.todo), app.ok, StartingInv, node.at = "starting",
         Len(app.todo) = 1
  PROVE  app'.todo = << >> /\ app'.ok =>
           /\ Writable' => device'.scanning /\ device'.speed # "off"
           /\ lost' = 0 => Heard'
<1>0. NodeTypes /\ app.todo # << >>
  BY CallMoves DEF Typed
<1>1. Doing = Order("scan")
  BY <1>0, FirstIsOne DEF StartRest, ScanStep
<1>2. Doing.do = "tell" /\ Doing.what = "scan" /\ Doing.fatal
  BY <1>1 DEF Order, Take
<1>3. Tell
  BY <1>2, StepHasAction
<1>4. CASE ~Writable
  <2>1. \E ok \in BOOLEAN : ~ok /\ Done(ok)
    <3>1. Done(Writable)
      BY <1>3 DEF Tell
    <3>2. Writable \in BOOLEAN
      BY DEF Writable
    <3> QED BY <1>4, <3>1, <3>2
  <2>2. ~app'.ok
    BY <1>0, <1>2, <2>1, StartProceeds
  <2> QED BY <2>2
<1>5. CASE Writable
  <2>1. device' = [device EXCEPT !.scanning = TRUE] /\ air' = Append(air, "descriptor")
        /\ driver' = [driver EXCEPT !.event = FALSE]
    BY <1>2, <1>3, <1>5 DEF Tell, Obey
  <2>2. driver.enabled /\ device.speed # "off"
    BY <1>5 DEF StartingInv
  <2>3. Announced(air')
    <3>1. air \in Seq(Frames) /\ "descriptor" \in Frames
      BY <1>0 DEF NodeTypes, Frames
    <3> QED BY <2>1, <3>1, AnnouncedQueue
  <2>4. driver'.enabled /\ device'.speed # "off" /\ device'.scanning
    BY <1>0, <2>1, <2>2 DEF NodeTypes, Drivers, LidarStates
  <2> QED BY <2>3, <2>4 DEF Heard, Announced
<1> QED BY <1>4, <1>5

LEMMA EnableEffect ==
  ASSUME Typed, Call, StartRest(app.todo), StartingInv, node.at = "starting",
         Len(app.todo) = 2
  PROVE  driver'.enabled /\ (Writable' => device'.speed # "off")
<1>0. NodeTypes /\ app.todo # << >>
  BY CallMoves DEF Typed
<1>1. Doing = Take("enable", "holder")
  BY <1>0, FirstIsOne DEF StartRest, EnableStep
<1>2. Doing.do = "enable"
  BY <1>1 DEF Take
<1>3. Enable
  BY <1>2, StepHasAction
<1>4. driver'.enabled /\ UNCHANGED <<port, device>>
  BY <1>0, <1>3 DEF Enable, NodeTypes, Drivers
<1> QED BY <1>4 DEF StartingInv, Writable

LEMMA MotorEffect ==
  ASSUME Typed, Call, StartRest(app.todo), Len(app.todo) = 3
  PROVE  Writable' => device'.speed # "off"
<1>0. NodeTypes /\ app.todo # << >>
  BY CallMoves DEF Typed
<1>1. Doing \in StartMotors
  BY <1>0, FirstIsOne DEF StartRest
<1>2. Doing.do \in {"tell", "dtr"} /\ Doing.what = "default"
  BY <1>1 DEF StartMotors, Driving
<1>3. Tell \/ TellDTR
  BY <1>2, StepHasAction
<1>4. port' = port
  BY <1>3 DEF Tell, TellDTR
<1>5. Writable => device'.speed = "default"
  BY <1>0, <1>2, <1>3 DEF Tell, TellDTR, Obey, Writable, NodeTypes, LidarStates
<1> QED BY <1>4, <1>5 DEF Writable

\* Which step is the first of what is left of a start.
LEMMA StartSteps ==
  ASSUME StartRest(app.todo), app.todo # << >>
  PROVE  /\ Len(app.todo) = 1 => Doing = ScanStep
         /\ Len(app.todo) = 2 => Doing = EnableStep
         /\ Len(app.todo) = 3 => Doing \in StartMotors
         /\ Len(app.todo) \notin {1, 2, 3} => Doing \in Mundane
         /\ Doing.do \notin {"connect", "disconnect"}
         /\ Doing.do = "ask" => Doing \in Asking /\ Len(app.todo) \notin {1, 2, 3}
<1>1. Len(app.todo) \in Nat \ {0} /\ Doing = app.todo[1]
  BY EmptySeq, LenProperties, FirstIsOne DEF StartRest
<1>2. /\ Len(app.todo) = 1 => Doing = ScanStep
      /\ Len(app.todo) = 2 => Doing = EnableStep
      /\ Len(app.todo) = 3 => Doing \in StartMotors
      /\ Len(app.todo) > 3 => Doing \in Mundane
  <2>1. /\ Len(app.todo) >= 1 => app.todo[Len(app.todo)] = ScanStep
        /\ Len(app.todo) >= 2 => app.todo[Len(app.todo) - 1] = EnableStep
        /\ Len(app.todo) >= 3 => app.todo[Len(app.todo) - 2] \in StartMotors
        /\ \A i \in 1 .. Len(app.todo) - 3 : app.todo[i] \in Mundane
    BY DEF StartRest
  <2> DEFINE n == Len(app.todo)
  <2> HIDE DEF n
  <2>2. n > 3 => 1 \in 1 .. n - 3
    BY <1>1 DEF n
  <2>3. n > 3 => app.todo[1] \in Mundane
    BY <2>1, <2>2 DEF n
  <2>4. /\ n >= 1 => app.todo[n] = ScanStep
        /\ n >= 2 => app.todo[n - 1] = EnableStep
        /\ n >= 3 => app.todo[n - 2] \in StartMotors
    BY <2>1 DEF n
  <2>5. /\ n = 1 => app.todo[1] = ScanStep
        /\ n = 2 => app.todo[1] = EnableStep
        /\ n = 3 => app.todo[1] \in StartMotors
    BY <2>4
  <2> QED BY <1>1, <2>3, <2>5 DEF n
<1>3. Len(app.todo) \in {1, 2, 3} \/ Len(app.todo) > 3
  <2> DEFINE n == Len(app.todo)
  <2>1. n \in Nat \ {0}
    BY <1>1
  <2> HIDE DEF n
  <2>2. n \in {1, 2, 3} \/ n > 3
    BY <2>1
  <2> QED BY <2>2 DEF n
<1>4. ScanStep.do = "tell" /\ EnableStep.do = "enable"
  BY DEF ScanStep, EnableStep, Order, Take
<1>5. ASSUME NEW s \in StartMotors PROVE s.do \in {"tell", "dtr"}
  BY DEF StartMotors, Driving
<1>6. ASSUME NEW s \in Mundane
      PROVE  s.do \in {"ask", "tell", "dtr"} /\ (s.do = "ask" => s \in Asking)
  BY DEF Mundane, Asking, Driving, Halting
<1>7. Len(app.todo) \notin {1, 2, 3} => Doing \in Mundane
  BY <1>2, <1>3
<1>8. \/ Doing = ScanStep /\ Len(app.todo) = 1
      \/ Doing = EnableStep /\ Len(app.todo) = 2
      \/ Doing \in StartMotors /\ Len(app.todo) = 3
      \/ Doing \in Mundane /\ Len(app.todo) \notin {1, 2, 3}
  BY <1>2, <1>3, <1>7
<1>9. /\ Doing.do \notin {"connect", "disconnect"}
      /\ Doing.do = "ask" => Doing \in Asking /\ Len(app.todo) \notin {1, 2, 3}
  BY <1>4, <1>5, <1>6, <1>8
<1> QED BY <1>2, <1>7, <1>9

\* Until then a start is made of the mundane steps.
LEMMA StartIsBound ==
  ASSUME Typed, BoundInv, Call, StartRest(app.todo)
  PROVE  BoundInv'
<1>0. NodeTypes /\ app.todo # << >> /\ app.at # "out"
  BY CallMoves DEF Typed
<1>2. Doing.do \notin {"connect", "disconnect"}
  BY <1>0, StartSteps
<1>3. CASE AskLock \/ AskSend \/ AskTimesOut \/ AskTake
  BY <1>0, <1>3, AskEffect DEF BoundInv
<1>4. CASE Tell \/ TellDTR \/ Enable
  <2>1. port' = port /\ app.at = "step"
    BY <1>4 DEF Tell, TellDTR, Enable, InStep
  <2>2. app'.at = "step"
    <3>1. Done(Writable) \/ Done(TRUE)
      BY <1>4 DEF Tell, TellDTR, Enable
    <3>2. Writable \in BOOLEAN
      BY DEF Writable
    <3> QED BY <1>0, <3>1, <3>2, DoneLeaves
  <2> QED BY <2>1, <2>2 DEF BoundInv
<1> QED BY <1>2, <1>3, <1>4, StepHasAction

\* A start goes on.
LEMMA FollowStart ==
  ASSUME Typed, FollowInv, Call, node.at = "starting" PROVE StartingInv'
<1>0. NodeTypes /\ app.todo # << >> /\ StartRest(app.todo) /\ app.ok /\ StartingInv
  BY CallMoves DEF Typed, ScriptInv, FollowInv
<1>1. Len(app.todo) \in Nat \ {0} /\ Len(<< >>) = 0
  BY <1>0, EmptySeq, LenProperties DEF StartRest
<1>2. CASE \E ok \in BOOLEAN : Done(ok)
  <2>1. /\ app'.todo = << >> /\ app'.ok => Len(app.todo) = 1
        /\ Len(app'.todo) = 1 => Len(app.todo) = 2
        /\ Len(app'.todo) = 2 => Len(app.todo) = 3
    BY <1>0, <1>2, StartProceeds
  <2>2. app'.todo = << >> /\ app'.ok =>
          /\ Writable' => device'.scanning /\ device'.speed # "off"
          /\ lost' = 0 => Heard'
    BY <1>0, <2>1, ScanEffect
  <2>3. Len(app'.todo) = 1 => driver'.enabled /\ (Writable' => device'.speed # "off")
    BY <1>0, <2>1, EnableEffect
  <2>4. Len(app'.todo) = 2 => (Writable' => device'.speed # "off")
    BY <1>0, <2>1, MotorEffect
  <2> QED BY <2>2, <2>3, <2>4 DEF StartingInv
<1>3. CASE app'.todo = app.todo /\ Doing.do = "ask"
  <2>1. Len(app.todo) \notin {1, 2, 3}
    BY <1>0, <1>3, StartSteps
  <2> QED BY <1>0, <1>3, <2>1 DEF StartingInv
<1>4. Doing.do # "disconnect"
  BY <1>0, StartSteps
<1> QED BY <1>2, <1>3, <1>4, CallMoves

LEMMA FollowCall ==
  ASSUME Typed, FollowInv, Call, UNCHANGED nodeVars PROVE FollowInv'
<1>0. /\ NodeTypes /\ ScriptInv /\ app.todo # << >> /\ app.at # "out"
      /\ BoundInv /\ NotYetInv /\ SettledInv /\ StartingInv /\ StoppingInv
  BY CallMoves DEF Typed, FollowInv
<1>1. node' = node
  BY DEF nodeVars
<1>10. /\ device.scanning \in BOOLEAN /\ device'.scanning \in BOOLEAN
       /\ node.scanning \in BOOLEAN
  <2>1. NodeTypes'
    BY TypedCall
  <2> QED BY <1>0, <2>1 DEF NodeTypes, NodeStates, LidarStates
<1>2. node.at \in {"called", "modelled", "starting", "stopping"}
  BY <1>0 DEF ScriptInv
<1>3. CASE node.at = "called" /\ node.next = "info" /\ Connect
  <2>1. /\ device' = device /\ driver'.enabled = driver.enabled /\ app'.at = "step"
        /\ port'.bound = port'.working
    BY <1>3, ConnectEffect
  <2>2. NotYet /\ Settled
    BY <1>3 DEF NotYet, Settled, Opening
  <2>3. ~node.scanning /\ ~device.scanning
    BY <1>0, <1>3, <2>2 DEF NotYetInv
  <2>4. ~driver.enabled
    BY <1>0, <2>2, <2>3 DEF SettledInv
  <2>5. BoundInv' /\ NotYetInv'
    BY <1>1, <2>1, <2>3 DEF BoundInv, NotYetInv
  <2>6. SettledInv'
    BY <1>1, <1>10, <2>1, <2>3, <2>4 DEF SettledInv
  <2>7. StartingInv' /\ StoppingInv'
    BY <1>1, <1>3 DEF StartingInv, StoppingInv
  <2> QED BY <2>5, <2>6, <2>7 DEF FollowInv
<1>4. CASE \/ node.at = "called" /\ node.next \in Opening \cup {"delete"} /\ ~Connect
           \/ node.at \in {"modelled", "stopping"}
  <2>1. /\ port' = port /\ (device'.scanning => device.scanning)
        /\ driver'.enabled => driver.enabled
        /\ app'.at # "join" /\ app.at # "join" /\ lost' = lost
        /\ Doing.do = "tell" /\ Doing.what = "stop" =>
             (Writable => ~device'.scanning) /\ ~driver'.enabled
    <3>1. CASE app.todo \in Seq(Mundane)
      <4>1. Doing \in Mundane
        BY <1>0, <3>1, FirstIsOne
      <4> QED BY <4>1, MundaneEffect
    <3>2. CASE app.todo \in Seq(Mundane \cup Connecting) /\ ~Connect
      <4>1. Doing \in Mundane \cup Connecting
        BY <1>0, <3>2, FirstIsOne
      <4>2. Doing.do # "connect"
        BY <3>2, StepHasAction
      <4>3. Doing \in Mundane
        BY <4>1, <4>2 DEF Connecting
      <4> QED BY <4>3, MundaneEffect
    <3> QED BY <1>0, <1>4, <3>1, <3>2 DEF ScriptInv, Opening
  <2>2. Writable' = Writable
    BY <2>1 DEF Writable
  <2>3. BoundInv'
    BY <1>0, <2>1 DEF BoundInv
  <2>4. NotYetInv'
    BY <1>0, <1>1, <2>1 DEF NotYetInv, NotYet
  <2>5. SettledInv'
    <3>1. Settled' => Settled /\ NotYet
      <4>1. Settled' => Settled
        BY <1>1 DEF Settled
      <4>2. Settled => NotYet
        BY <1>4 DEF Settled, NotYet
      <4> QED BY <4>1, <4>2
    <3>2. Settled' => ~node.scanning
      BY <1>0, <3>1 DEF NotYetInv
    <3>3. Settled /\ ~node.scanning => ~driver.enabled /\ (Writable => ~device.scanning)
      BY <1>0, <1>10 DEF SettledInv
    <3> QED BY <1>1, <1>10, <2>1, <2>2, <3>1, <3>2, <3>3 DEF SettledInv
  <2>6. StartingInv'
    BY <1>1, <1>4 DEF StartingInv
  <2>7. StoppingInv'
    BY <1>0, <1>1, <2>1, <2>2 DEF StoppingInv
  <2> QED BY <2>3, <2>4, <2>5, <2>6, <2>7 DEF FollowInv
<1>5. CASE node.at = "called" /\ node.next = "loop"
  <2>1. app.todo \in Seq(Gentle)
    BY <1>0, <1>5 DEF ScriptInv
  <2>2. /\ UNCHANGED <<port, rxq, air, codecMode, lost>>
        /\ device'.scanning = device.scanning
        /\ device'.speed = device.speed \/ device'.speed # "off"
        /\ driver'.enabled = driver.enabled
    BY <2>1, GentleEffect
  <2>3. app'.at # "join" /\ app.at # "join"
    <3>1. app.todo \in Seq(Mundane)
      BY <2>1, GentleIsMundane
    <3>2. Doing \in Mundane
      BY <1>0, <3>1, FirstIsOne
    <3> QED BY <3>2, MundaneEffect
  <2>4. BoundInv'
    BY <1>0, <2>2, <2>3 DEF BoundInv
  <2>5. NotYetInv'
    BY <1>0, <1>1, <2>2 DEF NotYetInv, NotYet
  <2>6. SettledInv'
    BY <1>0, <1>1, <2>2 DEF SettledInv, Settled, Writable, Heard, Announced
  <2> QED BY <1>1, <1>5, <2>4, <2>5, <2>6 DEF FollowInv, StartingInv, StoppingInv
<1>6. CASE node.at = "called" /\ node.next = "gone"
  <2>1. BoundInv'
    BY <1>0, <1>6, PartingEffect DEF ScriptInv
  <2> QED BY <1>1, <1>6, <2>1
      DEF FollowInv, NotYetInv, NotYet, Opening, SettledInv, Settled, StartingInv, StoppingInv
<1>7. CASE node.at = "starting"
  <2>1. BoundInv' /\ StartingInv'
    BY <1>0, <1>7, StartIsBound, FollowStart DEF ScriptInv
  <2> QED BY <1>1, <1>7, <2>1
      DEF FollowInv, NotYetInv, NotYet, Opening, SettledInv, Settled, StoppingInv
<1>8. Connect => node.at = "called" /\ node.next = "info"
  <2>1. SUFFICES ASSUME Connect PROVE node.at = "called" /\ node.next = "info"
    OBVIOUS
  <2>2. Doing.do = "connect"
    BY <2>1 DEF Connect, InStep
  <2>3. app.todo \in Seq(Mundane) => Doing.do # "connect"
    BY <1>0, FirstIsOne DEF Mundane, Asking, Driving, Halting
  <2>4. app.todo \in Seq(Gentle) => Doing.do # "connect"
    BY <1>0, FirstIsOne DEF Gentle, Driving
  <2>5. app.todo \in Seq(Parting) => Doing.do # "connect"
    BY <1>0, FirstIsOne DEF Parting
  <2>6. StartRest(app.todo) => Doing.do # "connect"
    BY <1>0, StartSteps
  <2> QED BY <1>0, <1>2, <2>2, <2>3, <2>4, <2>5, <2>6 DEF ScriptInv, Opening
<1>9. node.at = "called" => node.next \in Opening \cup {"loop", "delete", "gone"}
  BY <1>0 DEF ScriptInv
<1> QED BY <1>2, <1>3, <1>4, <1>5, <1>6, <1>7, <1>8, <1>9

\* Between two steps of its calls the node leaves the link alone.
LinkSame == /\ UNCHANGED <<port, driver, device, air, rxq, codecMode, lost>>
            /\ app.at # "join" /\ app'.at # "join"

LEMMA CallLeavesLink ==
  ASSUME NodeTypes, ScriptInv, Free \/ Over, NEW s, Calls(s) \/ Returns
  PROVE  LinkSame
  BY DEF LinkSame, Free, Over, Calls, Returns, NodeTypes, Apps

LEMMA FollowStays ==
  ASSUME FollowInv, LinkSame, node'.scanning = node.scanning, Settled' => Settled,
         NotYet' => NotYet, node'.at \notin {"starting", "stopping", "connect"},
         node'.at = "called" /\ node'.next = "info" => ~device.scanning
  PROVE  FollowInv'
<1> USE DEF LinkSame, FollowInv
<1>1. BoundInv'
  BY DEF BoundInv
<1>2. NotYetInv'
  BY DEF NotYetInv
<1>3. SettledInv'
  BY DEF SettledInv, Writable, Heard, Announced
<1>4. StartingInv' /\ StoppingInv'
  BY DEF StartingInv, StoppingInv
<1> QED BY <1>1, <1>2, <1>3, <1>4

LEMMA FollowBeginsStart ==
  ASSUME FollowInv, LinkSame, node'.at = "starting", NEW s, app'.todo = s, Starting(s, 4)
  PROVE  FollowInv'
<1> USE DEF LinkSame, FollowInv
<1>1. BoundInv'
  BY DEF BoundInv
<1>2. NotYetInv' /\ SettledInv' /\ StoppingInv'
  BY DEF NotYetInv, NotYet, Opening, SettledInv, Settled, StoppingInv
<1>3. s # << >> /\ Len(s) \notin {1, 2}
  <2>1. Len(s) \in Nat /\ Len(s) >= 3
    BY LenProperties DEF Starting, StartRest
  <2>2. Len(<< >>) = 0
    BY EmptySeq
  <2>3. Len(s) \notin {0, 1, 2}
    <3> DEFINE n == Len(s)
    <3>1. n \in Nat /\ n >= 3
      BY <2>1
    <3> HIDE DEF n
    <3>2. n \notin {0, 1, 2}
      BY <3>1
    <3> QED BY <3>2 DEF n
  <2> QED BY <2>2, <2>3
<1>4. StartingInv'
  BY <1>3 DEF StartingInv
<1> QED BY <1>1, <1>2, <1>4

LEMMA FollowBeginsStop ==
  ASSUME FollowInv, LinkSame, node'.at = "stopping", app'.at = "step",
         NEW s \in Seq(Steps), app'.todo = s, s # << >>, s[1].do = "tell", s[1].what = "stop"
  PROVE  FollowInv'
<1> USE DEF LinkSame, FollowInv
<1>1. BoundInv'
  BY DEF BoundInv
<1>2. NotYetInv' /\ SettledInv' /\ StartingInv'
  BY DEF NotYetInv, NotYet, Opening, SettledInv, Settled, StartingInv
<1>3. Doing' = s[1]
  BY HeadTailProperties DEF Doing
<1>4. StoppingInv'
  BY <1>3 DEF StoppingInv
<1> QED BY <1>1, <1>2, <1>4

LEMMA FollowStartUp == ASSUME Typed, FollowInv, StartUp PROVE FollowInv'
<1>0. /\ NodeTypes /\ ScriptInv /\ NotYetInv
  BY DEF Typed, FollowInv
<1>1. node \in NodeStates
  BY <1>0 DEF NodeTypes
<1>2. CASE Connects \/ AsksInfo \/ AsksHealth \/ AsksModel
  <2>1. LinkSame
    BY <1>0, <1>2, CallLeavesLink DEF Connects, AsksInfo, AsksHealth, AsksModel
  <2>2. /\ node'.scanning = node.scanning /\ Settled /\ NotYet
        /\ node'.at \notin {"starting", "stopping", "connect"}
        /\ node'.at = "called" /\ node'.next = "info" => ~device.scanning
    BY <1>0, <1>1, <1>2
    DEF Connects, AsksInfo, AsksHealth, AsksModel, Goes, NodeStates, Settled, NotYet, Opening,
        NotYetInv
  <2> QED BY <2>1, <2>2, FollowStays
<1>3. CASE SpinsUp
  <2>1. LinkSame
    BY <1>0, <1>3, CallLeavesLink DEF SpinsUp
  <2>2. node'.scanning = node.scanning /\ node'.at = "called" /\ node'.next \in {"loop", "first"}
    BY <1>1, <1>3 DEF SpinsUp, NodeStates
  <2>3. Settled /\ NotYet
    BY <1>3 DEF SpinsUp, Settled, NotYet
  <2> QED BY <2>1, <2>2, <2>3, FollowStays
<1>4. CASE FirstStart
  <2>1. PICK s \in Seq(Steps) : Calls(s) /\ Starting(s, 4)
    BY <1>0, <1>4, StartScripted DEF FirstStart
  <2>2. LinkSame /\ app'.todo = s
    BY <1>0, <1>4, <2>1, CallLeavesLink DEF FirstStart, Calls
  <2>3. node'.at = "starting"
    BY <1>1, <1>4 DEF FirstStart, Goes, NodeStates
  <2> QED BY <2>1, <2>2, <2>3, FollowBeginsStart
<1>5. CASE Checked
  <2>1. LinkSame
    BY <1>0, <1>5, CallLeavesLink DEF Checked
  <2>2. /\ node.at = "called" /\ node'.scanning = node.scanning
        /\ node'.at \in {node.next, "delete"}
    BY <1>1, <1>5 DEF Checked, NodeStates
  <2>3. node.next \in Opening \cup {"loop", "delete", "gone"}
    BY <1>0, <2>2 DEF ScriptInv
  <2>4. (Settled' => Settled) /\ (NotYet' => NotYet)
    BY <2>2, <2>3 DEF Settled, NotYet, Opening
  <2>5. node'.at \notin {"starting", "stopping", "connect", "called"}
    BY <2>2, <2>3 DEF Opening
  <2> QED BY <2>1, <2>2, <2>4, <2>5, FollowStays
<1> QED BY <1>2, <1>3, <1>4, <1>5 DEF StartUp

LEMMA FollowStartStop ==
  ASSUME Typed, FollowInv, StartStop \/ StandbyStarts \/ StandbyStops \/ Services PROVE FollowInv'
<1>0. NodeTypes /\ ScriptInv /\ BoundInv /\ node \in NodeStates
  BY DEF Typed, FollowInv, NodeTypes
<1>1. CASE Started
  <2>1. LinkSame
    BY <1>0, <1>1, CallLeavesLink DEF Started
  <2>2. node.next \in {"loop", "grab", "spin"}
    BY <1>0, <1>1 DEF Started, ScriptInv
  <2>3. node'.at \in {"loop", "grab", "spin"} /\ node'.scanning = TRUE
    BY <1>0, <1>1, <2>2 DEF Started, NodeStates
  <2>4. BoundInv' /\ NotYetInv' /\ StartingInv' /\ StoppingInv'
    BY <1>0, <2>1, <2>3
    DEF LinkSame, BoundInv, NotYetInv, NotYet, Opening, StartingInv, StoppingInv
  <2>5. /\ Writable => device.scanning /\ device.speed # "off"
        /\ lost = 0 => Heard
    BY <1>1 DEF Started, Over, FollowInv, StartingInv
  <2>6. device.scanning \in BOOLEAN
    BY <1>0 DEF NodeTypes, LidarStates
  <2>7. SettledInv'
    BY <2>1, <2>3, <2>5, <2>6 DEF LinkSame, SettledInv, Writable, Heard, Announced
  <2> QED BY <2>4, <2>7 DEF FollowInv
<1>2. CASE Stopped
  <2>1. LinkSame
    BY <1>0, <1>2, CallLeavesLink DEF Stopped
  <2>2. node.next \in {"delete", "grab", "spin"}
    BY <1>0, <1>2 DEF Stopped, ScriptInv
  <2>3. node'.at \in {"delete", "grab", "spin"} /\ node'.scanning = FALSE
    BY <1>0, <1>2, <2>2 DEF Stopped, NodeStates
  <2>4. BoundInv' /\ NotYetInv' /\ StartingInv' /\ StoppingInv'
    BY <1>0, <2>1, <2>3
    DEF LinkSame, BoundInv, NotYetInv, NotYet, Opening, StartingInv, StoppingInv
  <2>5. (Writable => ~device.scanning) /\ ~driver.enabled
    BY <1>2 DEF Stopped, Over, FollowInv, StoppingInv
  <2>6. device.scanning \in BOOLEAN
    BY <1>0 DEF NodeTypes, LidarStates
  <2>7. SettledInv'
    BY <2>1, <2>3, <2>5, <2>6 DEF LinkSame, SettledInv, Writable
  <2> QED BY <2>4, <2>7 DEF FollowInv
<1>3. CASE StartFailed \/ StandbyStops \/ StopMotor
  <2>1. PICK s \in Seq(Mundane) : /\ Calls(s) /\ s \in Seq(Steps)
                                  /\ s # << >> /\ s[1].do = "tell" /\ s[1].what = "stop"
    BY <1>3, StopScripted DEF StartFailed, StandbyStops, StopMotor
  <2>2. LinkSame
    BY <1>0, <1>3, <2>1, CallLeavesLink DEF StartFailed, StandbyStops, StopMotor
  <2>3. app'.at = "step" /\ app'.todo = s
    BY <2>1 DEF Calls
  <2>4. node'.at = "stopping"
    BY <1>0, <1>3 DEF StartFailed, StandbyStops, StopMotor, Goes, NodeStates
  <2> QED BY <2>1, <2>2, <2>3, <2>4, FollowBeginsStop
<1>4. CASE StandbyStarts \/ StartMotor
  <2>1. PICK s \in Seq(Steps) : Calls(s) /\ Starting(s, 4)
    BY <1>0, <1>4, StartScripted DEF StandbyStarts, StartMotor
  <2>2. LinkSame /\ app'.todo = s
    BY <1>0, <1>4, <2>1, CallLeavesLink DEF StandbyStarts, StartMotor, Calls
  <2>3. node'.at = "starting"
    BY <1>0, <1>4 DEF StandbyStarts, StartMotor, Goes, NodeStates
  <2> QED BY <2>1, <2>2, <2>3, FollowBeginsStart
<1> QED BY <1>1, <1>2, <1>3, <1>4 DEF StartStop, Services

LEMMA FollowLoop ==
  ASSUME Typed, FollowInv,
         Loops \/ GrabsFirst \/ Publishes \/ GrabTimesOut \/ Spins \/ Leaves \/ Deletes
           \/ Interrupted \/ ListenersChange
  PROVE  FollowInv'
<1>0. /\ NodeTypes /\ ScriptInv /\ node \in NodeStates
      /\ node.at \in {"loop", "grab", "spin", "delete"}
  BY DEF Typed, NodeTypes, Loops, GrabsFirst, Publishes, GrabTimesOut, Spins, Leaves, Deletes,
         Interrupted, ListenersChange
<1>1. CASE Loops \/ Publishes \/ GrabTimesOut \/ Spins \/ Interrupted \/ ListenersChange
  <2>1. LinkSame
    BY <1>0, <1>1
    DEF Loops, Publishes, GrabTimesOut, Spins, Interrupted, ListenersChange, linkVars,
        LinkSame, Free
  <2>2. /\ node'.scanning = node.scanning /\ node'.at \in {"loop", "grab", "spin"}
        /\ node.at \in {"loop", "grab", "spin"}
    BY <1>0, <1>1
    DEF Loops, Publishes, GrabTimesOut, Spins, Interrupted, ListenersChange, NodeStates
  <2>3. Settled /\ ~NotYet'
    BY <2>2 DEF Settled, NotYet, Opening
  <2> QED BY <2>1, <2>2, <2>3, FollowStays
<1>2. CASE GrabsFirst
  <2>1. LinkSame
    BY <1>2 DEF GrabsFirst, LinkSame, Free
  <2>2. /\ node'.scanning = node.scanning /\ node'.at = "called" /\ node'.next = "loop"
        /\ node.at = "grab"
    BY <1>0, <1>2 DEF GrabsFirst, NodeStates
  <2>3. Settled /\ ~NotYet'
    BY <2>2 DEF Settled, NotYet, Opening
  <2> QED BY <2>1, <2>2, <2>3, FollowStays
<1>3. CASE Leaves \/ Deletes
  <2>1. LinkSame
    BY <1>0, <1>3, CallLeavesLink DEF Leaves, Deletes
  <2>2. node'.scanning = node.scanning /\ node'.at = "called" /\ node'.next \in {"delete", "gone"}
    BY <1>0, <1>3 DEF Leaves, Deletes, Goes, NodeStates
  <2>3. ~Settled' /\ ~NotYet'
    BY <2>2 DEF Settled, NotYet, Opening
  <2> QED BY <2>1, <2>2, <2>3, FollowStays
<1> QED BY <1>1, <1>2, <1>3

LEMMA FollowNext == ASSUME Typed, FollowInv, [LidarNext]_lidarVars PROVE FollowInv'
<1>1. CASE LinkNext /\ UNCHANGED nodeVars
  BY <1>1, FollowThreads, FollowCall DEF LinkNext, Typed
<1>2. CASE StartUp \/ StartStop \/ WorkLoop \/ Services \/ Interrupted \/ ListenersChange
  BY <1>2, FollowStartUp, FollowStartStop, FollowLoop DEF WorkLoop
<1>3. CASE UNCHANGED lidarVars
  BY <1>3
  DEF FollowInv, BoundInv, NotYetInv, NotYet, SettledInv, Settled, StartingInv, StoppingInv,
      Writable, Heard, Announced, Doing, lidarVars, linkVars, nodeVars
<1> QED BY <1>1, <1>2, <1>3 DEF LidarNext, Gone

\* What the node believes of the lidar is so whenever it looks for a scan, whatever was
\* lost or late and whichever call failed (start(), stop() and work_loop).
THEOREM LidarAlwaysFollows == LidarSpec => [](LidarFollowsNode /\ ScanIsHeard)
<1>1. Typed /\ FollowInv => LidarFollowsNode /\ ScanIsHeard
  <2> SUFFICES ASSUME Typed, FollowInv, node.at \in {"grab", "spin"}, Free
               PROVE  /\ port.bound /\ ~port.broken =>
                           /\ node.scanning = device.scanning
                           /\ node.scanning => device.speed # "off"
                      /\ node.scanning /\ lost = 0 =>
                           /\ driver.enabled
                           /\ \/ codecMode = "loop"
                              \/ \E i \in DOMAIN (air \o rxq) : (air \o rxq)[i] = "descriptor"
    BY DEF LidarFollowsNode, ScanIsHeard
  <2>1. Settled /\ port.bound = port.working
    BY DEF Settled, FollowInv, BoundInv, Free
  <2>2. /\ port.bound /\ ~port.broken =>
             /\ node.scanning = device.scanning
             /\ node.scanning => device.speed # "off"
        /\ node.scanning /\ lost = 0 => Heard
    BY <2>1 DEF FollowInv, SettledInv, Writable
  <2>3. Announced(air) \/ Announced(rxq) => Announced(air \o rxq)
    <3> DEFINE m == Len(air)
               n == Len(rxq)
               s == air \o rxq
    <3>1. air \in Seq(Frames) /\ rxq \in Seq(Frames)
      BY DEF Typed, NodeTypes
    <3>2. m \in Nat /\ n \in Nat /\ DOMAIN air = 1 .. m /\ DOMAIN rxq = 1 .. n
      BY <3>1, LenProperties
    <3>3. s \in Seq(Frames) /\ Len(s) = m + n
          /\ \A i \in 1 .. m + n : s[i] = IF i <= m THEN air[i] ELSE rxq[i - m]
      BY <3>1, ConcatProperties
    <3>4. DOMAIN s = 1 .. m + n
      BY <3>3, LenProperties
    <3> HIDE DEF m, n, s
    <3>5. ASSUME NEW i \in 1 .. m PROVE i \in 1 .. m + n /\ s[i] = air[i]
      BY <3>2, <3>3
    <3>6. ASSUME NEW i \in 1 .. n PROVE i + m \in 1 .. m + n /\ s[i + m] = rxq[i]
      <4>1. i + m \in 1 .. m + n /\ ~(i + m <= m) /\ (i + m) - m = i
        BY <3>2
      <4> QED BY <3>3, <4>1
    <3>7. Announced(air) \/ Announced(rxq) => Announced(s)
      BY <3>2, <3>4, <3>5, <3>6 DEF Announced
    <3> QED BY <3>7 DEF s
  <2> QED BY <2>2, <2>3 DEF Heard, Announced
<1> QED BY <1>1, TypedInit, TypedNext, FollowInit, FollowNext, PTL DEF LidarSpec

-----------------------------------------------------------------------------
\* Answers on their way, and the scan that is published.

\* The list without its p-th element.
Removed(s, p) == [i \in 1 .. Len(s) - 1 |-> IF i < p THEN s[i] ELSE s[i + 1]]
Upto(s, j) == Cardinality(Where(s, 1 .. j, Questions))

LEMMA RemovedIsList ==
  ASSUME NEW S, NEW s \in Seq(S), NEW p \in 1 .. Len(s)
  PROVE  /\ Removed(s, p) \in Seq(S) /\ Len(Removed(s, p)) = Len(s) - 1
         /\ \A i \in 1 .. Len(s) - 1 : Removed(s, p)[i] = IF i < p THEN s[i] ELSE s[i + 1]
<1>1. Len(s) \in Nat /\ \A i \in 1 .. Len(s) : s[i] \in S
  BY LenProperties, ElementOfSeq
<1> DEFINE n == Len(s)
           r == [i \in 1 .. n - 1 |-> IF i < p THEN s[i] ELSE s[i + 1]]
<1>2. n \in Nat /\ n >= 1 /\ p \in 1 .. n
  BY <1>1
<1> HIDE DEF n
<1>3. \A i \in 1 .. n - 1 : i \in 1 .. n /\ i + 1 \in 1 .. n
  BY <1>2
<1>4. r \in [1 .. n - 1 -> S]
  BY <1>1, <1>3 DEF n
<1>5. n - 1 \in Nat
  BY <1>2
<1>6. r \in Seq(S) /\ Len(r) = n - 1
  <2> HIDE DEF r
  <2>1. r \in Seq(S)
    BY <1>4, <1>5, SeqDef
  <2>2. DOMAIN r = 1 .. n - 1
    BY <1>4
  <2> QED BY <1>5, <2>1, <2>2, LenProperties
<1> QED BY <1>6 DEF Removed, n

\* Taking the first of a list, of its second part, and moving between the parts.
LEMMA JoinsMove ==
  ASSUME NEW S, NEW s \in Seq(S), NEW t \in Seq(S)
  PROVE  /\ s # << >> => Tail(s) \o t = Removed(s \o t, 1) /\ 1 \in 1 .. Len(s \o t)
         /\ t # << >> => /\ s \o Tail(t) = Removed(s \o t, Len(s) + 1)
                         /\ Len(s) + 1 \in 1 .. Len(s \o t)
                         /\ Append(s, Head(t)) \o Tail(t) = s \o t
         /\ \A e \in S : s \o Append(t, e) = Append(s \o t, e)
<1> DEFINE m == Len(s)
           n == Len(t)
           u == s \o t
<1>1. m \in Nat /\ n \in Nat /\ (s # << >> => m >= 1) /\ (t # << >> => n >= 1)
  <2>1. m \in Nat /\ n \in Nat /\ (s # << >> => m # 0) /\ (t # << >> => n # 0)
    BY LenProperties, EmptySeq
  <2> HIDE DEF m, n
  <2> QED BY <2>1
<1>2. /\ u \in Seq(S) /\ Len(u) = m + n
      /\ \A i \in 1 .. m + n : u[i] = IF i <= m THEN s[i] ELSE t[i - m]
  BY ConcatProperties
<1>3. ASSUME s # << >>
      PROVE  Tail(s) \o t = Removed(u, 1) /\ 1 \in 1 .. Len(u)
  <2> DEFINE a == Tail(s)
             l == a \o t
             r == Removed(u, 1)
  <2>1. a \in Seq(S) /\ Len(a) = m - 1 /\ \A i \in 1 .. m - 1 : a[i] = s[i + 1]
    BY <1>3, HeadTailProperties
  <2> HIDE DEF a
  <2>2. /\ l \in Seq(S) /\ Len(l) = Len(a) + n
        /\ \A i \in 1 .. Len(a) + n : l[i] = IF i <= Len(a) THEN a[i] ELSE t[i - Len(a)]
    BY <2>1, ConcatProperties
  <2>3. 1 \in 1 .. Len(u)
    BY <1>1, <1>2, <1>3
  <2>4. /\ r \in Seq(S) /\ Len(r) = Len(u) - 1
        /\ \A i \in 1 .. Len(u) - 1 : r[i] = IF i < 1 THEN u[i] ELSE u[i + 1]
    BY <1>2, <2>3, RemovedIsList
  <2> HIDE DEF m, n, u, l, r
  <2>5. Len(l) = Len(r) /\ Len(l) = (m - 1) + n
    BY <1>1, <1>2, <2>1, <2>2, <2>4
  <2>6. ASSUME NEW i \in 1 .. Len(l) PROVE l[i] = r[i]
    <3>1. i \in 1 .. (m - 1) + n /\ i + 1 \in 1 .. m + n /\ ~(i < 1)
      BY <1>1, <2>5
    <3>2. r[i] = u[i + 1]
      BY <1>2, <2>4, <2>5, <3>1
    <3>3. CASE i <= m - 1
      <4>1. l[i] = s[i + 1] /\ i + 1 <= m
        BY <1>1, <2>1, <2>2, <3>1, <3>3
      <4> QED BY <1>2, <3>1, <3>2, <4>1
    <3>4. CASE ~(i <= m - 1)
      <4>1. l[i] = t[i - (m - 1)] /\ ~(i + 1 <= m) /\ i - (m - 1) = (i + 1) - m
        BY <1>1, <2>1, <2>2, <3>1, <3>4
      <4> QED BY <1>2, <3>1, <3>2, <4>1
    <3> QED BY <3>3, <3>4
  <2>7. l = r
    BY <2>2, <2>4, <2>5, <2>6, SeqEqual
  <2> QED BY <2>3, <2>7 DEF l, r, a
<1>4. ASSUME t # << >>
      PROVE  /\ s \o Tail(t) = Removed(u, m + 1) /\ m + 1 \in 1 .. Len(u)
             /\ Append(s, Head(t)) \o Tail(t) = u
  <2> DEFINE a == Tail(t)
             hd == Head(t)
             l == s \o a
             r == Removed(u, m + 1)
             b == Append(s, hd)
             v == b \o a
  <2>1. /\ a \in Seq(S) /\ Len(a) = n - 1 /\ \A i \in 1 .. n - 1 : a[i] = t[i + 1]
        /\ hd \in S /\ hd = t[1]
    BY <1>4, HeadTailProperties, ElementOfSeq
  <2> HIDE DEF a, hd
  <2>2. /\ l \in Seq(S) /\ Len(l) = m + Len(a)
        /\ \A i \in 1 .. m + Len(a) : l[i] = IF i <= m THEN s[i] ELSE a[i - m]
    BY <2>1, ConcatProperties
  <2>3. m + 1 \in 1 .. Len(u)
    <3> HIDE DEF m, n, u
    <3> QED BY <1>1, <1>2, <1>4
  <2>4. /\ r \in Seq(S) /\ Len(r) = Len(u) - 1
        /\ \A i \in 1 .. Len(u) - 1 : r[i] = IF i < m + 1 THEN u[i] ELSE u[i + 1]
    BY <1>2, <2>3, RemovedIsList
  <2>5. /\ b \in Seq(S) /\ Len(b) = m + 1 /\ b[m + 1] = hd
        /\ \A i \in 1 .. m : b[i] = s[i]
    BY <2>1, AppendProperties
  <2> HIDE DEF b
  <2>6. /\ v \in Seq(S) /\ Len(v) = Len(b) + Len(a)
        /\ \A i \in 1 .. Len(b) + Len(a) : v[i] = IF i <= Len(b) THEN b[i] ELSE a[i - Len(b)]
    BY <2>1, <2>5, ConcatProperties
  <2> HIDE DEF m, n, u, l, r, v
  <2>7. Len(l) = Len(r) /\ Len(l) = m + (n - 1) /\ Len(v) = Len(u)
    BY <1>1, <1>2, <2>1, <2>2, <2>4, <2>5, <2>6
  <2>8. ASSUME NEW i \in 1 .. Len(l) PROVE l[i] = r[i]
    <3>1. i \in 1 .. m + (n - 1) /\ i \in 1 .. m + n /\ i + 1 \in 1 .. m + n
      BY <1>1, <2>7
    <3>2. CASE i <= m
      <4>1. l[i] = s[i] /\ i < m + 1
        BY <1>1, <2>1, <2>2, <3>1, <3>2
      <4>2. r[i] = u[i]
        BY <2>4, <2>7, <4>1
      <4> QED BY <1>2, <3>1, <3>2, <4>1, <4>2
    <3>3. CASE ~(i <= m)
      <4>1. i - m \in 1 .. n - 1 /\ ~(i < m + 1) /\ ~(i + 1 <= m) /\ (i - m) + 1 = (i + 1) - m
        BY <1>1, <3>1, <3>3
      <4>2. l[i] = t[(i + 1) - m]
        BY <2>1, <2>2, <3>1, <3>3, <4>1
      <4>3. r[i] = u[i + 1]
        BY <2>4, <2>7, <4>1
      <4> QED BY <1>2, <3>1, <4>1, <4>2, <4>3
    <3> QED BY <3>2, <3>3
  <2>9. ASSUME NEW i \in 1 .. Len(v) PROVE v[i] = u[i]
    <3>1. i \in 1 .. m + n
      BY <1>2, <2>7
    <3>2. CASE i <= m
      <4>1. v[i] = s[i]
        BY <1>1, <2>1, <2>5, <2>6, <3>1, <3>2
      <4> QED BY <1>2, <3>1, <3>2, <4>1
    <3>3. CASE i = m + 1
      <4>1. v[i] = hd /\ ~(i <= m) /\ i - m = 1
        BY <1>1, <2>1, <2>5, <2>6, <3>1, <3>3
      <4> QED BY <1>2, <2>1, <3>1, <4>1
    <3>4. CASE i > m + 1
      <4>1. i - (m + 1) \in 1 .. n - 1 /\ ~(i <= m) /\ (i - (m + 1)) + 1 = i - m /\ ~(i <= m + 1)
        BY <1>1, <3>1, <3>4
      <4>2. v[i] = t[i - m]
        BY <1>1, <2>1, <2>5, <2>6, <3>1, <4>1
      <4> QED BY <1>2, <3>1, <4>1, <4>2
    <3> QED BY <1>1, <3>1, <3>2, <3>3, <3>4
  <2>10. l = r /\ v = u
    BY <1>2, <2>2, <2>4, <2>6, <2>7, <2>8, <2>9, SeqEqual
  <2> QED BY <2>3, <2>10 DEF l, r, v, a, b, hd
<1>5. ASSUME NEW e \in S PROVE s \o Append(t, e) = Append(u, e)
  <2> DEFINE b == Append(t, e)
             l == s \o b
             r == Append(u, e)
  <2>1. b \in Seq(S) /\ Len(b) = n + 1 /\ b[n + 1] = e /\ \A i \in 1 .. n : b[i] = t[i]
    BY AppendProperties
  <2> HIDE DEF b
  <2>2. /\ l \in Seq(S) /\ Len(l) = m + Len(b)
        /\ \A i \in 1 .. m + Len(b) : l[i] = IF i <= m THEN s[i] ELSE b[i - m]
    BY <2>1, ConcatProperties
  <2>3. /\ r \in Seq(S) /\ Len(r) = Len(u) + 1 /\ r[Len(u) + 1] = e
        /\ \A i \in 1 .. Len(u) : r[i] = u[i]
    BY <1>2, AppendProperties
  <2> HIDE DEF m, n, u, l, r
  <2>4. Len(l) = Len(r) /\ Len(l) = (m + n) + 1
    BY <1>1, <1>2, <2>1, <2>2, <2>3
  <2>5. ASSUME NEW i \in 1 .. Len(l) PROVE l[i] = r[i]
    <3>1. i \in 1 .. (m + n) + 1
      BY <2>4
    <3>2. CASE i <= m
      <4>1. l[i] = s[i] /\ i \in 1 .. m + n
        BY <1>1, <2>1, <2>2, <3>1, <3>2
      <4> QED BY <1>2, <2>3, <3>2, <4>1
    <3>3. CASE ~(i <= m) /\ i <= m + n
      <4>1. i - m \in 1 .. n /\ i \in 1 .. m + n
        BY <1>1, <3>1, <3>3
      <4>2. l[i] = t[i - m]
        BY <2>1, <2>2, <2>4, <3>1, <3>3, <4>1
      <4> QED BY <1>2, <2>3, <3>3, <4>1, <4>2
    <3>4. CASE i = (m + n) + 1
      <4>1. i - m = n + 1 /\ ~(i <= m)
        BY <1>1, <3>4
      <4>2. l[i] = e
        BY <2>1, <2>2, <2>4, <3>1, <4>1
      <4> QED BY <1>2, <2>3, <3>4, <4>2
    <3> QED BY <1>1, <3>1, <3>2, <3>3, <3>4
  <2>6. l = r
    BY <2>2, <2>3, <2>4, <2>5, SeqEqual
  <2> QED BY <2>6 DEF l, r, b
<1> QED BY <1>3, <1>4, <1>5 DEF u, m

\* Counting what is among the first of a list.
LEMMA UptoIsNatural ==
  ASSUME NEW s, NEW j \in Nat
  PROVE  Upto(s, j) \in Nat /\ IsFiniteSet(Where(s, 1 .. j, Questions))
<1> DEFINE A == Where(s, 1 .. j, Questions)
<1>1. A \in SUBSET (1 .. j) /\ IsFiniteSet(1 .. j)
  BY FS_Interval DEF Where
<1> HIDE DEF A
<1>2. IsFiniteSet(A) /\ Cardinality(A) \in Nat
  BY <1>1, FS_Subset, FS_CardinalityType
<1> QED BY <1>2 DEF A, Upto

LEMMA UptoGrows ==
  ASSUME NEW s, NEW i \in Nat, NEW j \in Nat, i <= j PROVE Upto(s, i) <= Upto(s, j)
<1> DEFINE A == Where(s, 1 .. i, Questions)
           B == Where(s, 1 .. j, Questions)
<1>1. A \in SUBSET B
  BY DEF Where
<1>2. IsFiniteSet(B)
  BY UptoIsNatural
<1> HIDE DEF A, B
<1>3. Cardinality(A) <= Cardinality(B)
  BY <1>1, <1>2, FS_Subset
<1> QED BY <1>3 DEF A, B, Upto

LEMMA UptoAgrees ==
  ASSUME NEW s, NEW t, NEW j \in Nat, \A i \in 1 .. j : s[i] = t[i]
  PROVE  Upto(s, j) = Upto(t, j)
<1>1. Where(s, 1 .. j, Questions) = Where(t, 1 .. j, Questions)
  BY DEF Where
<1> QED BY <1>1 DEF Upto

LEMMA UptoRemoved ==
  ASSUME NEW S, NEW s \in Seq(S), NEW p \in 1 .. Len(s)
  PROVE  /\ \A j \in 0 .. p - 1 : Upto(Removed(s, p), j) = Upto(s, j)
         /\ \A j \in p - 1 .. Len(s) - 1 :
              Upto(Removed(s, p), j) + (IF s[p] \in Questions THEN 1 ELSE 0) <= Upto(s, j + 1)
<1> DEFINE n == Len(s)
           r == Removed(s, p)
<1>1. n \in Nat /\ p \in 1 .. n
  BY LenProperties
<1>2. \A i \in 1 .. n - 1 : r[i] = IF i < p THEN s[i] ELSE s[i + 1]
  BY RemovedIsList
<1> HIDE DEF n, r
<1>3. ASSUME NEW j \in 0 .. p - 1 PROVE Upto(r, j) = Upto(s, j)
  <2>1. j \in Nat /\ \A i \in 1 .. j : i \in 1 .. n - 1 /\ i < p
    BY <1>1
  <2> QED BY <1>2, <2>1, UptoAgrees
<1>4. ASSUME NEW j \in p - 1 .. n - 1
      PROVE  Upto(r, j) + (IF s[p] \in Questions THEN 1 ELSE 0) <= Upto(s, j + 1)
  <2>1. j \in Nat /\ j + 1 \in Nat /\ p \in 1 .. j + 1 /\ j <= n - 1
    BY <1>1
  <2> DEFINE D == 1 .. j
             E == (1 .. j + 1) \ {p}
             e == [i \in D |-> IF i < p THEN i ELSE i + 1]
             B == Where(s, E, Questions)
             C == Where(s, 1 .. j + 1, Questions)
  <2>2. e \in [D -> E] /\ \A i \in D : e[i] = IF i < p THEN i ELSE i + 1
    BY <1>1, <2>1
  <2>3. \A i, k \in D : e[i] = e[k] => i = k
    BY <1>1, <2>1
  <2>4. \A i \in D : r[i] \in Questions => s[e[i]] \in Questions
    BY <1>1, <1>2, <2>1, <2>2
  <2>5. IsFiniteSet(E)
    <3>1. IsFiniteSet(1 .. j + 1)
      BY <2>1, FS_Interval
    <3> QED BY <3>1, FS_RemoveElement
  <2> HIDE DEF e
  <2>6. Upto(r, j) <= Cardinality(B) /\ Cardinality(B) \in Nat /\ Upto(r, j) \in Nat
    <3>1. /\ Cardinality(Where(r, D, Questions)) <= Cardinality(B)
          /\ Cardinality(Where(r, D, Questions)) \in Nat /\ Cardinality(B) \in Nat
      <4> HIDE DEF D, E
      <4> QED BY <2>2, <2>3, <2>4, <2>5, CountInjected
    <3> QED BY <3>1 DEF Upto
  <2>7. p \notin B /\ C = B \cup (IF s[p] \in Questions THEN {p} ELSE {})
    BY <1>1, <2>1 DEF Where
  <2>8. IsFiniteSet(B)
    <3>1. B \in SUBSET E
      BY DEF Where
    <3> HIDE DEF B, E
    <3> QED BY <2>5, <3>1, FS_Subset
  <2> HIDE DEF B, C, D, E
  <2>9. CASE s[p] \in Questions
    <3>1. C = B \cup {p}
      BY <2>7, <2>9
    <3>2. Cardinality(C) = Cardinality(B) + 1
      BY <2>7, <2>8, <3>1, FS_AddElement
    <3>3. Upto(s, j + 1) = Cardinality(C)
      BY DEF Upto, C
    <3> QED BY <2>6, <2>9, <3>2, <3>3
  <2>10. CASE s[p] \notin Questions
    <3>1. C = B
      BY <2>7, <2>10
    <3>2. Upto(s, j + 1) = Cardinality(B)
      BY <3>1 DEF Upto, C
    <3> QED BY <2>6, <2>10, <3>2
  <2> QED BY <2>9, <2>10
<1> QED BY <1>3, <1>4 DEF n, r

LEMMA UptoAppended ==
  ASSUME NEW S, NEW s \in Seq(S), NEW e \in S
  PROVE  /\ \A j \in 0 .. Len(s) : Upto(Append(s, e), j) = Upto(s, j)
         /\ Upto(Append(s, e), Len(s) + 1) <= Upto(s, Len(s)) + 1
         /\ e \notin Questions => Upto(Append(s, e), Len(s) + 1) = Upto(s, Len(s))
<1> DEFINE n == Len(s)
           t == Append(s, e)
<1>1. n \in Nat /\ t[n + 1] = e /\ \A i \in 1 .. n : t[i] = s[i]
  BY AppendProperties, LenProperties
<1> HIDE DEF n, t
<1>2. ASSUME NEW j \in 0 .. n PROVE Upto(t, j) = Upto(s, j)
  <2>1. j \in Nat /\ \A i \in 1 .. j : t[i] = s[i]
    BY <1>1
  <2> QED BY <2>1, UptoAgrees
<1> DEFINE A == Where(s, 1 .. n, Questions)
           C == Where(t, 1 .. n + 1, Questions)
<1>3. C = A \cup (IF e \in Questions THEN {n + 1} ELSE {}) /\ n + 1 \notin A
  BY <1>1 DEF Where
<1>4. IsFiniteSet(A) /\ Cardinality(A) \in Nat
  BY <1>1, UptoIsNatural DEF Upto
<1> HIDE DEF A, C
<1>5. e \in Questions => Cardinality(C) = Cardinality(A) + 1
  <2> SUFFICES ASSUME e \in Questions PROVE Cardinality(C) = Cardinality(A) + 1
    OBVIOUS
  <2>1. C = A \cup {n + 1}
    BY <1>3
  <2> QED BY <1>3, <1>4, <2>1, FS_AddElement
<1>6. e \notin Questions => C = A
  BY <1>3
<1>7. Upto(t, n + 1) = Cardinality(C) /\ Upto(s, n) = Cardinality(A)
  BY DEF Upto, A, C
<1> QED BY <1>2, <1>4, <1>5, <1>6, <1>7 DEF n, t

\* The frames on their way to the driver, in order: the answer the decoder has in hand,
\* the queue, the wire.
Held  == IF dec.frame \in Questions THEN <<dec.frame>> ELSE << >>
Pipe  == (Held \o rxq) \o air
Event == IF driver.event THEN 1 ELSE 0
Has(s, f) == \E i \in 1 .. Len(s) : s[i] = f

\* What the decoder has in hand, and who is there to wait.
DecInv ==
  /\ dec.at \in {"none", "idle"} => dec.frame = NoFrame
  /\ dec.at = "callback" => dec.frame \in Frames
  /\ dec.at = "matched" => dec.frame \in Questions
  /\ dec.frame \in Questions => codecMode = "plain"
  /\ driver.waiting \in Questions \cup {NoFrame}
  /\ Writable => rx = "run"
  /\ app.at = "wait" => port.working
  /\ late <= MaxLate

LEMMA Fronted ==
  ASSUME NEW S, NEW s \in Seq(S)
  PROVE  /\ << >> \o s = s
         /\ \A f \in S : <<f>> \o s # << >> /\ Tail(<<f>> \o s) = s /\ (<<f>> \o s)[1] = f
                         /\ <<f>> \o s \in Seq(S)
         /\ s # << >> => <<Head(s)>> \o Tail(s) = s
<1>1. << >> \o s = s
  BY ConcatEmptySeq
<1>2. ASSUME NEW f \in S
      PROVE  /\ <<f>> \o s # << >> /\ Tail(<<f>> \o s) = s /\ (<<f>> \o s)[1] = f
             /\ <<f>> \o s \in Seq(S)
  <2> DEFINE a == <<f>>
             u == a \o s
             t == Tail(u)
             n == Len(s)
  <2>1. a \in Seq(S) /\ Len(a) = 1 /\ a[1] = f
    OBVIOUS
  <2>2. n \in Nat
    BY LenProperties
  <2> HIDE DEF a
  <2>3. /\ u \in Seq(S) /\ Len(u) = Len(a) + n
        /\ \A i \in 1 .. Len(a) + n : u[i] = IF i <= Len(a) THEN a[i] ELSE s[i - Len(a)]
    BY <2>1, ConcatProperties
  <2>4. u # << >>
    BY <2>1, <2>2, <2>3, EmptySeq
  <2>5. t \in Seq(S) /\ Len(t) = Len(u) - 1 /\ \A i \in 1 .. Len(u) - 1 : t[i] = u[i + 1]
    BY <2>3, <2>4, HeadTailProperties
  <2> HIDE DEF n, u, t
  <2>6. Len(t) = n /\ Len(u) = n + 1
    BY <2>1, <2>2, <2>3, <2>5
  <2>7. ASSUME NEW i \in 1 .. n PROVE t[i] = s[i]
    <3>1. t[i] = u[i + 1]
      BY <2>2, <2>5, <2>6
    <3>2. i + 1 \in 1 .. 1 + n /\ ~(i + 1 <= 1) /\ (i + 1) - 1 = i
      BY <2>2
    <3> QED BY <2>1, <2>3, <3>1, <3>2
  <2>8. t = s
    BY <2>5, <2>6, <2>7, SeqEqual DEF n
  <2>9. u[1] = f
    BY <2>1, <2>2, <2>3
  <2> QED BY <2>3, <2>4, <2>8, <2>9 DEF t, u, a
<1>3. ASSUME s # << >> PROVE <<Head(s)>> \o Tail(s) = s
  <2> DEFINE hd == Head(s)
             e == << >>
  <2>1. e \in Seq(S) /\ hd \in S
    BY <1>3, EmptySeq, Queued
  <2>2. Append(e, hd) \o Tail(s) = e \o s
    <3> HIDE DEF e, hd
    <3> QED BY <1>3, <2>1, JoinsMove DEF hd
  <2>3. Append(e, hd) = <<hd>>
    OBVIOUS
  <2> QED BY <1>1, <2>2, <2>3
<1> QED BY <1>1, <1>2, <1>3

LEMMA PipeTyped ==
  ASSUME NodeTypes
  PROVE  /\ Held \in Seq(Frames) /\ Held \o rxq \in Seq(Frames) /\ Pipe \in Seq(Frames)
         /\ Len(Pipe) \in Nat
<1>1. Held \in Seq(Frames)
  <2>1. Questions \subseteq Frames
    BY DEF Frames, Whats
  <2>2. dec.frame \in Questions => <<dec.frame>> \in Seq(Frames)
    BY <2>1
  <2> QED BY <2>2, EmptySeq DEF Held
<1>2. Held \o rxq \in Seq(Frames)
  BY <1>1, ConcatProperties DEF NodeTypes
<1>3. (Held \o rxq) \o air \in Seq(Frames)
  BY <1>2, ConcatProperties DEF NodeTypes
<1> QED BY <1>1, <1>2, <1>3, LenProperties DEF Pipe

\* The answer in hand is given away or dropped.
LEMMA PipeGives ==
  ASSUME NodeTypes, dec'.frame \notin Questions, rxq' = rxq, air' = air
  PROVE  /\ dec.frame \notin Questions => Pipe' = Pipe
         /\ dec.frame \in Questions => /\ Pipe[1] = dec.frame /\ 1 \in 1 .. Len(Pipe)
                                       /\ Pipe' = Removed(Pipe, 1)
<1>1. Held' = << >>
  BY DEF Held
<1>2. Pipe' = (<< >> \o rxq) \o air
  BY <1>1 DEF Pipe
<1>3. CASE dec.frame \notin Questions
  BY <1>2, <1>3 DEF Pipe, Held
<1>4. CASE dec.frame \in Questions
  <2> DEFINE f == dec.frame
             b == <<f>> \o rxq
  <2>1. rxq \in Seq(Frames) /\ air \in Seq(Frames) /\ f \in Frames
    BY <1>4 DEF NodeTypes, Frames, Whats
  <2>2. b # << >> /\ Tail(b) = rxq /\ << >> \o rxq = rxq /\ b[1] = f /\ b \in Seq(Frames)
    BY <2>1, Fronted
  <2>3. Pipe = b \o air
    BY <1>4 DEF Pipe, Held
  <2> HIDE DEF b
  <2>4. Tail(b) \o air = Removed(b \o air, 1) /\ 1 \in 1 .. Len(b \o air)
    BY <2>1, <2>2, JoinsMove
  <2>5. (b \o air)[1] = b[1]
    <3>1. /\ Len(b \o air) = Len(b) + Len(air)
          /\ \A i \in 1 .. Len(b) + Len(air) :
               (b \o air)[i] = IF i <= Len(b) THEN b[i] ELSE air[i - Len(b)]
      BY <2>1, <2>2, ConcatProperties
    <3>2. Len(b) \in Nat /\ Len(air) \in Nat /\ Len(b) # 0
      BY <2>1, <2>2, EmptySeq, LenProperties
    <3> DEFINE m == Len(b)
               n == Len(air)
    <3> HIDE DEF m, n
    <3>3. 1 \in 1 .. m + n /\ 1 <= m
      BY <3>2 DEF m, n
    <3> QED BY <3>1, <3>3 DEF m, n
  <2>6. Pipe' = Removed(Pipe, 1) /\ 1 \in 1 .. Len(Pipe)
    BY <1>2, <2>2, <2>3, <2>4
  <2> QED BY <1>4, <2>2, <2>3, <2>5, <2>6
<1> QED BY <1>3, <1>4

\* How the threads and the wire move what is on its way: it stays, one of it goes, the
\* first is taken for the answer, a sample comes, or all that is on the wire is lost.
Kept    == Pipe' = Pipe /\ Event' = Event
Dropped == \E p \in 1 .. Len(Pipe) : Pipe' = Removed(Pipe, p) /\ Event' = Event
Passed  == /\ 1 \in 1 .. Len(Pipe) /\ Pipe[1] \in Questions /\ Pipe' = Removed(Pipe, 1)
           /\ Event' = 1 /\ codecMode' = "plain" /\ dec'.frame # "sample"
Sampled == Pipe = << >> /\ Pipe' = <<"sample">> /\ Event' = Event
Cut     == /\ port'.broken /\ Event' = Event /\ Len(Pipe') \in Nat /\ Len(Pipe') <= Len(Pipe)
           /\ \A i \in 1 .. Len(Pipe') : Pipe'[i] = Pipe[i]

LEMMA PipeReceives ==
  ASSUME NodeTypes, RxTake \/ FrameLost PROVE Kept \/ Dropped
<1> DEFINE b == Held \o rxq
           hd == Head(air)
           t == Tail(air)
<1>1. air # << >> /\ air' = t /\ Event' = Event
  BY DEF RxTake, FrameLost, Event
<1>2. Held \in Seq(Frames) /\ b \in Seq(Frames) /\ air \in Seq(Frames) /\ rxq \in Seq(Frames)
  BY PipeTyped DEF NodeTypes
<1>3. hd \in Frames
  BY <1>1, <1>2, Queued
<1>4. Held' = Held
  BY DEF RxTake, FrameLost, Held
<1>5. CASE RxTake
  <2> DEFINE a == Append(rxq, hd)
  <2>1. rxq' = a
    BY <1>5 DEF RxTake
  <2>2. Held \o a = Append(b, hd)
    BY <1>2, <1>3, JoinsMove
  <2> HIDE DEF hd, t, b
  <2>3. Append(b, hd) \o t = b \o air
    BY <1>1, <1>2, JoinsMove DEF hd, t
  <2> HIDE DEF a
  <2>4. Pipe' = (Held \o a) \o t
    BY <1>1, <1>4, <2>1 DEF Pipe
  <2>5. Pipe' = b \o air
    BY <2>2, <2>3, <2>4
  <2> QED BY <1>1, <2>5 DEF Kept, Pipe, b
<1>6. CASE FrameLost
  <2>1. rxq' = rxq
    BY <1>6 DEF FrameLost
  <2>2. Pipe' = b \o t
    BY <1>1, <1>4, <2>1 DEF Pipe
  <2>3. Pipe = b \o air
    BY DEF Pipe
  <2> HIDE DEF t, b
  <2>4. b \o t = Removed(b \o air, Len(b) + 1) /\ Len(b) + 1 \in 1 .. Len(b \o air)
    BY <1>1, <1>2, JoinsMove DEF t
  <2>5. Pipe' = Removed(Pipe, Len(b) + 1) /\ Len(b) + 1 \in 1 .. Len(Pipe)
    BY <2>2, <2>3, <2>4
  <2> QED BY <1>1, <2>5 DEF Dropped
<1> QED BY <1>5, <1>6

LEMMA PipeFirst ==
  ASSUME NodeTypes, rxq # << >>, dec.frame \notin Questions
  PROVE  /\ Pipe = rxq \o air /\ 1 \in 1 .. Len(Pipe) /\ Pipe[1] = Head(rxq)
         /\ Tail(rxq) \o air = Removed(Pipe, 1)
<1>1. rxq \in Seq(Frames) /\ air \in Seq(Frames)
  BY DEF NodeTypes
<1>2. Pipe = rxq \o air
  <2>1. << >> \o rxq = rxq
    BY <1>1, Fronted
  <2>2. Pipe = (<< >> \o rxq) \o air
    BY DEF Pipe, Held
  <2> QED BY <2>1, <2>2
<1>3. Tail(rxq) \o air = Removed(rxq \o air, 1) /\ 1 \in 1 .. Len(rxq \o air)
  BY <1>1, JoinsMove
<1>4. (rxq \o air)[1] = Head(rxq)
  <2> DEFINE m == Len(rxq)
             n == Len(air)
             u == rxq \o air
  <2>1. m \in Nat /\ n \in Nat /\ m # 0
    BY <1>1, EmptySeq, LenProperties
  <2>2. \A i \in 1 .. m + n : u[i] = IF i <= m THEN rxq[i] ELSE air[i - m]
    BY <1>1, ConcatProperties
  <2>3. Head(rxq) = rxq[1]
    BY <1>1, HeadTailProperties
  <2> HIDE DEF m, n, u
  <2>4. 1 \in 1 .. m + n /\ 1 <= m
    BY <2>1
  <2>5. u[1] = rxq[1]
    BY <2>2, <2>4
  <2> QED BY <2>3, <2>5 DEF u
<1> QED BY <1>2, <1>3, <1>4

LEMMA PipeDecodes ==
  ASSUME NodeTypes, DecInv, DecDecode
  PROVE  /\ Kept \/ Dropped
         /\ codecMode' = codecMode \/ Has(Pipe, "descriptor")
         /\ dec'.frame = "sample" => codecMode = "loop"
<1> DEFINE hd == Head(rxq)
           t == Tail(rxq)
<1>1. /\ dec.frame \notin Questions /\ rxq # << >> /\ rxq' = t /\ air' = air /\ Event' = Event
      /\ dec' = Decoded /\ codecMode' = IF hd = "descriptor" THEN "loop" ELSE codecMode
  BY DEF DecDecode, DecInv, Questions, NoFrame, Event
<1>2. /\ Pipe = rxq \o air /\ 1 \in 1 .. Len(Pipe) /\ Pipe[1] = hd
      /\ t \o air = Removed(Pipe, 1)
  BY <1>1, PipeFirst
<1>3. rxq \in Seq(Frames) /\ air \in Seq(Frames) /\ hd \in Frames /\ t \in Seq(Frames)
  BY <1>1, Queued DEF NodeTypes
<1>4. codecMode' = codecMode \/ Has(Pipe, "descriptor")
  <2>1. hd = "descriptor" => Has(Pipe, "descriptor")
    BY <1>2 DEF Has
  <2> QED BY <1>1, <2>1
<1>5. dec'.frame = "sample" => codecMode = "loop"
  <2>1. codecMode # "loop" => Decoded = IF hd \in {"descriptor", "sample"} THEN Idle
                                        ELSE [at |-> "callback", frame |-> hd]
    BY DEF Decoded
  <2> QED BY <1>1, <2>1 DEF Idle, NoFrame
<1>6. CASE dec'.frame \in Questions
  <2>1. dec'.frame = hd
    BY <1>1, <1>6 DEF Decoded, Idle, Questions, NoFrame
  <2>2. Held' = <<hd>>
    BY <1>6, <2>1 DEF Held
  <2>3. <<hd>> \o t = rxq
    BY <1>1, <1>3, Fronted
  <2> HIDE DEF hd, t
  <2>4. Pipe' = (<<hd>> \o t) \o air
    BY <1>1, <2>2 DEF Pipe
  <2>5. Pipe' = rxq \o air
    BY <2>3, <2>4
  <2> QED BY <1>1, <1>2, <1>4, <1>5, <2>5 DEF Kept
<1>7. CASE dec'.frame \notin Questions
  <2>1. Held' = << >>
    BY <1>7 DEF Held
  <2>2. << >> \o t = t
    BY <1>3, Fronted
  <2> HIDE DEF t
  <2>3. Pipe' = (<< >> \o t) \o air
    BY <1>1, <2>1 DEF Pipe
  <2>4. Pipe' = Removed(Pipe, 1)
    BY <1>2, <2>2, <2>3
  <2> QED BY <1>1, <1>2, <1>4, <1>5, <2>4 DEF Dropped
<1> QED BY <1>6, <1>7

LEMMA PipeMoves ==
  ASSUME NodeTypes, DecInv, Rx \/ Dec \/ Wire
  PROVE  /\ Kept \/ Dropped \/ Passed \/ Sampled \/ Cut
         /\ codecMode' = codecMode \/ Has(Pipe, "descriptor")
         /\ dec'.frame = "sample" => dec.frame = "sample" \/ codecMode = "loop"
<1>1. CASE RxTake \/ FrameLost
  <2>1. codecMode' = codecMode /\ dec' = dec
    BY <1>1 DEF RxTake, FrameLost
  <2> QED BY <1>1, <2>1, PipeReceives
<1>2. CASE RxEnds \/ DecEnds
  <2>1. /\ codecMode' = codecMode /\ rxq' = rxq /\ air' = air /\ driver' = driver
        /\ dec'.frame = dec.frame
    BY <1>2 DEF RxEnds, DecEnds, NodeTypes, Decoders
  <2> QED BY <2>1 DEF Kept, Pipe, Held, Event
<1>3. CASE DecDecode
  BY <1>3, PipeDecodes
<1>4. CASE DecHandle
  <2>1. /\ codecMode' = codecMode /\ rxq' = rxq /\ air' = air /\ driver' = driver
        /\ dec'.frame = dec.frame \/ dec'.frame = NoFrame
    BY <1>4 DEF DecHandle, Idle, NodeTypes, Decoders
  <2>2. CASE dec'.frame = dec.frame
    BY <2>1, <2>2 DEF Kept, Pipe, Held, Event
  <2>3. CASE dec'.frame = NoFrame
    <3>1. dec'.frame \notin Questions /\ dec'.frame # "sample"
      BY <2>3 DEF Questions, NoFrame
    <3>2. Kept \/ Dropped
      BY <2>1, <3>1, PipeGives DEF Kept, Dropped, Event
    <3> QED BY <2>1, <3>1, <3>2
  <2> QED BY <2>1, <2>2, <2>3
<1>5. CASE DecAnswer
  <2>1. /\ codecMode' = codecMode /\ rxq' = rxq /\ air' = air /\ dec'.frame = NoFrame
        /\ dec.frame \in Questions /\ codecMode = "plain"
    BY <1>5 DEF DecAnswer, DecInv, Idle
  <2>2. dec'.frame \notin Questions /\ dec'.frame # "sample"
    BY <2>1 DEF Questions, NoFrame
  <2>3. Event' = 1
    BY <1>5 DEF DecAnswer, NodeTypes, Drivers, Event
  <2>4. Passed
    BY <2>1, <2>2, <2>3, PipeGives DEF Passed
  <2> QED BY <2>1, <2>2, <2>4
<1>6. CASE DeviceSamples
  <2>1. /\ codecMode' = codecMode /\ rxq' = << >> /\ air' = <<"sample">> /\ driver' = driver
        /\ dec' = dec /\ dec.frame = NoFrame
    BY <1>6 DEF DeviceSamples, DecInv
  <2>2. Held' = << >>
    BY <2>1 DEF Held, Questions, NoFrame
  <2>3. Pipe' = (<< >> \o << >>) \o <<"sample">>
    BY <2>1, <2>2 DEF Pipe
  <2>4. << >> \in Seq(Frames) /\ <<"sample">> \in Seq(Frames)
    BY EmptySeq DEF Frames
  <2>5. << >> \o << >> = << >> /\ << >> \o <<"sample">> = <<"sample">>
    BY <2>4, Fronted
  <2>6. Pipe = << >>
    <3>1. Pipe = (<< >> \o << >>) \o << >>
      BY <1>6, <2>1 DEF DeviceSamples, Pipe, Held, Questions, NoFrame
    <3> QED BY <2>5, <3>1
  <2>7. Sampled
    BY <2>1, <2>3, <2>5, <2>6 DEF Sampled, Event
  <2> QED BY <2>1, <2>7
<1>7. CASE Unplugged
  <2> DEFINE b == Held \o rxq
             n == Len(b)
             m == Len(air)
             q == Pipe
             r == Pipe'
  <2>1. /\ codecMode' = codecMode /\ rxq' = rxq /\ air' = << >> /\ driver' = driver
        /\ dec' = dec
    BY <1>7 DEF Unplugged
  <2>2. port'.broken
    BY <1>7 DEF Unplugged, NodeTypes, Ports
  <2>3. Held \in Seq(Frames) /\ b \in Seq(Frames) /\ air \in Seq(Frames)
    BY PipeTyped DEF NodeTypes
  <2>4. r = b
    <3>1. r = b \o << >>
      BY <2>1 DEF Pipe, Held
    <3>2. b \o << >> = b
      BY <2>3, ConcatEmptySeq
    <3> QED BY <3>1, <3>2
  <2>5. /\ Len(q) = n + m /\ n \in Nat /\ m \in Nat
        /\ \A i \in 1 .. n + m : q[i] = IF i <= n THEN b[i] ELSE air[i - n]
    BY <2>3, ConcatProperties, LenProperties DEF Pipe
  <2> HIDE DEF q, r, b
  <2>6. Len(r) = n
    BY <2>4
  <2> HIDE DEF n, m
  <2>7. n <= n + m /\ \A i \in 1 .. n : i \in 1 .. n + m /\ i <= n
    BY <2>5
  <2>8. Len(r) \in Nat /\ Len(r) <= Len(q) /\ \A i \in 1 .. Len(r) : r[i] = q[i]
    BY <2>4, <2>5, <2>6, <2>7
  <2>9. Cut
    BY <2>1, <2>2, <2>8 DEF Cut, Event, q, r
  <2> QED BY <2>1, <2>9
<1> QED BY <1>1, <1>2, <1>3, <1>4, <1>5, <1>6, <1>7 DEF Rx, Dec, Wire

\* Answers on the wire and the one taken; no old descriptor with n answers before it.
Answers(s) == Upto(s, Len(s))
Clear(s, e, n) ==
  e < n /\ \A j \in 1 .. Len(s) : s[j] = "descriptor" => Upto(s, j) + e < n

LEMMA AnswersAreNatural ==
  ASSUME NEW S, NEW s \in Seq(S) PROVE Answers(s) \in Nat /\ Len(s) \in Nat
  BY UptoIsNatural, LenProperties DEF Answers

LEMMA NoAnswers == Answers(<< >>) = 0
<1>1. Len(<< >>) = 0 /\ Where(<< >>, 1 .. 0, Questions) = {}
  BY EmptySeq DEF Where
<1>2. Cardinality({}) = 0
  BY FS_EmptySet
<1> QED BY <1>1, <1>2 DEF Answers, Upto

LEMMA HasEither ==
  ASSUME NEW S, NEW s \in Seq(S), NEW t \in Seq(S), NEW w, Has(s \o t, w)
  PROVE  Has(s, w) \/ Has(t, w)
<1> DEFINE m == Len(s)
           n == Len(t)
           u == s \o t
<1>1. m \in Nat /\ n \in Nat
  BY LenProperties
<1>2. Len(u) = m + n /\ \A i \in 1 .. m + n : u[i] = IF i <= m THEN s[i] ELSE t[i - m]
  BY ConcatProperties
<1>3. Has(u, w)
  OBVIOUS
<1> HIDE DEF m, n, u
<1>4. PICK i \in 1 .. m + n : u[i] = w
  BY <1>2, <1>3 DEF Has
<1>5. CASE i <= m
  <2>1. i \in 1 .. m /\ s[i] = w
    BY <1>1, <1>2, <1>4, <1>5
  <2> QED BY <2>1 DEF Has, m
<1>6. CASE ~(i <= m)
  <2>1. i - m \in 1 .. n /\ t[i - m] = w
    BY <1>1, <1>2, <1>4, <1>6
  <2> QED BY <2>1 DEF Has, n
<1> QED BY <1>5, <1>6

LEMMA RemovedHas ==
  ASSUME NEW S, NEW s \in Seq(S), NEW p \in 1 .. Len(s), NEW w
  PROVE  /\ Has(Removed(s, p), w) => Has(s, w)
         /\ Has(s, w) /\ s[p] # w => Has(Removed(s, p), w)
<1> DEFINE n == Len(s)
           r == Removed(s, p)
<1>1. n \in Nat /\ p \in 1 .. n
  BY LenProperties
<1>2. Len(r) = n - 1 /\ \A i \in 1 .. n - 1 : r[i] = IF i < p THEN s[i] ELSE s[i + 1]
  BY RemovedIsList
<1>3. Has(s, w) <=> \E i \in 1 .. n : s[i] = w
  BY DEF Has
<1>4. Has(r, w) <=> \E i \in 1 .. n - 1 : r[i] = w
  BY <1>2 DEF Has
<1> HIDE DEF n, r
<1>5. ASSUME NEW i \in 1 .. n - 1, r[i] = w PROVE \E k \in 1 .. n : s[k] = w
  <2>1. i \in 1 .. n /\ i + 1 \in 1 .. n
    BY <1>1
  <2>2. s[i] = w \/ s[i + 1] = w
    BY <1>2, <1>5
  <2> QED BY <2>1, <2>2
<1>6. ASSUME NEW i \in 1 .. n, s[i] = w, s[p] # w PROVE \E k \in 1 .. n - 1 : r[k] = w
  <2>1. i # p
    BY <1>6
  <2>2. CASE i < p
    <3>1. i \in 1 .. n - 1
      BY <1>1, <2>2
    <3>2. r[i] = s[i]
      BY <1>2, <2>2, <3>1
    <3> QED BY <1>6, <3>1, <3>2
  <2>3. CASE p < i
    <3>1. i - 1 \in 1 .. n - 1 /\ ~(i - 1 < p) /\ (i - 1) + 1 = i
      BY <1>1, <2>3
    <3>2. r[i - 1] = s[i]
      BY <1>2, <3>1
    <3> QED BY <1>6, <3>1, <3>2
  <2> QED BY <1>1, <2>1, <2>2, <2>3
<1> QED BY <1>3, <1>4, <1>5, <1>6 DEF r

LEMMA RemovedAnswers ==
  ASSUME NEW S, NEW s \in Seq(S), NEW p \in 1 .. Len(s)
  PROVE  Answers(Removed(s, p)) + (IF s[p] \in Questions THEN 1 ELSE 0) <= Answers(s)
<1> DEFINE n == Len(s)
           r == Removed(s, p)
<1>1. n \in Nat /\ p \in 1 .. n
  BY LenProperties
<1>2. Len(r) = n - 1
  BY RemovedIsList
<1>3. \A j \in p - 1 .. n - 1 :
        Upto(r, j) + (IF s[p] \in Questions THEN 1 ELSE 0) <= Upto(s, j + 1)
  BY UptoRemoved
<1> HIDE DEF n, r
<1>4. n - 1 \in p - 1 .. n - 1 /\ (n - 1) + 1 = n
  BY <1>1
<1>5. Upto(r, n - 1) + (IF s[p] \in Questions THEN 1 ELSE 0) <= Upto(s, n)
  BY <1>3, <1>4
<1>6. Answers(r) = Upto(r, n - 1) /\ Answers(s) = Upto(s, n)
  BY <1>2 DEF Answers, n
<1> QED BY <1>5, <1>6 DEF r

LEMMA RemovedClear ==
  ASSUME NEW S, NEW s \in Seq(S), NEW p \in 1 .. Len(s), NEW e \in {0, 1}, NEW n \in Nat,
         Clear(s, e, n)
  PROVE  /\ Clear(Removed(s, p), e, n)
         /\ s[p] \in Questions /\ p = 1 =>
              Clear(Removed(s, p), 1, n) \/ ~Has(Removed(s, p), "descriptor")
<1> DEFINE m == Len(s)
           r == Removed(s, p)
           one == IF s[p] \in Questions THEN 1 ELSE 0
<1>1. m \in Nat /\ p \in 1 .. m
  BY LenProperties
<1>2. Len(r) = m - 1 /\ \A i \in 1 .. m - 1 : r[i] = IF i < p THEN s[i] ELSE s[i + 1]
  BY RemovedIsList
<1>3. /\ \A j \in 0 .. p - 1 : Upto(r, j) = Upto(s, j)
      /\ \A j \in p - 1 .. m - 1 : Upto(r, j) + one <= Upto(s, j + 1)
  BY UptoRemoved
<1>4. e < n /\ \A j \in 1 .. m : s[j] = "descriptor" => Upto(s, j) + e < n
  BY DEF Clear
<1>5. one \in {0, 1}
  OBVIOUS
<1> HIDE DEF m, r, one
<1>6. ASSUME NEW j \in 1 .. m - 1, r[j] = "descriptor"
      PROVE  /\ Upto(r, j) + e < n /\ Upto(r, j) \in Nat
             /\ j >= p => Upto(r, j) + one + e < n
  <2>1. j \in Nat /\ j + 1 \in Nat /\ j \in 1 .. m /\ j + 1 \in 1 .. m
    BY <1>1
  <2>2. Upto(r, j) \in Nat /\ Upto(s, j) \in Nat /\ Upto(s, j + 1) \in Nat
    BY <2>1, UptoIsNatural
  <2>3. CASE j < p
    <3>1. j \in 0 .. p - 1 /\ s[j] = "descriptor" /\ ~(j >= p)
      BY <1>1, <1>2, <1>6, <2>1, <2>3
    <3>2. Upto(s, j) + e < n /\ Upto(r, j) = Upto(s, j)
      BY <1>3, <1>4, <2>1, <3>1
    <3> QED BY <2>2, <3>1, <3>2
  <2>4. CASE ~(j < p)
    <3>1. j \in p - 1 .. m - 1 /\ s[j + 1] = "descriptor"
      BY <1>1, <1>2, <1>6, <2>1, <2>4
    <3>2. Upto(s, j + 1) + e < n /\ Upto(r, j) + one <= Upto(s, j + 1)
      BY <1>3, <1>4, <2>1, <3>1
    <3> QED BY <1>5, <2>2, <3>2
  <2> QED BY <2>3, <2>4
<1>7. Clear(r, e, n)
  BY <1>2, <1>4, <1>6 DEF Clear
<1>8. ASSUME s[p] \in Questions, p = 1, Has(r, "descriptor") PROVE Clear(r, 1, n)
  <2>1. one = 1
    BY <1>8 DEF one
  <2>2. PICK k \in 1 .. m - 1 : r[k] = "descriptor"
    BY <1>2, <1>8 DEF Has
  <2>3. \A j \in 1 .. m - 1 : j >= p /\ j \in Nat
    BY <1>1, <1>8
  <2>4. \A j \in 1 .. m - 1 : r[j] = "descriptor" => Upto(r, j) + 1 < n /\ Upto(r, j) \in Nat
    <3>1. SUFFICES ASSUME NEW j \in 1 .. m - 1, r[j] = "descriptor"
                   PROVE  Upto(r, j) + 1 < n /\ Upto(r, j) \in Nat
      OBVIOUS
    <3>2. Upto(r, j) + one + e < n /\ Upto(r, j) \in Nat
      BY <1>6, <2>3, <3>1
    <3> QED BY <2>1, <3>2
  <2>5. 1 < n
    BY <2>2, <2>4
  <2> QED BY <1>2, <2>4, <2>5 DEF Clear
<1> QED BY <1>7, <1>8 DEF r

\* Of a part of it, and with frames behind it.
LEMMA FrontClear ==
  ASSUME NEW s, NEW r, Len(s) \in Nat, Len(r) \in Nat, Len(r) <= Len(s),
         \A i \in 1 .. Len(r) : r[i] = s[i]
  PROVE  /\ \A w : Has(r, w) => Has(s, w)
         /\ \A e, n : Clear(s, e, n) => Clear(r, e, n)
<1> DEFINE k == Len(r)
           m == Len(s)
<1>1. k \in Nat /\ m \in Nat /\ k <= m
  OBVIOUS
<1> HIDE DEF k, m
<1>2. \A i \in 1 .. k : i \in 1 .. m /\ i \in Nat
  BY <1>1
<1>3. \A i \in 1 .. k : r[i] = s[i]
  BY DEF k
<1>4. \A i \in 1 .. k : Upto(r, i) = Upto(s, i)
  <2>1. TAKE i \in 1 .. k
  <2>2. i \in Nat /\ \A j \in 1 .. i : j \in 1 .. k
    BY <1>1
  <2> QED BY <1>3, <2>2, UptoAgrees
<1>5. ASSUME NEW w, Has(r, w) PROVE Has(s, w)
  BY <1>2, <1>3, <1>5 DEF Has, k, m
<1>6. ASSUME NEW e, NEW n, Clear(s, e, n) PROVE Clear(r, e, n)
  <2>1. e < n /\ \A j \in 1 .. m : s[j] = "descriptor" => Upto(s, j) + e < n
    BY <1>6 DEF Clear, m
  <2>2. \A j \in 1 .. k : r[j] = "descriptor" => Upto(r, j) + e < n
    BY <1>2, <1>3, <1>4, <2>1
  <2> QED BY <2>1, <2>2 DEF Clear, k
<1> QED BY <1>5, <1>6

LEMMA AppendedClear ==
  ASSUME NEW S, NEW s \in Seq(S), NEW f \in S
  PROVE  /\ Has(Append(s, f), f)
         /\ \A w : Has(Append(s, f), w) => w = f \/ Has(s, w)
         /\ Answers(Append(s, f)) <= Answers(s) + 1
         /\ f \notin Questions => Answers(Append(s, f)) = Answers(s)
         /\ f # "descriptor" => \A e, n : Clear(s, e, n) => Clear(Append(s, f), e, n)
<1> DEFINE m == Len(s)
           t == Append(s, f)
<1>1. m \in Nat /\ Len(t) = m + 1 /\ t[m + 1] = f /\ \A i \in 1 .. m : t[i] = s[i]
  BY AppendProperties, LenProperties
<1>2. /\ \A j \in 0 .. m : Upto(t, j) = Upto(s, j)
      /\ Upto(t, m + 1) <= Upto(s, m) + 1
      /\ f \notin Questions => Upto(t, m + 1) = Upto(s, m)
  BY UptoAppended
<1>3. Answers(t) = Upto(t, m + 1) /\ Answers(s) = Upto(s, m)
  BY <1>1 DEF Answers
<1> HIDE DEF m, t
<1>4. \A i \in 1 .. m + 1 : i \in 1 .. m \/ i = m + 1
  BY <1>1
<1>5. m + 1 \in 1 .. m + 1
  BY <1>1
<1>6. Has(t, f)
  BY <1>1, <1>5 DEF Has
<1>7. ASSUME NEW w, Has(t, w) PROVE w = f \/ Has(s, w)
  BY <1>1, <1>4, <1>7 DEF Has, m
<1>8. ASSUME f # "descriptor", NEW e, NEW n, Clear(s, e, n) PROVE Clear(t, e, n)
  <2>1. e < n /\ \A j \in 1 .. m : s[j] = "descriptor" => Upto(s, j) + e < n
    BY <1>8 DEF Clear, m
  <2>2. ASSUME NEW j \in 1 .. m + 1, t[j] = "descriptor" PROVE Upto(t, j) + e < n
    <3>1. j \in 1 .. m /\ j \in 0 .. m
      BY <1>1, <1>4, <1>8, <2>2
    <3> QED BY <1>1, <1>2, <2>1, <2>2, <3>1
  <2> QED BY <1>1, <2>1, <2>2 DEF Clear
<1> QED BY <1>2, <1>3, <1>6, <1>7, <1>8 DEF t

LEMMA ClearMoves ==
  ASSUME NEW s, Len(s) \in Nat, NEW e \in {0, 1}, NEW d \in {0, 1}, NEW n \in Nat, NEW m \in Nat,
         Clear(s, e, n), d + n <= e + m
  PROVE  Clear(s, d, m)
<1>1. e < n /\ \A j \in 1 .. Len(s) : s[j] = "descriptor" => Upto(s, j) + e < n
  BY DEF Clear
<1>2. d < m
  BY <1>1
<1>3. ASSUME NEW j \in 1 .. Len(s), s[j] = "descriptor" PROVE Upto(s, j) + d < m
  <2>1. j \in Nat
    OBVIOUS
  <2>2. Upto(s, j) \in Nat
    BY <2>1, UptoIsNatural
  <2>3. Upto(s, j) + e < n
    BY <1>1, <1>3
  <2> QED BY <2>2, <2>3
<1> QED BY <1>2, <1>3 DEF Clear

-----------------------------------------------------------------------------
\* What the threads and the wire do to the answers, and to what is left of an old scan.

Quiet == codecMode = "plain" /\ ~Has(Pipe, "descriptor") /\ dec.frame # "sample"

\* The codec and the decoder, where a scan may still be coming.
ModeMoves == /\ codecMode' = codecMode \/ Has(Pipe, "descriptor")
             /\ dec'.frame = "sample" => dec.frame = "sample" \/ codecMode = "loop"

LEMMA HasAnswers ==
  ASSUME NEW S, NEW s \in Seq(S), NEW w \in Questions, Has(s, w)
  PROVE  Answers(s) >= 1
<1> DEFINE n == Len(s)
           A == Where(s, 1 .. n, Questions)
<1>1. PICK i \in 1 .. n : s[i] = w
  BY DEF Has
<1>2. i \in A
  BY <1>1 DEF Where
<1>3. n \in Nat
  BY LenProperties
<1>4. IsFiniteSet(A) /\ Cardinality(A) \in Nat
  BY <1>3, UptoIsNatural DEF Upto
<1>5. Cardinality(A) # 0
  <2> HIDE DEF A
  <2> QED BY <1>2, <1>4, FS_EmptySet
<1>6. Answers(s) = Cardinality(A)
  BY DEF Answers, Upto
<1> HIDE DEF A
<1> QED BY <1>4, <1>5, <1>6

LEMMA DebtShrinks ==
  ASSUME NodeTypes, Kept \/ Dropped \/ Passed \/ Sampled
  PROVE  /\ Answers(Pipe') + Event' <= Answers(Pipe) + Event
         /\ Answers(Pipe') + Event' = Answers(Pipe) + Event /\ Event' = 0 =>
              Event = 0 /\ \A w \in Questions : Has(Pipe, w) => Has(Pipe', w)
<1> DEFINE s == Pipe
           r == Pipe'
           e == Event
           d == Event'
<1>1. s \in Seq(Frames) /\ Answers(s) \in Nat
  BY PipeTyped, AnswersAreNatural
<1>2. e \in {0, 1}
  BY DEF Event
<1>3. CASE Kept
  BY <1>1, <1>2, <1>3 DEF Kept
<1>4. CASE Dropped
  <2>1. PICK p \in 1 .. Len(s) : r = Removed(s, p) /\ d = e
    BY <1>4 DEF Dropped
  <2> HIDE DEF s, r, e, d
  <2>2. r \in Seq(Frames)
    BY <1>1, <2>1, RemovedIsList
  <2>3. Answers(r) \in Nat
    BY <2>2, AnswersAreNatural
  <2>4. Answers(r) + (IF s[p] \in Questions THEN 1 ELSE 0) <= Answers(s)
    BY <1>1, <2>1, RemovedAnswers
  <2>5. s[p] \notin Questions => \A w \in Questions : Has(s, w) => Has(r, w)
    BY <1>1, <2>1, RemovedHas
  <2>6. Answers(r) + d <= Answers(s) + e
    BY <1>1, <1>2, <2>1, <2>3, <2>4
  <2>7. Answers(r) + d = Answers(s) + e => s[p] \notin Questions
    BY <1>1, <1>2, <2>1, <2>3, <2>4
  <2> QED BY <2>1, <2>5, <2>6, <2>7 DEF s, r, e, d
<1>5. CASE Passed
  <2>1. 1 \in 1 .. Len(s) /\ r = Removed(s, 1) /\ s[1] \in Questions /\ d = 1
    BY <1>5 DEF Passed
  <2> HIDE DEF s, r, e, d
  <2>2. r \in Seq(Frames)
    BY <1>1, <2>1, RemovedIsList
  <2>3. Answers(r) \in Nat
    BY <2>2, AnswersAreNatural
  <2>4. Answers(r) + 1 <= Answers(s)
    <3>1. Answers(r) + (IF s[1] \in Questions THEN 1 ELSE 0) <= Answers(s)
      BY <1>1, <2>1, RemovedAnswers
    <3> QED BY <2>1, <3>1
  <2>5. Answers(r) + d <= Answers(s) + e /\ d # 0
    BY <1>1, <1>2, <2>1, <2>3, <2>4
  <2> QED BY <2>5 DEF s, r, e, d
<1>6. CASE Sampled
  <2>1. s = << >> /\ r = <<"sample">> /\ d = e
    BY <1>6 DEF Sampled
  <2>2. Answers(r) = 0
    <3>1. Append(<< >>, "sample") = r
      BY <2>1
    <3>2. "sample" \in Frames /\ "sample" \notin Questions /\ << >> \in Seq(Frames)
      BY EmptySeq DEF Frames, Questions
    <3> HIDE DEF r
    <3>3. Answers(Append(<< >>, "sample")) = Answers(<< >>)
      BY <3>2, AppendedClear
    <3>4. Answers(<< >>) = 0
      BY NoAnswers
    <3> QED BY <3>1, <3>3, <3>4
  <2> HIDE DEF s, r, e, d
  <2>3. \A w \in Questions : ~Has(s, w)
    <3>1. Len(s) = 0
      BY <2>1, EmptySeq
    <3>2. 1 .. 0 = {}
      OBVIOUS
    <3> QED BY <3>1, <3>2 DEF Has
  <2>4. Answers(r) + d <= Answers(s) + e
    BY <1>1, <1>2, <2>1, <2>2
  <2> QED BY <2>1, <2>3, <2>4 DEF s, r, e, d
<1> QED BY <1>3, <1>4, <1>5, <1>6

LEMMA ClearStays ==
  ASSUME NodeTypes, Kept \/ Dropped \/ Passed \/ Sampled \/ Cut, ModeMoves,
         NEW n \in Nat, Quiet \/ Clear(Pipe, Event, n)
  PROVE  Quiet' \/ Clear(Pipe', Event', n)
<1> DEFINE s == Pipe
           r == Pipe'
           e == Event
           d == Event'
<1>1. s \in Seq(Frames) /\ Len(s) \in Nat
  BY PipeTyped
<1>2. e \in {0, 1}
  BY DEF Event
<1>3. Quiet => codecMode' = "plain" /\ dec'.frame # "sample"
  BY DEF Quiet, ModeMoves
<1>4. CASE Kept
  <2>1. r = s /\ d = e
    BY <1>4 DEF Kept
  <2> QED BY <1>3, <2>1 DEF Quiet
<1>5. CASE Dropped
  <2>1. PICK p \in 1 .. Len(s) : r = Removed(s, p) /\ d = e
    BY <1>5 DEF Dropped
  <2>2. Has(r, "descriptor") => Has(s, "descriptor")
    <3> HIDE DEF s, r
    <3> QED BY <1>1, <2>1, RemovedHas
  <2>3. Clear(s, e, n) => Clear(r, d, n)
    <3> HIDE DEF s, r, e, d
    <3> QED BY <1>1, <1>2, <2>1, RemovedClear
  <2> QED BY <1>3, <2>2, <2>3 DEF Quiet
<1>6. CASE Passed
  <2>1. 1 \in 1 .. Len(s) /\ r = Removed(s, 1) /\ s[1] \in Questions /\ d = 1
        /\ codecMode' = "plain" /\ dec'.frame # "sample"
    BY <1>6 DEF Passed
  <2>2. Has(r, "descriptor") => Has(s, "descriptor")
    <3> HIDE DEF s, r
    <3> QED BY <1>1, <2>1, RemovedHas
  <2>3. Clear(s, e, n) => Clear(r, d, n) \/ ~Has(r, "descriptor")
    <3> HIDE DEF s, r, e, d
    <3> QED BY <1>1, <1>2, <2>1, RemovedClear
  <2> QED BY <1>3, <2>1, <2>2, <2>3 DEF Quiet
<1>7. CASE Sampled
  <2>1. r = <<"sample">> /\ s = << >> /\ d = e
    BY <1>7 DEF Sampled
  <2>2. ~Has(r, "descriptor") /\ \A j \in 1 .. Len(r) : r[j] # "descriptor"
    <3>1. Len(r) = 1 /\ r[1] = "sample"
      BY <2>1
    <3> HIDE DEF r
    <3> QED BY <3>1 DEF Has
  <2>3. Clear(s, e, n) => Clear(r, d, n)
    <3> HIDE DEF s, r, e, d
    <3> QED BY <2>1, <2>2 DEF Clear
  <2> QED BY <1>3, <2>2, <2>3 DEF Quiet
<1>8. CASE Cut
  <2>1. /\ Len(r) <= Len(s) /\ d = e /\ \A i \in 1 .. Len(r) : r[i] = s[i]
    BY <1>8 DEF Cut
  <2>2. Len(r) \in Nat
    BY <1>8 DEF Cut
  <2>3. /\ Has(r, "descriptor") => Has(s, "descriptor")
        /\ Clear(s, e, n) => Clear(r, d, n)
    <3> HIDE DEF s, r, e, d
    <3> QED BY <1>1, <2>1, <2>2, FrontClear
  <2> QED BY <1>3, <2>3 DEF Quiet
<1> QED BY <1>4, <1>5, <1>6, <1>7, <1>8

-----------------------------------------------------------------------------
\* The decoder, and who waits.

\* Whatever is asked is a question.
LEMMA AskIsAsking ==
  ASSUME Typed, app.todo # << >>, app.at # "out", Doing.do = "ask" PROVE Doing \in Asking
<1>1. NodeTypes /\ ScriptInv
  BY DEF Typed
<1>2. ASSUME NEW s \in Mundane \cup Connecting, s.do = "ask" PROVE s \in Asking
  BY <1>2 DEF Mundane, Asking, Driving, Halting, Connecting
<1>3. app.todo \in Seq(Mundane \cup Connecting) \/ app.todo \in Seq(Mundane) => Doing \in Asking
  <2>1. app.todo \in Seq(Mundane \cup Connecting) => Doing \in Mundane \cup Connecting
    BY FirstIsOne
  <2>2. app.todo \in Seq(Mundane) => Doing \in Mundane
    BY FirstIsOne
  <2> QED BY <1>2, <2>1, <2>2
<1>4. ~(app.todo \in Seq(Gentle))
  BY FirstIsOne DEF Gentle, Driving
<1>5. ~(app.todo \in Seq(Parting))
  BY FirstIsOne DEF Parting
<1>6. StartRest(app.todo) => Doing \in Asking
  BY StartSteps
<1> QED BY <1>1, <1>3, <1>4, <1>5, <1>6 DEF ScriptInv, Opening

LEMMA DecInit == LidarInit => DecInv
  BY LinkAssumption DEF LidarInit, LinkInit, DecInv, Idle, Writable, Questions, NoFrame

LEMMA DecThreads == ASSUME NodeTypes, DecInv, Rx \/ Dec \/ Wire PROVE DecInv'
<1> USE DEF NodeTypes
<1>1. CASE RxTake \/ RxEnds \/ DeviceSamples \/ FrameLost
  BY <1>1 DEF RxTake, RxEnds, DeviceSamples, FrameLost, DecInv, Writable
<1>2. CASE Unplugged
  <2>1. port'.broken /\ port'.working = port.working
    BY <1>2 DEF Unplugged, Ports
  <2> QED BY <1>2, <2>1 DEF Unplugged, DecInv, Writable
<1>3. CASE DecDecode
  <2>1. Head(rxq) \in Frames
    BY <1>3, Queued DEF DecDecode
  <2> HIDE DEF NodeTypes
  <2>2. "none" \notin Frames /\ "sample" \in Frames /\ "sample" \notin Questions
    BY DEF Frames, Whats, Questions, Speeds
  <2>3. \/ dec' = [at |-> "callback", frame |-> "sample"]
        \/ dec' = Idle
        \/ /\ dec' = [at |-> "callback", frame |-> Head(rxq)]
           /\ codecMode # "loop" /\ Head(rxq) # "descriptor"
    BY <1>3 DEF DecDecode, Decoded
  <2>4. codecMode' = IF Head(rxq) = "descriptor" THEN "loop" ELSE codecMode
    BY <1>3 DEF DecDecode
  <2>5. codecMode \in {"plain", "loop"}
    BY DEF NodeTypes
  <2>6. /\ dec'.at \in {"none", "idle"} => dec'.frame = NoFrame
        /\ dec'.at = "callback" => dec'.frame \in Frames
        /\ dec'.at # "matched"
        /\ dec'.frame \in Questions => codecMode' = "plain"
    BY <2>1, <2>2, <2>3, <2>4, <2>5 DEF Idle, NoFrame, Questions
  <2> QED BY <1>3, <2>6 DEF DecDecode, DecInv, Writable
<1>4. CASE DecHandle
  <2>1. \/ dec' = Idle
        \/ dec' = [dec EXCEPT !.at = "matched"] /\ dec.frame = driver.waiting
    BY <1>4 DEF DecHandle
  <2>2. dec.frame \in Frames /\ driver.waiting \in Questions \cup {NoFrame}
    BY <1>4 DEF DecHandle, DecInv
  <2>3. NoFrame \notin Frames /\ NoFrame \notin Questions
    BY DEF Frames, Whats, Questions, Speeds, NoFrame
  <2>4. \/ dec'.at = "idle" /\ dec'.frame = NoFrame
        \/ dec'.at = "matched" /\ dec'.frame = dec.frame /\ dec.frame \in Questions
    BY <2>1, <2>2, <2>3 DEF Idle, Decoders
  <2> QED BY <1>4, <2>3, <2>4 DEF DecHandle, DecInv, Writable
<1>5. CASE DecAnswer
  <2>1. dec'.at = "idle" /\ dec'.frame = NoFrame /\ driver'.waiting = driver.waiting
    BY <1>5 DEF DecAnswer, Idle, Drivers
  <2>2. NoFrame \notin Questions
    BY DEF Questions, NoFrame
  <2> QED BY <1>5, <2>1, <2>2 DEF DecAnswer, DecInv, Writable
<1>6. CASE DecEnds
  <2>1. dec'.at = "none" /\ dec'.frame = dec.frame
    BY <1>6 DEF DecEnds, Decoders
  <2> QED BY <1>6, <2>1 DEF DecEnds, DecInv, Writable
<1> QED BY <1>1, <1>2, <1>3, <1>4, <1>5, <1>6 DEF Rx, Dec, Wire

LEMMA DecCall == ASSUME Typed, DecInv, Call PROVE DecInv'
<1>0. NodeTypes /\ app.todo # << >> /\ app.at # "out"
  BY CallMoves DEF Typed
<1>1. Doing.do = "ask" => Doing.what \in Questions
  BY <1>0, AskIsAsking DEF Asking
<1>2. ASSUME NEW ok \in BOOLEAN, Done(ok) PROVE app'.at = "step"
  BY <1>0, <1>2, DoneLeaves
<1>3. CASE AskLock
  BY <1>0, <1>3 DEF AskLock, InStep, DecInv, Writable, NodeTypes, Apps
<1>4. CASE AskSend
  <2>1. Doing.do = "ask"
    BY <1>4 DEF AskSend, Typed, ScriptInv
  <2>2. driver'.waiting \in Questions /\ UNCHANGED <<port, rx, dec, late>> /\ codecMode' = "plain"
    BY <1>0, <1>1, <1>4, <2>1 DEF AskSend, NodeTypes, Drivers
  <2>3. app'.at = "wait" => port.working
    <3>1. ~Writable => app'.at = "step"
      <4>1. ~Writable => Done(FALSE)
        BY <1>4 DEF AskSend
      <4> QED BY <1>2, <4>1
    <3> QED BY <3>1 DEF Writable
  <2> QED BY <2>2, <2>3 DEF DecInv, Writable
<1>5. CASE AskTimesOut
  <2>1. app'.at = "step"
    BY <1>2, <1>5 DEF AskTimesOut
  <2>2. late' <= MaxLate
    BY <1>0, <1>5, LinkAssumption DEF AskTimesOut, DecInv, NodeTypes
  <2> QED BY <1>5, <2>1, <2>2 DEF AskTimesOut, DecInv, Writable
<1>6. CASE AskTake
  <2>1. app'.at = "step"
    BY <1>2, <1>6 DEF AskTake
  <2>2. driver'.waiting = driver.waiting
    BY <1>0, <1>6 DEF AskTake, NodeTypes, Drivers
  <2> QED BY <1>6, <2>1, <2>2 DEF AskTake, DecInv, Writable
<1>7. CASE Tell
  <2>1. app'.at = "step"
    <3>1. Done(Writable)
      BY <1>7 DEF Tell
    <3>2. Writable \in BOOLEAN
      BY DEF Writable
    <3> QED BY <1>2, <3>1, <3>2
  <2>2. driver'.waiting = driver.waiting /\ codecMode' \in {"plain", codecMode}
    BY <1>0, <1>7 DEF Tell, NodeTypes, Drivers
  <2> QED BY <1>7, <2>1, <2>2 DEF Tell, DecInv, Writable
<1>8. CASE TellDTR \/ Enable
  <2>1. app'.at = "step"
    BY <1>2, <1>8 DEF TellDTR, Enable
  <2>2. driver'.waiting = driver.waiting
    BY <1>0, <1>8 DEF TellDTR, Enable, NodeTypes, Drivers
  <2> QED BY <1>8, <2>1, <2>2 DEF TellDTR, Enable, DecInv, Writable
<1>9. CASE Connect
  <2>1. app'.at = "step"
    BY <1>2, <1>9 DEF Connect
  <2>2. /\ driver'.waiting = driver.waiting /\ codecMode' = "plain" /\ late' = late
        /\ dec' \in {Idle, dec} /\ (port'.working => rx' = "run")
    BY <1>0, <1>9 DEF Connect, NodeTypes, Drivers, Ports
  <2>3. NoFrame \notin Questions
    BY DEF Questions, NoFrame
  <2> QED BY <2>1, <2>2, <2>3 DEF DecInv, Writable, Idle
<1>10. CASE Unbind
  BY <1>0, <1>10 DEF Unbind, DecInv, Writable, NodeTypes, Drivers, Apps, Ports
<1>11. CASE Join
  <2>1. app'.at = "step"
    BY <1>2, <1>11 DEF Join
  <2>2. driver'.waiting = driver.waiting /\ port'.working = port.working
        /\ port'.broken = port.broken
    BY <1>0, <1>11 DEF Join, NodeTypes, Drivers, Ports
  <2> QED BY <1>11, <2>1, <2>2 DEF Join, DecInv, Writable
<1> QED BY <1>3, <1>4, <1>5, <1>6, <1>7, <1>8, <1>9, <1>10, <1>11 DEF Call

\* Between its calls the node leaves all of it alone.
LinkRests == /\ UNCHANGED <<port, rx, dec, rxq, codecMode, driver, air, late, starts>>
             /\ app.at \in {"out", "step"} /\ app'.at \in {"out", "step"}
NodeSteps == StartUp \/ StartStop \/ WorkLoop \/ Services \/ Interrupted \/ ListenersChange

LEMMA NodeRests == ASSUME Typed, NodeSteps PROVE LinkRests
<1>0. app \in Apps
  BY DEF Typed, NodeTypes
<1>1. ASSUME NEW s, Free \/ Over, Calls(s) \/ Returns PROVE LinkRests
  BY <1>0, <1>1 DEF LinkRests, Calls, Returns, Free, Over, Apps
<1>2. CASE StartUp
  BY <1>1, <1>2
  DEF StartUp, Connects, AsksInfo, AsksHealth, AsksModel, SpinsUp, FirstStart, Checked,
      StartScript
<1>3. CASE StartStop \/ Services
  BY <1>1, <1>3
  DEF StartStop, Started, StartFailed, Stopped, Services, StopMotor, StartMotor, StartScript,
      StopScript
<1>4. CASE StandbyStarts \/ StandbyStops \/ Leaves \/ Deletes
  BY <1>1, <1>4
  DEF StandbyStarts, StandbyStops, Leaves, Deletes, StartScript, StopScript
<1>5. CASE Loops \/ GrabTimesOut \/ Spins \/ Interrupted \/ ListenersChange
  BY <1>5
  DEF Loops, GrabTimesOut, Spins, Interrupted, ListenersChange, linkVars, LinkRests, Free
<1>6. CASE GrabsFirst \/ Publishes
  BY <1>6 DEF GrabsFirst, Publishes, LinkRests, Free
<1> QED BY <1>2, <1>3, <1>4, <1>5, <1>6 DEF NodeSteps, WorkLoop

LEMMA DecNext == ASSUME Typed, DecInv, [LidarNext]_lidarVars PROVE DecInv'
<1>1. CASE LinkNext
  BY <1>1, DecThreads, DecCall DEF LinkNext, Typed
<1>2. CASE NodeSteps
  BY <1>2, NodeRests DEF LinkRests, DecInv, Writable
<1>3. CASE UNCHANGED lidarVars
  BY <1>3 DEF DecInv, Writable, lidarVars, linkVars
<1> QED BY <1>1, <1>2, <1>3 DEF LidarNext, Gone, NodeSteps

-----------------------------------------------------------------------------
\* No more answers are about than came late.

CountInv ==
  ~port.broken =>
    IF app.at = "wait"
    THEN /\ Answers(Pipe) + Event <= late + 1
         /\ Answers(Pipe) + Event = late + 1 /\ Event = 0 => Has(Pipe, Doing.what)
    ELSE Answers(Pipe) + Event <= late

LEMMA PipeStaysTyped ==
  ASSUME NodeTypes' PROVE Pipe' \in Seq(Frames) /\ Answers(Pipe') \in Nat
<1>1. Held' \in Seq(Frames)
  <2>1. Questions \subseteq Frames
    BY DEF Frames, Whats
  <2>2. dec'.frame \in Questions => <<dec'.frame>> \in Seq(Frames)
    BY <2>1
  <2> QED BY <2>2, EmptySeq DEF Held
<1>2. (Held' \o rxq') \o air' \in Seq(Frames)
  <2>1. Held' \o rxq' \in Seq(Frames)
    BY <1>1, ConcatProperties DEF NodeTypes
  <2> QED BY <2>1, ConcatProperties DEF NodeTypes
<1>3. Pipe' \in Seq(Frames)
  BY <1>2 DEF Pipe
<1> QED BY <1>3, AnswersAreNatural

LEMMA CountInit == LidarInit => CountInv
<1> SUFFICES ASSUME LidarInit PROVE CountInv
  OBVIOUS
<1>1. Pipe = (<< >> \o << >>) \o << >>
  BY DEF LidarInit, LinkInit, Pipe, Held, Idle, NoFrame, Questions
<1>2. << >> \o << >> = << >>
  BY EmptySeq, ConcatEmptySeq
<1>3. Answers(<< >>) = 0
  BY NoAnswers
<1>4. Answers(Pipe) = 0
  BY <1>1, <1>2, <1>3
<1>5. Event = 0 /\ late = 0 /\ app.at = "out"
  BY DEF LidarInit, LinkInit, Event
<1> QED BY <1>4, <1>5 DEF CountInv

LEMMA CountThreads ==
  ASSUME Typed, DecInv, CountInv, Rx \/ Dec \/ Wire, UNCHANGED nodeVars PROVE CountInv'
<1>0. NodeTypes
  BY DEF Typed
<1>1. app' = app /\ (~port'.broken => ~port.broken)
  BY <1>0, ThreadsEffect
<1>2. late' = late
  BY DEF Rx, RxTake, RxEnds, Dec, DecDecode, DecHandle, DecAnswer, DecEnds, Wire, DeviceSamples,
         FrameLost, Unplugged
<1>3. SUFFICES ASSUME ~port'.broken PROVE CountInv'
  BY DEF CountInv
<1>4. Kept \/ Dropped \/ Passed \/ Sampled
  BY <1>0, <1>3, PipeMoves DEF Cut
<1> DEFINE a == Answers(Pipe) + Event
           b == Answers(Pipe') + Event'
<1>5. b <= a /\ (b = a /\ Event' = 0 =>
                   Event = 0 /\ \A w \in Questions : Has(Pipe, w) => Has(Pipe', w))
  BY <1>0, <1>4, DebtShrinks
<1>6. a \in Nat /\ b \in Nat /\ late \in Nat
  <2>1. NodeTypes'
    BY <1>0, TypedThreads
  <2>2. Answers(Pipe) \in Nat /\ Answers(Pipe') \in Nat
    BY <1>0, <2>1, PipeTyped, PipeStaysTyped, AnswersAreNatural
  <2>3. Event \in Nat /\ Event' \in Nat
    BY DEF Event
  <2> QED BY <1>0, <2>2, <2>3 DEF NodeTypes
<1>7. /\ app.at = "wait" => a <= late + 1 /\ (a = late + 1 /\ Event = 0 => Has(Pipe, Doing.what))
      /\ app.at # "wait" => a <= late
  BY <1>1, <1>3 DEF CountInv
<1> HIDE DEF a, b
<1>8. app.at # "wait" => b <= late
  BY <1>5, <1>6, <1>7
<1>9. app.at = "wait" => b <= late + 1 /\ (b = late + 1 => a = b /\ a = late + 1)
  BY <1>5, <1>6, <1>7
<1>10. app.at = "wait" /\ Has(Pipe, Doing.what) /\ Event' = 0 /\ b = a =>
         Has(Pipe', Doing.what)
  <2>1. SUFFICES ASSUME app.at = "wait", Has(Pipe, Doing.what), Event' = 0, b = a
                 PROVE  Has(Pipe', Doing.what)
    OBVIOUS
  <2>2. Doing \in Asking
    BY <2>1, AskIsAsking DEF Typed, NodeTypes, ScriptInv
  <2>3. Doing.what \in Questions
    BY <2>2 DEF Asking
  <2> QED BY <1>5, <2>1, <2>3
<1>11. Event' = 0 /\ b = a => Event = 0
  BY <1>5
<1>12. app.at = "wait" => b <= late + 1 /\ (b = late + 1 /\ Event' = 0 => Has(Pipe', Doing.what))
  BY <1>7, <1>9, <1>10, <1>11
<1>13. Doing' = Doing
  BY <1>1 DEF Doing
<1> QED BY <1>1, <1>2, <1>8, <1>12, <1>13 DEF CountInv, b

\* What a step of a call does to the frames on their way: it leaves them, puts its own
\* behind them, or throws away what the decoder has, or all.
LEMMA CallPipes ==
  ASSUME Typed, DecInv, Call
  PROVE  \/ Pipe' = Pipe /\ dec' = dec
         \/ dec' = dec /\ \E f \in Frames : /\ Pipe' = Append(Pipe, f)
                            /\ \/ AskSend /\ f = Doing.what /\ app'.at = "wait"
                               \/ Tell /\ f = "descriptor" /\ Doing.what = "scan" /\ Writable
         \/ Connect /\ \E p \in 1 .. Len(Pipe) : Pipe' = Removed(Pipe, p)
         \/ Connect /\ Pipe' = Pipe
         \/ Join /\ Pipe' = << >>
<1>0. NodeTypes /\ app.todo # << >> /\ app.at # "out"
  BY CallMoves DEF Typed
<1>1. ASSUME NEW f \in Frames, dec' = dec, rxq' = rxq, air' = Append(air, f)
      PROVE  Pipe' = Append(Pipe, f)
  <2> DEFINE b == Held \o rxq
  <2>1. b \in Seq(Frames) /\ air \in Seq(Frames)
    BY <1>0, PipeTyped DEF NodeTypes
  <2>2. Pipe' = b \o Append(air, f)
    BY <1>1 DEF Pipe, Held
  <2>3. Pipe = b \o air
    BY DEF Pipe
  <2> HIDE DEF b
  <2>4. b \o Append(air, f) = Append(b \o air, f)
    BY <2>1, JoinsMove
  <2> QED BY <2>2, <2>3, <2>4
<1>2. ASSUME dec' = dec, rxq' = rxq, air' = air PROVE Pipe' = Pipe
  BY <1>2 DEF Pipe, Held
<1>3. CASE AskLock \/ AskTimesOut \/ AskTake \/ TellDTR \/ Enable \/ Unbind
  <2>1. dec' = dec /\ rxq' = rxq /\ air' = air
    BY <1>3 DEF AskLock, AskTimesOut, AskTake, TellDTR, Enable, Unbind
  <2> QED BY <1>2, <2>1
<1>4. CASE AskSend
  <2>1. Doing \in Asking
    BY <1>0, <1>4, AskIsAsking DEF AskSend, Typed, ScriptInv
  <2>2. Doing.what \in Frames
    BY <2>1 DEF Asking, Frames, Whats
  <2>3. dec' = dec /\ rxq' = rxq
    BY <1>4 DEF AskSend
  <2>4. CASE Writable /\ ~device.scanning
    <3>1. air' = Append(air, Doing.what)
      BY <1>4, <2>4 DEF AskSend
    <3>2. app'.at = "wait"
      BY <1>0, <1>4, <2>4 DEF AskSend, NodeTypes, Apps
    <3> QED BY <1>1, <1>4, <2>2, <2>3, <3>1, <3>2
  <2>5. CASE ~(Writable /\ ~device.scanning)
    <3>1. air' = air
      BY <1>4, <2>5 DEF AskSend
    <3> QED BY <1>2, <2>3, <3>1
  <2> QED BY <2>4, <2>5
<1>5. CASE Tell
  <2>1. dec' = dec /\ rxq' = rxq /\ "descriptor" \in Frames
    BY <1>5 DEF Tell, Frames
  <2>2. CASE Writable /\ Doing.what = "scan"
    <3>1. air' = Append(air, "descriptor")
      BY <1>5, <2>2 DEF Tell
    <3> QED BY <1>1, <1>5, <2>1, <2>2, <3>1
  <2>3. CASE ~(Writable /\ Doing.what = "scan")
    <3>1. air' = air
      BY <1>5, <2>3 DEF Tell
    <3> QED BY <1>2, <2>1, <3>1
  <2> QED BY <2>2, <2>3
<1>6. CASE Connect
  <2>1. rxq' = rxq /\ air' = air /\ dec' \in {dec, Idle}
    BY <1>6 DEF Connect
  <2>2. CASE dec' = dec
    BY <1>2, <2>1, <2>2
  <2>3. CASE dec' = Idle
    <3>1. dec'.frame \notin Questions
      BY <2>3 DEF Idle, NoFrame, Questions
    <3> QED BY <1>0, <1>6, <2>1, <3>1, PipeGives
  <2> QED BY <2>1, <2>2, <2>3
<1>7. CASE Join
  <2>1. rxq' = << >> /\ air' = << >> /\ dec' = dec /\ dec.at = "none"
    BY <1>7 DEF Join
  <2>2. Held' = << >>
    BY <2>1 DEF Held, DecInv, NoFrame, Questions
  <2>3. Pipe' = (<< >> \o << >>) \o << >>
    BY <2>1, <2>2 DEF Pipe
  <2>4. << >> \o << >> = << >>
    BY EmptySeq, ConcatEmptySeq
  <2> QED BY <1>7, <2>3, <2>4
<1> QED BY <1>3, <1>4, <1>5, <1>6, <1>7 DEF Call

\* Whether an answer is waiting to be taken.
LEMMA CallEvents ==
  ASSUME Typed, Call
  PROVE  /\ Event' <= Event /\ Event \in {0, 1} /\ Event' \in {0, 1}
         /\ AskSend \/ AskTake \/ Tell => Event' = 0
         /\ AskTake => Event = 1
         /\ AskTimesOut => Event = 0 /\ Event' = 0
<1>0. NodeTypes
  BY DEF Typed
<1>1. AskSend \/ AskTake \/ Tell => ~driver'.event
  BY <1>0 DEF AskSend, AskTake, Tell, NodeTypes, Drivers
<1>2. /\ AskTake => driver.event
      /\ AskTimesOut => ~driver.event /\ driver' = driver
      /\ AskLock => driver' = driver
  BY DEF AskTake, AskTimesOut, AskLock
<1>3. TellDTR \/ Enable \/ Connect \/ Unbind \/ Join => driver'.event = driver.event
  BY <1>0 DEF TellDTR, Enable, Connect, Unbind, Join, NodeTypes, Drivers
<1>4. driver'.event => driver.event
  BY <1>1, <1>2, <1>3 DEF Call
<1> QED BY <1>1, <1>2, <1>4 DEF Event

LEMMA CountCall ==
  ASSUME Typed, DecInv, CountInv, Call, UNCHANGED nodeVars PROVE CountInv'
<1>0. NodeTypes /\ app.todo # << >> /\ app.at # "out"
  BY CallMoves DEF Typed
<1> DEFINE a == Answers(Pipe)
           b == Answers(Pipe')
           e == Event
           d == Event'
<1>1. a \in Nat /\ b \in Nat /\ late \in Nat /\ Pipe \in Seq(Frames)
  <2>1. NodeTypes'
    BY TypedCall
  <2> QED BY <1>0, <2>1, PipeTyped, PipeStaysTyped, AnswersAreNatural DEF NodeTypes
<1>2. /\ d <= e /\ e \in {0, 1} /\ d \in {0, 1}
      /\ AskSend \/ AskTake \/ Tell => d = 0
      /\ AskTake => e = 1
      /\ AskTimesOut => e = 0 /\ d = 0
  BY CallEvents
<1>3. port'.broken = port.broken
  BY <1>0 DEF Call, AskLock, AskSend, AskTimesOut, AskTake, Tell, TellDTR, Enable, Connect, Unbind,
              Join, NodeTypes, Ports
<1>4. SUFFICES ASSUME ~port.broken PROVE CountInv'
  BY <1>3 DEF CountInv
<1>5. ASSUME NEW ok \in BOOLEAN, Done(ok) PROVE app'.at = "step"
  BY <1>0, <1>5, DoneLeaves
<1>6. CASE AskTimesOut
  <2>1. app.at = "wait" /\ app'.at = "step" /\ Pipe' = Pipe
    BY <1>5, <1>6 DEF AskTimesOut, Pipe, Held
  <2>2. a <= late + 1 /\ (a = late + 1 => Has(Pipe, Doing.what))
    BY <1>1, <1>2, <1>4, <1>6, <2>1 DEF CountInv
  <2>3. Has(Pipe, Doing.what) => UnderWay
    <3>1. port.working /\ Writable /\ rx = "run"
      BY <1>4, <2>1 DEF DecInv, Writable
    <3>2. Doing \in Asking
      BY <1>0, <2>1, AskIsAsking DEF Typed, ScriptInv
    <3>3. Doing.what \in Questions
      BY <3>2 DEF Asking
    <3>4. SUFFICES ASSUME Has(Pipe, Doing.what)
                   PROVE  \/ \E i \in DOMAIN air : air[i] = Doing.what
                          \/ \E i \in DOMAIN rxq : rxq[i] = Doing.what
                          \/ dec.frame = Doing.what
      BY <3>1 DEF UnderWay
    <3> DEFINE w == Doing.what
    <3>5. /\ Held \in Seq(Frames) /\ rxq \in Seq(Frames) /\ air \in Seq(Frames)
          /\ Held \o rxq \in Seq(Frames)
      BY <1>0, PipeTyped DEF NodeTypes
    <3>6. Has(Pipe, w)
      BY <3>4
    <3> HIDE DEF w
    <3>7. Has(Held \o rxq, w) \/ Has(air, w)
      BY <3>5, <3>6, HasEither DEF Pipe
    <3>8. Has(Held, w) \/ Has(rxq, w) \/ Has(air, w)
      BY <3>5, <3>7, HasEither
    <3>9. Has(Held, w) => dec.frame = w
      <4>1. CASE dec.frame \in Questions
        <5>1. Held = <<dec.frame>> /\ Len(Held) = 1 /\ Held[1] = dec.frame
          BY <4>1 DEF Held
        <5> QED BY <5>1 DEF Has
      <4>2. CASE dec.frame \notin Questions
        <5>1. Held = << >> /\ Len(Held) = 0
          BY <4>2, EmptySeq DEF Held
        <5> QED BY <5>1 DEF Has
      <4> QED BY <4>1, <4>2
    <3>10. /\ Has(rxq, w) => \E i \in DOMAIN rxq : rxq[i] = w
           /\ Has(air, w) => \E i \in DOMAIN air : air[i] = w
      BY <3>5, LenProperties DEF Has
    <3> QED BY <3>8, <3>9, <3>10 DEF w
  <2>4. a <= late'
    <3>1. late' = IF UnderWay THEN late + 1 ELSE late
      BY <1>6 DEF AskTimesOut
    <3> QED BY <1>1, <2>2, <2>3, <3>1
  <2> QED BY <1>1, <1>2, <1>6, <2>1, <2>4 DEF CountInv
<1>7. ~AskTimesOut => late' = late
  BY DEF Call, AskLock, AskSend, AskTimesOut, AskTake, Tell, TellDTR, Enable, Connect, Unbind, Join
<1>8. CASE AskTake
  <2>1. app.at = "wait" /\ app'.at = "step" /\ Pipe' = Pipe
    BY <1>5, <1>8 DEF AskTake, Pipe, Held
  <2>2. a + e <= late + 1
    BY <1>4, <2>1 DEF CountInv
  <2>3. late' = late
    BY <1>8 DEF AskTake
  <2>4. a + d <= late'
    BY <1>1, <1>2, <1>8, <2>2, <2>3
  <2> QED BY <2>1, <2>4 DEF CountInv
<1>9. CASE ~AskTimesOut /\ ~AskTake
  <2>1. app.at # "wait"
    BY <1>9 DEF Call, AskLock, AskSend, Tell, TellDTR, Enable, Connect, Unbind, Join, InStep
  <2>2. a + e <= late
    BY <1>4, <2>1 DEF CountInv
  <2>3. late' = late
    BY <1>7, <1>9
  <2>4. CASE AskSend /\ Pipe' = Append(Pipe, Doing.what) /\ Doing.what \in Frames
    <3>1. b <= a + 1 /\ Has(Pipe', Doing.what) /\ d = 0
      BY <1>1, <1>2, <2>4, AppendedClear
    <3>2. app'.at = "step" \/ app'.todo = app.todo
      BY <1>5, CallMoves
    <3>3. app'.todo = app.todo => Doing' = Doing
      BY DEF Doing
    <3>4. b + d <= late' + 1
      BY <1>1, <1>2, <2>2, <2>3, <3>1
    <3>5. app'.at = "wait"
      <4>1. CASE ~Writable
        <5>1. air' = air /\ rxq' = rxq /\ dec' = dec
          BY <2>4, <4>1 DEF AskSend
        <5>2. Pipe' = Pipe
          BY <5>1 DEF Pipe, Held
        <5>3. Len(Append(Pipe, Doing.what)) = Len(Pipe) + 1 /\ Len(Pipe) \in Nat
          BY <1>1, <2>4, AppendProperties, LenProperties
        <5> QED BY <2>4, <5>2, <5>3
      <4>2. CASE Writable
        BY <1>0, <2>4, <4>2 DEF AskSend, NodeTypes, Apps
      <4> QED BY <4>1, <4>2
    <3> QED BY <3>1, <3>2, <3>3, <3>4, <3>5 DEF CountInv
  <2>5. CASE b <= a
    <3>1. b + d <= late'
      BY <1>1, <1>2, <2>2, <2>3, <2>5
    <3>2. b + d = late' + 1 => FALSE
      BY <1>1, <1>2, <2>3, <3>1
    <3>3. late' \in Nat /\ b + d <= late' + 1
      BY <1>1, <1>2, <2>3, <3>1
    <3> QED BY <3>1, <3>2, <3>3 DEF CountInv
  <2>6. (AskSend /\ Pipe' = Append(Pipe, Doing.what) /\ Doing.what \in Frames) \/ b <= a
    <3>1. CASE Pipe' = Pipe
      BY <1>1, <3>1
    <3>2. CASE \E f \in Frames : /\ Pipe' = Append(Pipe, f)
                                 /\ \/ AskSend /\ f = Doing.what /\ app'.at = "wait"
                                    \/ Tell /\ f = "descriptor" /\ Doing.what = "scan" /\ Writable
      <4>1. "descriptor" \in Frames /\ "descriptor" \notin Questions
        BY DEF Frames, Questions
      <4>2. Pipe' = Append(Pipe, "descriptor") => b = a
        BY <1>1, <4>1, AppendedClear
      <4> QED BY <1>1, <3>2, <4>2
    <3>3. CASE \E p \in 1 .. Len(Pipe) : Pipe' = Removed(Pipe, p)
      <4>1. PICK p \in 1 .. Len(Pipe) : Pipe' = Removed(Pipe, p)
        BY <3>3
      <4> DEFINE s == Pipe
                 r == Pipe'
      <4>2. b = Answers(r) /\ a = Answers(s)
        OBVIOUS
      <4> HIDE DEF s, r
      <4>3. Answers(r) + (IF s[p] \in Questions THEN 1 ELSE 0) <= Answers(s)
        BY <1>1, <4>1, RemovedAnswers DEF s, r
      <4> HIDE DEF a, b
      <4> QED BY <1>1, <4>2, <4>3
    <3>4. CASE Pipe' = << >>
      <4>1. Answers(<< >>) = 0
        BY NoAnswers
      <4> QED BY <1>1, <3>4, <4>1
    <3> QED BY <3>1, <3>2, <3>3, <3>4, CallPipes
  <2> QED BY <2>4, <2>5, <2>6
<1> QED BY <1>6, <1>8, <1>9

LEMMA CountNext == ASSUME Typed, DecInv, CountInv, [LidarNext]_lidarVars PROVE CountInv'
<1>1. CASE LinkNext /\ UNCHANGED nodeVars
  BY <1>1, CountThreads, CountCall DEF LinkNext
<1>2. CASE NodeSteps
  <2>1. LinkRests
    BY <1>2, NodeRests
  <2>2. Pipe' = Pipe /\ Event' = Event
    BY <2>1 DEF LinkRests, Pipe, Held, Event
  <2> QED BY <2>1, <2>2 DEF LinkRests, CountInv
<1>3. CASE UNCHANGED lidarVars
  BY <1>3 DEF CountInv, Pipe, Held, Event, Doing, lidarVars, linkVars
<1> QED BY <1>1, <1>2, <1>3 DEF LidarNext, Gone, NodeSteps

-----------------------------------------------------------------------------
\* Of an old scan nothing is left when a start arms the holder: it asks more questions it
\* cannot do without than there can be old answers, so the last of them is answered
\* after all that came before.

Needed   == Count(app.todo, Crucial)
Hopeless == ~Writable /\ Needed > 0 /\ ~(app.at = "wait" /\ Doing.fatal)
ClearInv ==
  node.at = "starting" /\ app.todo # << >> => Hopeless \/ Quiet \/ Clear(Pipe, Event, Needed)

LEMMA NeededIsNatural == ASSUME NodeTypes PROVE Needed \in Nat
  BY CountIsNatural DEF NodeTypes, Apps, Needed

LEMMA ClearThreads ==
  ASSUME NodeTypes, DecInv, ClearInv, Rx \/ Dec \/ Wire, UNCHANGED nodeVars PROVE ClearInv'
<1>1. app' = app /\ (Writable' => Writable)
  BY ThreadsEffect DEF Writable
<1>2. node' = node
  BY DEF nodeVars
<1>3. Needed' = Needed /\ Doing' = Doing
  BY <1>1 DEF Needed, Doing
<1>4. PICK n \in Nat : n = Needed
  BY NeededIsNatural
<1>5. Kept \/ Dropped \/ Passed \/ Sampled \/ Cut
  BY PipeMoves
<1>6. ModeMoves
  BY PipeMoves DEF ModeMoves
<1>7. Quiet \/ Clear(Pipe, Event, n) => Quiet' \/ Clear(Pipe', Event', n)
  BY <1>5, <1>6, ClearStays
<1>8. Hopeless => Hopeless'
  BY <1>1, <1>3 DEF Hopeless
<1>9. Clear(Pipe, Event, Needed)' <=> Clear(Pipe', Event', n)
  BY <1>3, <1>4
<1> QED BY <1>1, <1>2, <1>4, <1>7, <1>8, <1>9 DEF ClearInv

\* A step that asks nothing, or is not answered, leaves as many questions to be asked.
LEMMA NeededLasts ==
  ASSUME Typed, Call, node.at = "starting", app'.todo # << >>
  PROVE  /\ Needed \in Nat /\ Needed' \in Nat /\ Needed <= Needed' + 1
         /\ Needed' < Needed => AskTake /\ Doing \in Crucial
<1>0. NodeTypes /\ app.todo # << >> /\ app.at # "out" /\ StartRest(app.todo) /\ app.ok
  BY CallMoves DEF Typed, ScriptInv
<1>1. Needed \in Nat
  BY <1>0, NeededIsNatural
<1>2. Needed' \in Nat
  <2>1. app'.todo \in Seq(Steps)
    <3>1. CASE \E ok \in BOOLEAN : Done(ok)
      <4>1. PICK ok \in BOOLEAN : Done(ok)
        BY <3>1
      <4>2. app' \in [at : {"step"}, todo : Seq(Steps), ok : BOOLEAN]
        BY <1>0, <4>1, DoneLeaves
      <4> QED BY <4>2
    <3>2. CASE app'.todo = app.todo
      BY <1>0, <3>2 DEF NodeTypes, Apps
    <3> QED BY <3>1, <3>2, CallMoves
  <2> QED BY <2>1, CountIsNatural DEF Needed
<1> DEFINE n == Needed
           m == Needed'
<1>3. n \in Nat /\ m \in Nat
  BY <1>1, <1>2
<1>4. Doing \in Crucial => Doing.do = "ask" /\ Doing.fatal
  BY DEF Crucial, Asking
<1>5. ASSUME NEW ok \in BOOLEAN, Done(ok)
      PROVE  /\ n <= m + 1 /\ (Doing \notin Crucial => n <= m)
             /\ ok \/ ~Doing.fatal
  <2>1. /\ n <= m + (IF Doing \in Crucial THEN 1 ELSE 0)
        /\ ok \/ ~Doing.fatal
    BY <1>0, <1>5, StartProceeds DEF Needed
  <2> HIDE DEF n, m
  <2>2. CASE Doing \in Crucial
    <3>1. n <= m + 1
      BY <2>1, <2>2
    <3> QED BY <2>1, <2>2, <3>1
  <2>3. CASE Doing \notin Crucial
    <3>1. n <= m + 0
      BY <2>1, <2>3
    <3>2. n <= m /\ n <= m + 1
      BY <1>3, <3>1
    <3> QED BY <2>1, <3>2
  <2> QED BY <2>2, <2>3
<1>6. app'.todo = app.todo => n <= m
  BY <1>3 DEF Needed
<1> HIDE DEF n, m
<1>7. Done(FALSE) => n <= m
  <2>1. Done(FALSE) => ~Doing.fatal /\ (Doing \notin Crucial => n <= m)
    BY <1>5
  <2> QED BY <1>4, <2>1
<1>8. Doing.do # "ask" => n <= m
  <2>1. (\E ok \in BOOLEAN : Done(ok)) /\ Doing \notin Crucial => n <= m
    BY <1>5
  <2> QED BY <1>4, <1>6, <2>1, CallMoves
<1>9. AskSend \/ AskTimesOut \/ AskLock => n <= m
  <2>1. AskSend \/ AskTimesOut \/ AskLock => Done(FALSE) \/ app'.todo = app.todo
    BY <1>0 DEF AskSend, AskTimesOut, AskLock, NodeTypes, Apps
  <2> QED BY <1>6, <1>7, <2>1
<1>10. AskTake => n <= m + 1 /\ (Doing \notin Crucial => n <= m)
  <2>1. AskTake => Done(TRUE)
    BY DEF AskTake
  <2> QED BY <1>5, <2>1
<1>11. n <= m \/ (AskTake /\ n <= m + 1 /\ Doing \in Crucial)
  BY <1>8, <1>9, <1>10, StepHasAction
<1>12. n <= m + 1 /\ (m < n => AskTake /\ Doing \in Crucial)
  <2>1. CASE n <= m
    BY <1>3, <2>1
  <2>2. CASE AskTake /\ n <= m + 1 /\ Doing \in Crucial
    BY <2>2
  <2> QED BY <1>11, <2>1, <2>2
<1> QED BY <1>3, <1>12 DEF n, m

\* Only the scan command brings a descriptor.
LEMMA QuietCall ==
  ASSUME Typed, DecInv, Call, Quiet, ~(Tell /\ Doing.what = "scan" /\ Writable) PROVE Quiet'
<1>0. NodeTypes /\ app.todo # << >> /\ app.at # "out"
  BY CallMoves DEF Typed
<1>1. codecMode' = "plain"
  BY DEF Call, AskLock, AskSend, AskTimesOut, AskTake, Tell, TellDTR, Enable, Connect, Unbind,
         Join, Quiet
<1>2. dec' \in {dec, Idle}
  BY DEF Call, AskLock, AskSend, AskTimesOut, AskTake, Tell, TellDTR, Enable, Connect, Unbind,
         Join
<1>3. dec'.frame # "sample"
  BY <1>2 DEF Quiet, Idle, NoFrame
<1>4. Pipe \in Seq(Frames)
  BY <1>0, PipeTyped
<1>5. ~Has(Pipe', "descriptor")
  <2>1. CASE Pipe' = Pipe
    BY <2>1 DEF Quiet
  <2>2. CASE AskSend /\ \E f \in Frames : Pipe' = Append(Pipe, f) /\ f = Doing.what
    <3>1. Doing \in Asking
      BY <1>0, <2>2, AskIsAsking DEF AskSend, Typed, ScriptInv
    <3>2. Doing.what # "descriptor"
      BY <3>1 DEF Asking, Questions
    <3>3. PICK f \in Frames : Pipe' = Append(Pipe, f) /\ f = Doing.what
      BY <2>2
    <3>4. Has(Append(Pipe, f), "descriptor") => "descriptor" = f \/ Has(Pipe, "descriptor")
      BY <1>4, AppendedClear
    <3> QED BY <3>2, <3>3, <3>4 DEF Quiet
  <2>3. CASE \E p \in 1 .. Len(Pipe) : Pipe' = Removed(Pipe, p)
    <3>1. PICK p \in 1 .. Len(Pipe) : Pipe' = Removed(Pipe, p)
      BY <2>3
    <3>2. Has(Removed(Pipe, p), "descriptor") => Has(Pipe, "descriptor")
      BY <1>4, RemovedHas
    <3> QED BY <3>1, <3>2 DEF Quiet
  <2>4. CASE Pipe' = << >>
    <3>1. Len(<< >>) = 0
      BY EmptySeq
    <3> QED BY <2>4, <3>1 DEF Has
  <2> QED BY <2>1, <2>2, <2>3, <2>4, CallPipes
<1> QED BY <1>1, <1>3, <1>5 DEF Quiet

\* The scan command is the last step of a start.
LEMMA ScanIsLast ==
  ASSUME Typed, Call, Tell, Doing.what = "scan"
  PROVE  /\ node.at = "starting" /\ Len(app.todo) = 1 /\ app'.todo = << >>
         /\ Writable => app'.ok
<1>0. NodeTypes /\ ScriptInv /\ app.todo # << >> /\ app.at # "out"
  BY CallMoves DEF Typed
<1>1. Doing.do = "tell"
  BY DEF Tell, InStep
<1>2. ~(Doing \in Mundane \cup Connecting) /\ ~(Doing \in Mundane)
  BY <1>1 DEF Mundane, Asking, Driving, Halting, Connecting, Speeds
<1>3. ~(Doing \in Gentle) /\ ~(Doing \in Parting)
  BY <1>1 DEF Gentle, Driving, Parting, Speeds
<1>4. node.at = "starting"
  <2>1. ~(app.todo \in Seq(Mundane \cup Connecting)) /\ ~(app.todo \in Seq(Mundane))
    BY <1>0, <1>2, FirstIsOne
  <2>2. ~(app.todo \in Seq(Gentle)) /\ ~(app.todo \in Seq(Parting))
    BY <1>0, <1>3, FirstIsOne
  <2> QED BY <1>0, <2>1, <2>2 DEF ScriptInv, Opening
<1>5. StartRest(app.todo) /\ app.ok
  BY <1>0, <1>4 DEF ScriptInv
<1>6. Len(app.todo) = 1
  <2>1. Len(app.todo) = 2 => Doing.what # "scan"
    BY <1>0, <1>5, StartSteps DEF EnableStep, Take
  <2>2. Len(app.todo) = 3 => Doing.what # "scan"
    BY <1>0, <1>5, StartSteps DEF StartMotors
  <2>3. Len(app.todo) \notin {1, 2, 3} => FALSE
    BY <1>0, <1>2, <1>5, StartSteps
  <2> QED BY <2>1, <2>2, <2>3
<1>7. Done(Writable) /\ Writable \in BOOLEAN
  BY DEF Tell, Writable
<1>8. CASE Writable
  <2>1. app' = [app EXCEPT !.at = "step", !.todo = Tail(@)]
    BY <1>7, <1>8 DEF Done
  <2>2. app'.todo = Tail(app.todo) /\ app'.ok
    BY <1>0, <1>5, <2>1 DEF NodeTypes, Apps
  <2>3. Tail(app.todo) = << >>
    <3> DEFINE t == Tail(app.todo)
    <3>1. t \in Seq(Steps) /\ Len(t) = Len(app.todo) - 1
      BY <1>0, HeadTailProperties DEF NodeTypes, Apps
    <3>2. Len(app.todo) - 1 = 0
      BY <1>6
    <3> HIDE DEF t
    <3>3. t = << >>
      BY <3>1, <3>2, EmptySeq
    <3> QED BY <3>3 DEF t
  <2> QED BY <1>4, <1>6, <2>2, <2>3
<1>9. CASE ~Writable
  <2>1. \E ok \in BOOLEAN : ~ok /\ Done(ok)
    BY <1>7, <1>9
  <2>2. Doing.fatal
    BY <1>0, <1>5, <1>6, StartSteps DEF ScanStep, Order, Take
  <2>3. app'.todo = << >>
    BY <1>0, <1>5, <2>1, <2>2, StartProceeds
  <2> QED BY <1>4, <1>6, <1>9, <2>3
<1> QED BY <1>8, <1>9

LEMMA ClearCall ==
  ASSUME Typed, DecInv, ClearInv, Call, UNCHANGED nodeVars PROVE ClearInv'
<1>1. node' = node
  BY DEF nodeVars
<1>2. SUFFICES ASSUME node.at = "starting", app'.todo # << >>
               PROVE  Hopeless' \/ Quiet' \/ Clear(Pipe', Event', Needed')
  BY <1>1 DEF ClearInv
<1>0. /\ NodeTypes /\ app.todo # << >> /\ app.at # "out" /\ StartRest(app.todo) /\ app.ok
      /\ Doing.do \notin {"connect", "disconnect"}
  BY <1>2, CallMoves, StartSteps DEF Typed, ScriptInv
<1>3. Hopeless \/ Quiet \/ Clear(Pipe, Event, Needed)
  BY <1>0, <1>2 DEF ClearInv
<1>4. /\ Needed \in Nat /\ Needed' \in Nat /\ Needed <= Needed' + 1
      /\ Needed' < Needed => AskTake /\ Doing \in Crucial
  BY <1>2, NeededLasts
<1>5. /\ Event' <= Event /\ Event \in {0, 1} /\ Event' \in {0, 1}
      /\ AskTake => Event = 1 /\ Event' = 0
  BY CallEvents
<1>6. ~(Tell /\ Doing.what = "scan")
  BY <1>2, ScanIsLast
<1>7. port' = port /\ ~Connect /\ ~Join
  <2>1. ~Connect /\ ~Unbind /\ ~Join
    BY <1>0 DEF Connect, Unbind, Join, InStep, Typed, ScriptInv
  <2> QED BY <2>1 DEF Call, AskLock, AskSend, AskTimesOut, AskTake, Tell, TellDTR, Enable
<1>8. CASE Quiet
  BY <1>6, <1>8, QuietCall
<1>9. CASE Hopeless
  <2>1. ~Writable /\ ~Writable' /\ Needed > 0 /\ ~(app.at = "wait" /\ Doing.fatal)
    BY <1>7, <1>9 DEF Hopeless, Writable
  <2>2. app'.at # "wait"
    <3>1. CASE \E ok \in BOOLEAN : Done(ok)
      <4>1. app'.at = "step"
        BY <1>0, <3>1, DoneLeaves
      <4> QED BY <4>1
    <3>2. CASE AskLock
      BY <1>0, <3>2 DEF AskLock, NodeTypes, Apps
    <3>3. CASE AskSend
      <4>1. Done(FALSE)
        BY <2>1, <3>3 DEF AskSend
      <4> QED BY <3>1, <4>1
    <3>4. \/ AskLock \/ AskSend
          \/ \E ok \in BOOLEAN : Done(ok)
      <4>1. AskTimesOut \/ AskTake \/ TellDTR \/ Enable => Done(FALSE) \/ Done(TRUE)
        BY DEF AskTimesOut, AskTake, TellDTR, Enable
      <4>2. Tell => Done(Writable) /\ Writable \in BOOLEAN
        BY DEF Tell, Writable
      <4> QED BY <1>0, <4>1, <4>2, StepHasAction
    <3> QED BY <3>1, <3>2, <3>3, <3>4
  <2>3. ~(Needed' < Needed)
    <3>1. SUFFICES ASSUME AskTake, Doing \in Crucial PROVE FALSE
      BY <1>4
    <3>2. app.at = "wait" /\ Doing.fatal
      BY <3>1 DEF AskTake, Crucial
    <3> QED BY <2>1, <3>2
  <2>4. Needed' > 0
    BY <1>4, <2>1, <2>3
  <2> QED BY <2>1, <2>2, <2>4 DEF Hopeless
<1>10. CASE Clear(Pipe, Event, Needed)
  <2> DEFINE s == Pipe
             r == Pipe'
             e == Event
             d == Event'
             n == Needed
             m == Needed'
  <2>1. d + n <= e + m
    <3>1. /\ n \in Nat /\ m \in Nat /\ e \in {0, 1} /\ d \in {0, 1} /\ n <= m + 1 /\ d <= e
          /\ m < n => e = 1 /\ d = 0
      BY <1>4, <1>5
    <3> HIDE DEF e, d, n, m
    <3>2. m < n => d + n <= e + m
      BY <3>1
    <3>3. n <= m => d + n <= e + m
      BY <3>1
    <3> QED BY <3>1, <3>2, <3>3
  <2>2. s \in Seq(Frames) /\ Len(s) \in Nat
    BY <1>0, PipeTyped
  <2>3. Clear(s, d, m)
    <3>1. Clear(s, e, n) /\ e \in {0, 1} /\ d \in {0, 1} /\ n \in Nat /\ m \in Nat
      BY <1>4, <1>5, <1>10
    <3> HIDE DEF s, e, d, n, m
    <3> QED BY <2>1, <2>2, <3>1, ClearMoves
  <2>4. r = s \/ \E f \in Frames : r = Append(s, f) /\ f # "descriptor"
    <3>1. CASE AskSend /\ \E f \in Frames : r = Append(s, f) /\ f = Doing.what
      <4>1. Doing \in Asking
        BY <1>0, <3>1, AskIsAsking DEF AskSend, Typed, ScriptInv
      <4>2. Doing.what # "descriptor"
        BY <4>1 DEF Asking, Questions
      <4> QED BY <3>1, <4>2
    <3> QED BY <1>6, <1>7, <3>1, CallPipes
  <2>5. Clear(r, d, m)
    <3> HIDE DEF s, r, d, m
    <3>1. CASE r = s
      BY <2>3, <3>1
    <3>2. CASE \E f \in Frames : r = Append(s, f) /\ f # "descriptor"
      BY <2>2, <2>3, <3>2, AppendedClear
    <3> QED BY <2>4, <3>1, <3>2
  <2> QED BY <2>5
<1> QED BY <1>3, <1>8, <1>9, <1>10

\* Fewer answers came late than a start asks questions it cannot do without.
FewAreLate == late <= 3

\* A start begins, or none does.
Begins == FirstStart \/ StandbyStarts \/ StartMotor

LEMMA OthersStart == ASSUME Typed, NodeSteps, ~Begins PROVE node'.at # "starting"
<1>0. node \in NodeStates /\ ScriptInv
  BY DEF Typed, NodeTypes
<1>1. CASE Connects \/ AsksInfo \/ AsksHealth \/ AsksModel \/ SpinsUp
  BY <1>0, <1>1 DEF Connects, AsksInfo, AsksHealth, AsksModel, SpinsUp, Goes, NodeStates
<1>2. CASE Checked
  <2>1. node'.at \in {node.next, "delete"} /\ node.next \in Opening \cup {"loop", "delete", "gone"}
    BY <1>0, <1>2 DEF Checked, NodeStates, ScriptInv
  <2> QED BY <2>1 DEF Opening
<1>3. CASE Started \/ Stopped
  <2>1. node'.at = node.next /\ node.next \in {"loop", "grab", "spin", "delete"}
    BY <1>0, <1>3 DEF Started, Stopped, NodeStates, ScriptInv
  <2> QED BY <2>1
<1>4. CASE StartFailed \/ StandbyStops \/ StopMotor \/ Leaves \/ Deletes
  <2>1. \E a \in {"stopping", "called"},
           n \in {"loop", "delete", node.next, "grab", "spin", "gone"} : Goes(a, n)
    BY <1>4 DEF StartFailed, StandbyStops, StopMotor, Leaves, Deletes
  <2> QED BY <1>0, <2>1 DEF Goes, NodeStates
<1>5. CASE Loops \/ GrabsFirst \/ Publishes \/ GrabTimesOut \/ Spins \/ Interrupted
             \/ ListenersChange
  BY <1>0, <1>5
  DEF Loops, GrabsFirst, Publishes, GrabTimesOut, Spins, Interrupted, ListenersChange, NodeStates
<1> QED BY <1>1, <1>2, <1>3, <1>4, <1>5
        DEF NodeSteps, StartUp, StartStop, WorkLoop, Services, Begins

LEMMA StartBegins ==
  ASSUME Typed, Begins
  PROVE  \E s \in Seq(Steps) : /\ app'.todo = s /\ Starting(s, 4) /\ app.at = "out"
                               /\ app'.at = "step" /\ node.at # "starting"
                               /\ UNCHANGED <<scanReady, starts, seen, stale>>
                               /\ node'.at = "starting" /\ node'.scanning = node.scanning
<1>0. NodeTypes /\ node \in NodeStates
  BY DEF Typed, NodeTypes
<1>1. StartScript /\ Free /\ UNCHANGED <<seen, stale>> /\ node.at # "starting"
  BY DEF Begins, FirstStart, StandbyStarts, StartMotor, Same
<1>2. PICK s \in Seq(Steps) : Calls(s) /\ Starting(s, 4)
  BY <1>0, <1>1, StartScripted
<1>3. app'.todo = s /\ app'.at = "step" /\ UNCHANGED <<scanReady, starts>>
  BY <1>2 DEF Calls
<1>4. node'.at = "starting" /\ node'.scanning = node.scanning
  BY <1>0 DEF Begins, FirstStart, StandbyStarts, StartMotor, Goes, NodeStates
<1> QED BY <1>1, <1>2, <1>3, <1>4 DEF Free

LEMMA ClearBegins ==
  ASSUME FewAreLate, Typed, CountInv, Begins PROVE ClearInv'
<1>0. NodeTypes
  BY DEF Typed
<1>1. PICK s \in Seq(Steps) : app'.todo = s /\ Starting(s, 4) /\ app.at = "out" /\ app'.at = "step"
  BY StartBegins
<1>2. LinkRests
  BY NodeRests DEF NodeSteps, Begins, StartUp, WorkLoop, Services
<1>3. Pipe' = Pipe /\ Event' = Event /\ Writable' = Writable
  BY <1>2 DEF LinkRests, Pipe, Held, Event, Writable
<1> DEFINE n == Count(s, Crucial)
<1>4. Needed' = n /\ n \in Nat /\ n >= 4
  <2>1. n \in Nat
    BY CountIsNatural
  <2> QED BY <1>1, <2>1 DEF Needed, Starting
<1> HIDE DEF n
<1>5. CASE ~Writable
  BY <1>1, <1>3, <1>4, <1>5 DEF ClearInv, Hopeless
<1>6. CASE Writable
  <2>1. Answers(Pipe) + Event <= late
    BY <1>1, <1>6 DEF CountInv, Writable
  <2>2. Pipe \in Seq(Frames) /\ Len(Pipe) \in Nat /\ Answers(Pipe) \in Nat /\ Event \in {0, 1}
        /\ late \in Nat
    BY <1>0, PipeTyped, AnswersAreNatural DEF Event, NodeTypes
  <2>3. Answers(Pipe) + Event <= 3
    BY <2>1, <2>2 DEF FewAreLate
  <2>4. Event < n
    BY <1>4, <2>2
  <2>5. ASSUME NEW j \in 1 .. Len(Pipe) PROVE Upto(Pipe, j) + Event < n
    <3>1. j \in Nat /\ j <= Len(Pipe)
      BY <2>2
    <3>2. Upto(Pipe, j) <= Answers(Pipe)
      BY <2>2, <3>1, UptoGrows DEF Answers
    <3>3. Upto(Pipe, j) \in Nat
      BY <3>1, UptoIsNatural
    <3> QED BY <1>4, <2>2, <2>3, <3>2, <3>3
  <2>6. Clear(Pipe, Event, n)
    BY <2>4, <2>5 DEF Clear
  <2>7. Clear(Pipe, Event, Needed)'
    BY <1>3, <1>4, <2>6
  <2> QED BY <2>7 DEF ClearInv
<1> QED BY <1>5, <1>6

LEMMA ClearNext ==
  ASSUME FewAreLate, Typed, DecInv, CountInv, ClearInv, [LidarNext]_lidarVars PROVE ClearInv'
<1>1. CASE LinkNext /\ UNCHANGED nodeVars
  BY <1>1, ClearThreads, ClearCall DEF LinkNext, Typed
<1>2. CASE NodeSteps
  <2>1. CASE Begins
    BY <2>1, ClearBegins
  <2>2. CASE ~Begins
    BY <1>2, <2>2, OthersStart DEF ClearInv
  <2> QED BY <2>1, <2>2
<1>3. CASE UNCHANGED lidarVars
  BY <1>3
  DEF ClearInv, Hopeless, Quiet, Needed, Writable, Pipe, Held, Event, Doing, lidarVars, linkVars,
      nodeVars
<1> QED BY <1>1, <1>2, <1>3 DEF LidarNext, Gone, NodeSteps

-----------------------------------------------------------------------------
\* What is in the holder is of the last scan command, and what was left in it when the
\* lidar was told to stop is the last of that scan.

AtLast == node.at = "starting" /\ Len(app.todo) = 1
Armed  == node.at = "starting" /\ app.todo = << >> /\ app.ok

HolderInv ==
  /\ scanReady \in {0, starts + 1} /\ seen = TRUE
  /\ AtLast => scanReady = 0
  /\ stale \in {0, 1} /\ (node.scanning => stale = 0)
  /\ stale = 1 /\ ~Armed => scanReady = 0 /\ (driver.enabled => Quiet)

\* The last three steps of a start ask nothing.
LEMMA EndAsksNothing ==
  ASSUME StartRest(app.todo), Len(app.todo) \in {1, 2} PROVE Needed = 0
<1> DEFINE s == app.todo
           n == Len(s)
           A == Where(s, 1 .. n, Crucial)
<1>1. /\ n >= 1 => s[n] = ScanStep
      /\ n >= 2 => s[n - 1] = EnableStep
  BY DEF StartRest
<1>2. ScanStep \notin Crucial /\ EnableStep \notin Crucial
  BY DEF ScanStep, EnableStep, Order, Take, Crucial, Asking
<1>3. n = 1 \/ n = 2
  OBVIOUS
<1> HIDE DEF n
<1>4. \A i \in 1 .. n : s[i] \notin Crucial
  <2>1. CASE n = 1
    <3>1. s[1] = ScanStep
      BY <1>1, <2>1
    <3>2. \A i \in 1 .. n : i = 1
      BY <2>1
    <3> QED BY <1>2, <3>1, <3>2
  <2>2. CASE n = 2
    <3>1. s[1] = EnableStep /\ s[2] = ScanStep
      BY <1>1, <2>2
    <3>2. \A i \in 1 .. n : i = 1 \/ i = 2
      BY <2>2
    <3> QED BY <1>2, <3>1, <3>2
  <2> QED BY <1>3, <2>1, <2>2
<1>5. A = {}
  BY <1>4 DEF Where
<1>6. Cardinality(A) = 0
  BY <1>5, FS_EmptySet
<1> QED BY <1>6 DEF Needed, Count, n

LEMMA EndIsQuiet ==
  ASSUME Typed, ClearInv, node.at = "starting", Len(app.todo) \in {1, 2} PROVE Quiet
<1>1. StartRest(app.todo)
  BY DEF Typed, ScriptInv
<1>2. Needed = 0
  BY <1>1, EndAsksNothing
<1>3. app.todo # << >>
  BY EmptySeq
<1>4. Event \in {0, 1}
  BY DEF Event
<1>5. ~Clear(Pipe, Event, Needed)
  BY <1>2, <1>4 DEF Clear
<1>6. ~Hopeless
  BY <1>2 DEF Hopeless
<1> QED BY <1>3, <1>5, <1>6 DEF ClearInv

LEMMA HolderInit == LidarInit => HolderInv
  BY DEF LidarInit, LinkInit, HolderInv, AtLast, Armed

LEMMA QuietThreads ==
  ASSUME NodeTypes, DecInv, Quiet, Rx \/ Dec \/ Wire PROVE Quiet'
<1>1. Kept \/ Dropped \/ Passed \/ Sampled \/ Cut
  BY PipeMoves
<1>2. ModeMoves
  BY PipeMoves DEF ModeMoves
<1>3. Quiet' \/ Clear(Pipe', Event', 0)
  BY <1>1, <1>2, ClearStays
<1>4. Event' \in {0, 1}
  BY DEF Event
<1>5. ~Clear(Pipe', Event', 0)
  BY <1>4 DEF Clear
<1> QED BY <1>3, <1>5

LEMMA HolderThreads ==
  ASSUME Typed, DecInv, ClearInv, HolderInv, Rx \/ Dec \/ Wire, UNCHANGED nodeVars
  PROVE  HolderInv'
<1>0. NodeTypes
  BY DEF Typed
<1>1. app' = app /\ driver'.enabled = driver.enabled
  BY <1>0, ThreadsEffect
<1>2. node' = node /\ seen' = seen /\ stale' = stale
  BY DEF nodeVars
<1>3. AtLast' = AtLast /\ Armed' = Armed
  BY <1>1, <1>2 DEF AtLast, Armed
<1>4. starts' = starts
  BY DEF Rx, RxTake, RxEnds, Dec, DecDecode, DecHandle, DecAnswer, DecEnds, Wire, DeviceSamples,
         FrameLost, Unplugged
<1>5. \/ scanReady' = scanReady
      \/ scanReady' = starts + 1 /\ dec.frame = "sample" /\ driver.enabled
  BY DEF Rx, RxTake, RxEnds, Dec, DecDecode, DecHandle, DecAnswer, DecEnds, Wire, DeviceSamples,
         FrameLost, Unplugged
<1>6. AtLast => Quiet
  BY EndIsQuiet DEF AtLast
<1>7. Quiet => dec.frame # "sample" /\ Quiet'
  BY <1>0, QuietThreads DEF Quiet
<1>8. scanReady' \in {0, starts' + 1}
  BY <1>4, <1>5 DEF HolderInv
<1>9. AtLast' => scanReady' = 0
  BY <1>3, <1>5, <1>6, <1>7 DEF HolderInv
<1>10. stale' = 1 /\ ~Armed' => scanReady' = 0 /\ (driver'.enabled => Quiet')
  BY <1>1, <1>2, <1>3, <1>5, <1>7 DEF HolderInv
<1> QED BY <1>2, <1>8, <1>9, <1>10 DEF HolderInv

LEMMA HolderCall ==
  ASSUME Typed, DecInv, ClearInv, HolderInv, Call, UNCHANGED nodeVars PROVE HolderInv'
<1>0. NodeTypes /\ ScriptInv /\ app.todo # << >> /\ app.at # "out"
  BY CallMoves DEF Typed
<1>1. node' = node /\ seen' = seen /\ stale' = stale
  BY DEF nodeVars
<1>2. scanReady' = scanReady \/ (Enable /\ scanReady' = 0)
  BY DEF Call, AskLock, AskSend, AskTimesOut, AskTake, Tell, TellDTR, Enable, Connect, Unbind, Join
<1>3. starts' = starts \/ (Tell /\ Doing.what = "scan")
  BY DEF Call, AskLock, AskSend, AskTimesOut, AskTake, Tell, TellDTR, Enable, Connect, Unbind, Join
<1>4. Tell /\ Doing.what = "scan" => scanReady = 0
  BY ScanIsLast DEF HolderInv, AtLast
<1>5. scanReady' \in {0, starts' + 1}
  BY <1>2, <1>3, <1>4 DEF HolderInv
<1>6. ASSUME node.at = "starting" PROVE StartRest(app.todo) /\ app.ok
  BY <1>0, <1>6 DEF ScriptInv
<1>7. Enable => node.at = "starting" /\ Len(app.todo) = 2
  <2>1. SUFFICES ASSUME Enable PROVE node.at = "starting" /\ Len(app.todo) = 2
    OBVIOUS
  <2>2. Doing.do = "enable"
    BY <2>1 DEF Enable, InStep
  <2>3. ~(Doing \in Mundane \cup Connecting) /\ ~(Doing \in Mundane) /\ ~(Doing \in Gentle)
        /\ ~(Doing \in Parting)
    BY <2>2 DEF Mundane, Asking, Driving, Halting, Connecting, Gentle, Parting
  <2>4. ~(app.todo \in Seq(Mundane \cup Connecting)) /\ ~(app.todo \in Seq(Mundane))
    BY <1>0, <2>3, FirstIsOne
  <2>5. ~(app.todo \in Seq(Gentle)) /\ ~(app.todo \in Seq(Parting))
    BY <1>0, <2>3, FirstIsOne
  <2>6. node.at = "starting"
    BY <1>0, <2>4, <2>5 DEF ScriptInv, Opening
  <2>7. Len(app.todo) # 1
    BY <1>0, <1>6, <2>2, <2>6, StartSteps DEF ScanStep, Order, Take
  <2>8. Len(app.todo) # 3
    BY <1>0, <1>6, <2>2, <2>6, StartSteps DEF StartMotors, Driving
  <2>9. Len(app.todo) \in {1, 2, 3}
    BY <1>0, <1>6, <2>3, <2>6, StartSteps
  <2> QED BY <2>6, <2>7, <2>8, <2>9
<1>8. AtLast' => scanReady' = 0
  <2>1. SUFFICES ASSUME AtLast' PROVE scanReady' = 0
    OBVIOUS
  <2>2. node.at = "starting" /\ Len(app'.todo) = 1
    BY <1>1, <2>1 DEF AtLast
  <2>3. CASE \E ok \in BOOLEAN : Done(ok)
    <3>1. Len(app.todo) = 2
      BY <1>0, <1>6, <2>2, <2>3, StartProceeds
    <3>2. Doing.do = "enable"
      BY <1>0, <1>6, <2>2, <3>1, StartSteps DEF EnableStep, Take
    <3>3. Enable
      BY <3>2, StepHasAction
    <3> QED BY <3>3 DEF Enable
  <2>4. CASE app'.todo = app.todo
    <3>1. AtLast
      BY <2>2, <2>4 DEF AtLast
    <3> QED BY <1>2, <3>1 DEF HolderInv
  <2> QED BY <2>3, <2>4, CallMoves
<1>9. ~Armed
  BY <1>0 DEF Armed
<1>10. driver'.enabled => driver.enabled \/ Enable
  BY <1>0 DEF Call, AskLock, AskSend, AskTimesOut, AskTake, Tell, TellDTR, Enable, Connect, Unbind,
              Join, NodeTypes, Drivers
<1>11. ASSUME stale' = 1, ~Armed' PROVE scanReady' = 0 /\ (driver'.enabled => Quiet')
  <2>1. scanReady = 0 /\ (driver.enabled => Quiet)
    BY <1>1, <1>9, <1>11 DEF HolderInv
  <2>2. Enable => Quiet
    BY <1>7, EndIsQuiet
  <2>3. ~(Tell /\ Doing.what = "scan" /\ Writable)
    <3>1. SUFFICES ASSUME Tell, Doing.what = "scan", Writable PROVE FALSE
      OBVIOUS
    <3>2. node.at = "starting" /\ app'.todo = << >> /\ app'.ok
      BY <3>1, ScanIsLast
    <3> QED BY <1>1, <1>11, <3>2 DEF Armed
  <2>4. driver'.enabled => Quiet'
    BY <1>10, <2>1, <2>2, <2>3, QuietCall
  <2> QED BY <1>2, <2>1, <2>4
<1> QED BY <1>1, <1>5, <1>8, <1>11 DEF HolderInv

\* The node takes what is in the holder.
LEMMA HolderTaken ==
  ASSUME Typed, FollowInv, HolderInv, GrabsFirst \/ Publishes PROVE HolderInv'
<1>0. node \in NodeStates /\ node.at = "grab"
  BY DEF Typed, NodeTypes, GrabsFirst, Publishes
<1>1. /\ scanReady # 0 /\ scanReady' = 0
      /\ UNCHANGED <<starts, driver, codecMode, dec, rxq, air>>
  BY DEF GrabsFirst, Publishes
<1>2. node'.at # "starting" /\ node'.scanning = node.scanning
  <2>1. GrabsFirst => node' = [node EXCEPT !.at = "called", !.next = "loop", !.tune = FALSE]
    BY DEF GrabsFirst
  <2>2. Publishes => node' = [node EXCEPT !.at = "spin"]
    BY DEF Publishes
  <2> QED BY <1>0, <2>1, <2>2 DEF NodeStates
<1>3. ~Armed /\ stale = 0
  BY <1>0, <1>1 DEF Armed, HolderInv
<1>4. CASE GrabsFirst
  BY <1>1, <1>2, <1>3, <1>4 DEF GrabsFirst, Same, HolderInv, AtLast
<1>5. CASE Publishes
  <2>1. seen' = TRUE
    BY <1>1, <1>5 DEF Publishes, HolderInv
  <2>2. stale' = IF node.scanning THEN 0 ELSE 1
    BY <1>3, <1>5 DEF Publishes, StaleCap
  <2>3. ~node.scanning => ~driver.enabled
    BY <1>0 DEF FollowInv, SettledInv, Settled
  <2> QED BY <1>1, <1>2, <2>1, <2>2, <2>3 DEF HolderInv, AtLast
<1> QED BY <1>4, <1>5

LEMMA HolderNode ==
  ASSUME Typed, FollowInv, HolderInv, NodeSteps PROVE HolderInv'
<1>0. node \in NodeStates /\ ScriptInv
  BY DEF Typed, NodeTypes
<1>1. LinkRests
  BY NodeRests
<1>2. /\ Quiet' = Quiet /\ driver' = driver /\ starts' = starts
  BY <1>1 DEF LinkRests, Quiet, Pipe, Held
<1>3. CASE Begins
  <2>1. PICK s \in Seq(Steps) : /\ app'.todo = s /\ Starting(s, 4) /\ node.at # "starting"
                                /\ UNCHANGED <<scanReady, starts, seen, stale>>
                                /\ node'.at = "starting" /\ node'.scanning = node.scanning
    BY <1>3, StartBegins
  <2>2. Len(s) # 1
    <3> DEFINE n == Len(s)
    <3>1. n \in Nat /\ n >= 3
      BY <2>1, LenProperties DEF Starting
    <3> HIDE DEF n
    <3>2. n # 1
      BY <3>1
    <3> QED BY <3>2 DEF n
  <2> QED BY <1>2, <2>1, <2>2 DEF HolderInv, AtLast, Armed
<1>4. CASE GrabsFirst \/ Publishes
  BY <1>4, HolderTaken
<1>5. ASSUME ~Begins, UNCHANGED <<scanReady, seen>>, ~Armed, stale' \in {0, stale},
             node'.scanning => stale' = 0
      PROVE  HolderInv'
  <2>1. ~AtLast'
    BY <1>5, OthersStart DEF AtLast
  <2>2. stale' = 1 => stale = 1
    BY <1>5
  <2>3. stale' \in {0, 1}
    BY <1>5 DEF HolderInv
  <2> QED BY <1>2, <1>5, <2>1, <2>2, <2>3 DEF HolderInv
<1>6. CASE Started
  <2>1. stale' = 0 /\ UNCHANGED <<scanReady, seen>> /\ node'.at # "starting"
    <3>1. ~Begins
      BY <1>6 DEF Started, Begins, FirstStart, StandbyStarts, StartMotor, Over, Free
    <3> QED BY <1>6, <3>1, OthersStart DEF Started, Returns
  <2> QED BY <1>2, <2>1 DEF HolderInv, AtLast
<1>7. CASE Stopped
  <2>1. /\ ~Begins /\ UNCHANGED <<scanReady, seen>> /\ ~Armed /\ stale' \in {0, stale}
        /\ ~node'.scanning
    BY <1>0, <1>7
    DEF Stopped, Begins, FirstStart, StandbyStarts, StartMotor, Over, Free, Returns, Armed,
        NodeStates
  <2> QED BY <1>5, <2>1
<1>8. CASE ~Begins /\ (Connects \/ AsksInfo \/ AsksHealth \/ AsksModel \/ SpinsUp \/ Checked
                         \/ StartFailed \/ StandbyStops \/ StopMotor \/ Leaves \/ Deletes)
  <2>1. \E s : Calls(s) \/ Returns
    BY <1>8 DEF Connects, AsksInfo, AsksHealth, AsksModel, SpinsUp, Checked, StartFailed,
                StandbyStops, StopMotor, Leaves, Deletes, StopScript
  <2>2. scanReady' = scanReady
    BY <2>1 DEF Calls, Returns
  <2>3. /\ UNCHANGED <<seen, stale>> /\ ~Armed
    BY <1>8 DEF Connects, AsksInfo, AsksHealth, AsksModel, SpinsUp, Checked, StartFailed,
                StandbyStops, StopMotor, Leaves, Deletes, Same, Armed
  <2>4. node'.scanning = node.scanning
    BY <1>0, <1>8 DEF Connects, AsksInfo, AsksHealth, AsksModel, SpinsUp, Checked, StartFailed,
                StandbyStops, StopMotor, Leaves, Deletes, Goes, NodeStates
  <2>5. node'.scanning => stale' = 0
    BY <2>3, <2>4 DEF HolderInv
  <2> QED BY <1>5, <1>8, <2>2, <2>3, <2>5
<1>9. CASE ~Begins /\ (Loops \/ GrabTimesOut \/ Spins \/ Interrupted \/ ListenersChange)
  <2>1. UNCHANGED <<scanReady, seen, stale>> /\ ~Armed
    BY <1>9 DEF Loops, GrabTimesOut, Spins, Interrupted, ListenersChange, linkVars, Armed
  <2>2. node'.scanning = node.scanning
    BY <1>0, <1>9 DEF Loops, GrabTimesOut, Spins, Interrupted, ListenersChange, NodeStates
  <2>3. node'.scanning => stale' = 0
    BY <2>1, <2>2 DEF HolderInv
  <2> QED BY <1>5, <1>9, <2>1, <2>3
<1> QED BY <1>3, <1>4, <1>6, <1>7, <1>8, <1>9
        DEF NodeSteps, StartUp, StartStop, WorkLoop, Services, Begins

LEMMA HolderNext ==
  ASSUME Typed, FollowInv, DecInv, ClearInv, HolderInv, [LidarNext]_lidarVars PROVE HolderInv'
<1>1. CASE LinkNext /\ UNCHANGED nodeVars
  BY <1>1, HolderThreads, HolderCall DEF LinkNext
<1>2. CASE NodeSteps
  BY <1>2, HolderNode
<1>3. CASE UNCHANGED lidarVars
  BY <1>3 DEF HolderInv, AtLast, Armed, Quiet, Pipe, Held, lidarVars, linkVars, nodeVars
<1> QED BY <1>1, <1>2, <1>3 DEF LidarNext, Gone, NodeSteps

LEMMA LateGrows == ASSUME Typed, [LidarNext]_lidarVars PROVE FewAreLate' => FewAreLate
<1>1. late \in Nat
  BY DEF Typed, NodeTypes
<1>2. CASE LinkNext
  <2>1. late' = late \/ late' = late + 1
    BY <1>2
    DEF LinkNext, Rx, RxTake, RxEnds, Dec, DecDecode, DecHandle, DecAnswer, DecEnds, Wire,
        DeviceSamples, FrameLost, Unplugged, Call, AskLock, AskSend, AskTimesOut, AskTake, Tell,
        TellDTR, Enable, Connect, Unbind, Join
  <2> QED BY <1>1, <2>1 DEF FewAreLate
<1>3. CASE NodeSteps
  BY <1>3, NodeRests DEF LinkRests, FewAreLate
<1>4. CASE UNCHANGED lidarVars
  BY <1>4 DEF FewAreLate, lidarVars, linkVars
<1> QED BY <1>2, <1>3, <1>4 DEF LidarNext, Gone, NodeSteps

\* The node and the lidar agree, and only scans of the last scan command are published, one
\* of them at most after a stop, as long as no more than three answers came after their
\* time-out: start() asks at least four questions it cannot do without (_sendCommandWithResponse,
\* start() and work_loop).
THEOREM NodeAndLidarAlwaysAgree == LidarSpec => [](FewAreLate => NodeAndLidarAgree)
<1> DEFINE Current == ClearInv /\ HolderInv
           Inv == Typed /\ FollowInv /\ DecInv /\ CountInv /\ (FewAreLate => Current)
<1>1. LidarInit => Inv
  BY TypedInit, FollowInit, DecInit, CountInit, HolderInit DEF ClearInv, LidarInit
<1>2. Inv /\ [LidarNext]_lidarVars => Inv'
  <2> SUFFICES ASSUME Inv, [LidarNext]_lidarVars PROVE Inv'
    OBVIOUS
  <2>1. Typed' /\ FollowInv' /\ DecInv' /\ CountInv'
    BY TypedNext, FollowNext, DecNext, CountNext
  <2>2. FewAreLate' => FewAreLate
    BY LateGrows
  <2>3. FewAreLate => ClearInv' /\ HolderInv'
    BY ClearNext, HolderNext
  <2> QED BY <2>1, <2>2, <2>3
<1>3. Inv => (FewAreLate => PublishedIsCurrent /\ OneLeftover)
  BY DEF HolderInv, PublishedIsCurrent, OneLeftover
<1>4. LidarSpec => [](FewAreLate => PublishedIsCurrent /\ OneLeftover)
  BY <1>1, <1>2, <1>3, PTL DEF LidarSpec
<1> QED BY <1>4, LidarAlwaysFollows, PTL DEF NodeAndLidarAgree
=============================================================================

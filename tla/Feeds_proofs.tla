---------------------------- MODULE Feeds_proofs ----------------------------
(***************************************************************************)
(* The two event streams for any number of windows, values and any length  *)
(* of queue: nobody misses the newest payload, nobody waits for a loop     *)
(* that sleeps without a time-out, no bump goes unheard.                   *)
(***************************************************************************)
EXTENDS Feeds, SequenceTheorems, TLAPS

QueueTypes ==
  /\ queue \in [Windows -> Seq(Frames)]
  /\ shown \in [Windows -> Frames \cup {Nothing}]
  /\ subscribers \subseteq open /\ open \subseteq Windows
  /\ lastPayload \in Values \cup {Blank, Nothing}
  /\ answer \in Values \cup {Nothing}
  /\ world \in Values

\* Only the joystick loop sleeps without a time-out.
OnlyJoyIdles == feed = "calibration" => loop # "idle"

\* Between turns or within one, a bump no poll has seen is in the event.
UnseenIsSet == feed = "calibration" /\ unseen => wake

FeedsInv ==
  QueueTypes /\ NewestIsQueued /\ SleepsAlone /\ BumpIsHeard /\ OnlyJoyIdles
    /\ UnseenIsSet

LEMMA LastOfAppend ==
  ASSUME NEW S, NEW s \in Seq(S), NEW e \in S
  PROVE  Append(s, e) \in Seq(S) /\ Append(s, e) # <<>> /\ Last(Append(s, e)) = e
  BY DEF Last

LEMMA LastOfTail ==
  ASSUME NEW S, NEW s \in Seq(S), s # <<>>
  PROVE  /\ Tail(s) \in Seq(S)
         /\ Head(s) \in S
         /\ Tail(s) = <<>> => Head(s) = Last(s)
         /\ Tail(s) # <<>> => Last(Tail(s)) = Last(s)
<1>1. Len(s) \in Nat \ {0}
  BY EmptySeq
<1>2. /\ Tail(s) \in Seq(S) /\ Len(Tail(s)) = Len(s) - 1
      /\ \A i \in 1 .. Len(Tail(s)) : Tail(s)[i] = s[i + 1]
      /\ Head(s) \in S
  BY HeadTailProperties
<1>3. CASE Tail(s) = <<>>
  <2>1. Len(Tail(s)) = 0
    BY <1>3, EmptySeq
  <2>2. Len(s) = 1
    <3>1. Len(s) - 1 = 0
      BY <1>2, <2>1
    <3>2. ASSUME NEW n \in Nat, n - 1 = 0 PROVE n = 1
      BY <3>2
    <3> QED BY <1>1, <3>1, <3>2
  <2>3. Last(s) = s[1]
    BY <2>2 DEF Last
  <2> QED BY <1>2, <1>3, <2>3
<1>4. CASE Tail(s) # <<>>
  <2>1. Len(Tail(s)) \in 1 .. Len(Tail(s))
    BY <1>2, <1>4, EmptySeq
  <2>2. Tail(s)[Len(Tail(s))] = s[Len(s)]
    BY <1>1, <1>2, <2>1
  <2> QED BY <1>2, <1>4, <2>2 DEF Last
<1> QED BY <1>3, <1>4

LEMMA FeedsInvInit == FeedsInit => FeedsInv
  BY DEF FeedsInit, FeedInit, FeedsInv, QueueTypes, NewestIsQueued, SleepsAlone,
         BumpIsHeard, OnlyJoyIdles, UnseenIsSet, Frames

\* A window with room has the frame as its newest, the others are as before.
LEMMA FannedNewest ==
  ASSUME QueueTypes, NEW frame \in Frames, queue' = Fanned(frame), UNCHANGED shown
  PROVE  /\ queue' \in [Windows -> Seq(Frames)]
         /\ \A w \in Windows :
              IF w \in subscribers /\ ~Full(w) THEN Newest(w)' = frame
              ELSE queue'[w] = queue[w]
<1>1. ASSUME NEW w \in Windows
      PROVE  Fanned(frame)[w] \in Seq(Frames)
  BY <1>1, LastOfAppend DEF QueueTypes, Fanned
<1>2. queue' \in [Windows -> Seq(Frames)]
  BY <1>1 DEF Fanned
<1>3. ASSUME NEW w \in Windows, w \in subscribers, ~Full(w) PROVE Newest(w)' = frame
  <2>1. queue'[w] = Append(queue[w], frame)
    BY <1>3 DEF Fanned
  <2> QED BY <2>1, LastOfAppend DEF Newest, QueueTypes
<1>4. ASSUME NEW w \in Windows, ~(w \in subscribers /\ ~Full(w)) PROVE queue'[w] = queue[w]
  BY <1>4 DEF Fanned, QueueTypes
<1> QED BY <1>2, <1>3, <1>4

\* Steps that leave the queues and the last payload alone.
LEMMA QueuesAlone ==
  ASSUME QueueTypes, NewestIsQueued,
         UNCHANGED <<feed, queue, shown, subscribers, open, lastPayload>>,
         answer' \in Values \cup {Nothing}, world' \in Values
  PROVE  QueueTypes' /\ NewestIsQueued'
  BY DEF QueueTypes, NewestIsQueued, Newest

LEMMA ConnectKeeps ==
  ASSUME QueueTypes, NewestIsQueued, NEW w \in Windows, Subscribe(w),
         UNCHANGED <<feed, world, answer, lastPayload>>
  PROVE  QueueTypes' /\ NewestIsQueued'
<1>1. Greeting \in Seq(Frames)
  <2>1. CASE lastPayload = Nothing
    BY <2>1 DEF Greeting
  <2>2. CASE lastPayload # Nothing
    <3>1. lastPayload \in Frames
      BY <2>2 DEF QueueTypes, Frames
    <3> QED BY <2>2, <3>1 DEF Greeting
  <2> QED BY <2>1, <2>2
<1>2. queue' = [queue EXCEPT ![w] = Greeting] /\ shown' = [shown EXCEPT ![w] = Nothing]
      /\ subscribers' = subscribers \cup {w} /\ open' = open \cup {w}
  BY DEF Subscribe
<1>3. QueueTypes'
  BY <1>1, <1>2 DEF QueueTypes
<1>4. ASSUME lastPayload # Nothing PROVE Newest(w)' = lastPayload
  BY <1>2, <1>4, FeedAssumption DEF Newest, Greeting, Last, QueueTypes
<1>5. \A u \in Windows : u # w => Newest(u)' = Newest(u)
  BY <1>2 DEF Newest, QueueTypes
<1> QED BY <1>2, <1>3, <1>4, <1>5 DEF NewestIsQueued, QueueTypes

LEMMA ReceiveKeeps ==
  ASSUME QueueTypes, NewestIsQueued, NEW w \in Windows, Receive(w), UNCHANGED feed
  PROVE  QueueTypes' /\ NewestIsQueued'
<1>1. queue[w] \in Seq(Frames) /\ queue[w] # <<>>
  BY DEF QueueTypes, Receive
<1>2. queue' = [queue EXCEPT ![w] = Tail(queue[w])]
      /\ shown' = [shown EXCEPT ![w] = Head(queue[w])]
      /\ UNCHANGED <<subscribers, open, lastPayload, answer, world>>
  BY DEF Receive
<1>3. QueueTypes'
  BY <1>1, <1>2, LastOfTail DEF QueueTypes
<1>4. Newest(w)' = Newest(w)
  BY <1>1, <1>2, LastOfTail DEF Newest, QueueTypes
<1>5. \A u \in Windows : u # w => Newest(u)' = Newest(u)
  BY <1>2 DEF Newest, QueueTypes
<1> QED BY <1>2, <1>3, <1>4, <1>5 DEF NewestIsQueued, QueueTypes

LEMMA LeaveKeeps ==
  ASSUME QueueTypes, NewestIsQueued, NEW w \in Windows, Leave(w), UNCHANGED feed
  PROVE  QueueTypes' /\ NewestIsQueued'
<1>1. queue' = [queue EXCEPT ![w] = <<>>] /\ shown' = [shown EXCEPT ![w] = Nothing]
      /\ subscribers' = subscribers \ {w} /\ open' = open \ {w}
      /\ UNCHANGED <<lastPayload, answer, world>>
  BY DEF Leave
<1>2. QueueTypes'
  BY <1>1 DEF QueueTypes
<1>3. \A u \in Windows : u # w => Newest(u)' = Newest(u)
  BY <1>1 DEF Newest, QueueTypes
<1> QED BY <1>1, <1>2, <1>3 DEF NewestIsQueued, QueueTypes

LEMMA JoyTurnKeeps ==
  ASSUME QueueTypes, NewestIsQueued, NEW p \in Values \cup {Blank}, JoyTurn(p),
         UNCHANGED feed
  PROVE  QueueTypes' /\ NewestIsQueued'
<1>1. UNCHANGED <<world, open, shown>> /\ answer' = Nothing /\ JoyEmit(p)
  BY DEF JoyTurn
<1>2. CASE p = lastPayload
  BY <1>1, <1>2, QueuesAlone DEF JoyEmit, QueueTypes
<1>3. CASE p # lastPayload
  <2>1. lastPayload' = p /\ queue' = Fanned(p) /\ subscribers' = subscribers \ Dead
    BY <1>1, <1>3 DEF JoyEmit
  <2>2. p \in Frames
    BY DEF Frames
  <2>3. QueueTypes'
    BY <1>1, <2>1, <2>2, FannedNewest DEF QueueTypes
  <2>4. \A w \in subscribers' : w \in Windows /\ w \in subscribers /\ ~Full(w)
    BY <2>1 DEF Dead, Overflown, QueueTypes
  <2>5. \A w \in subscribers' : Newest(w)' = p
    BY <1>1, <2>1, <2>2, <2>4, FannedNewest
  <2> QED BY <2>1, <2>3, <2>5 DEF NewestIsQueued
<1> QED BY <1>2, <1>3

\* The calibration stream's steps need only the types.
LEMMA CalibrationKeeps ==
  ASSUME QueueTypes, feed = "calibration", UNCHANGED feed,
         \/ CalibrationAnswered \/ CalibrationRaises \/ CalibrationSkips
         \/ CalibrationWakes
  PROVE  QueueTypes' /\ NewestIsQueued'
<1>1. UNCHANGED <<world, subscribers, open, shown>> /\ answer' \in {answer, Nothing}
  BY DEF CalibrationAnswered, CalibrationRaises, CalibrationSkips, CalibrationWakes,
         CalibrationEmit
<1>2. \/ UNCHANGED <<queue, lastPayload>>
      \/ /\ answer # Nothing /\ queue' = Fanned(answer) /\ lastPayload' = answer
      \/ queue' = Fanned(ErrorFrame) /\ UNCHANGED lastPayload
  BY DEF CalibrationAnswered, CalibrationRaises, CalibrationSkips, CalibrationWakes,
         CalibrationEmit
<1>3. queue' \in [Windows -> Seq(Frames)] /\ lastPayload' \in Values \cup {Blank, Nothing}
  <2>1. CASE UNCHANGED <<queue, lastPayload>>
    BY <2>1 DEF QueueTypes
  <2>2. CASE answer # Nothing /\ queue' = Fanned(answer) /\ lastPayload' = answer
    <3>1. answer \in Values /\ answer \in Frames
      BY <2>2 DEF QueueTypes, Frames
    <3> QED BY <1>1, <2>2, <3>1, FannedNewest
  <2>3. CASE queue' = Fanned(ErrorFrame) /\ UNCHANGED lastPayload
    <3>1. ErrorFrame \in Frames
      BY DEF Frames
    <3> QED BY <1>1, <2>3, <3>1, FannedNewest DEF QueueTypes
  <2> QED BY <1>2, <2>1, <2>2, <2>3
<1> QED BY <1>1, <1>3 DEF QueueTypes, NewestIsQueued

LEMMA FeedsInvNext == FeedsInv /\ [FeedsNext]_feedsVars => FeedsInv'
<1> SUFFICES ASSUME FeedsInv, [FeedsNext]_feedsVars PROVE FeedsInv'
  OBVIOUS
<1> USE DEF FeedsInv, SleepsAlone, BumpIsHeard, OnlyJoyIdles, UnseenIsSet
<1>1. UNCHANGED feed
  BY DEF FeedsNext, feedsVars
<1>2. ASSUME NEW v \in Values, Change(v) PROVE FeedsInv'
  BY <1>1, <1>2, QueuesAlone DEF Change, QueueTypes
<1>3. CASE Bump
  BY <1>1, <1>3, QueuesAlone DEF Bump, QueueTypes
<1>4. CASE Serve
  BY <1>1, <1>4, QueuesAlone DEF Serve, QueueTypes
<1>5. ASSUME NEW w \in Windows, Receive(w) PROVE FeedsInv'
  BY <1>1, <1>5, ReceiveKeeps DEF Receive
<1>6. ASSUME NEW w \in Windows, Leave(w) PROVE FeedsInv'
  BY <1>1, <1>6, LeaveKeeps DEF Leave
<1>7. ASSUME feed = "joy", NEW w \in Windows, JoyConnect(w) PROVE FeedsInv'
  BY <1>1, <1>7, ConnectKeeps DEF JoyConnect, WokenBySubscriber
<1>8. ASSUME feed = "joy", NEW p \in Values \cup {Blank}, JoyTurn(p) PROVE FeedsInv'
  BY <1>1, <1>8, JoyTurnKeeps DEF JoyTurn, JoySleep
<1>9. ASSUME feed = "joy", JoyWakes \/ Ticker PROVE FeedsInv'
  <2>1. answer' \in Values \cup {Nothing}
        /\ UNCHANGED <<world, queue, shown, subscribers, open, lastPayload>>
    BY <1>9 DEF JoyWakes, Ticker, QueueTypes
  <2>2. QueueTypes' /\ NewestIsQueued'
    BY <1>1, <2>1, QueuesAlone DEF QueueTypes
  <2> QED BY <1>1, <1>9, <2>2 DEF JoyWakes, Ticker
<1>10. ASSUME feed = "calibration", NEW w \in Windows, CalibrationConnect(w) PROVE FeedsInv'
  <2>1. QueueTypes' /\ NewestIsQueued'
    BY <1>1, <1>10, ConnectKeeps DEF CalibrationConnect
  <2>2. /\ loop' = IF loop = "none" THEN "asking" ELSE loop
        /\ UNCHANGED <<wake, unseen>>
    BY <1>10 DEF CalibrationConnect
  <2>3. SleepsAlone' /\ BumpIsHeard' /\ OnlyJoyIdles' /\ UnseenIsSet'
    BY <1>1, <1>10, <2>2
  <2> QED BY <2>1, <2>3
<1>11. ASSUME feed = "calibration",
              \/ CalibrationAnswered \/ CalibrationRaises \/ CalibrationSkips
              \/ CalibrationWakes
       PROVE  FeedsInv'
  <2>1. QueueTypes' /\ NewestIsQueued'
    BY <1>1, <1>11, CalibrationKeeps
  <2>2. SleepsAlone' /\ BumpIsHeard' /\ OnlyJoyIdles' /\ UnseenIsSet'
    BY <1>1, <1>11 DEF CalibrationAnswered, CalibrationRaises, CalibrationSkips,
                       CalibrationWakes, WakeAfterTurn
  <2> QED BY <2>1, <2>2
<1>12. CASE UNCHANGED feedsVars
  BY <1>12, QueuesAlone DEF feedsVars, feedVars, QueueTypes
<1>13. ASSUME JoyAnswered \/ JoyFails
       PROVE  \E p \in Values \cup {Blank} : JoyTurn(p)
  BY <1>13 DEF JoyAnswered, JoyFails, QueueTypes
<1> QED
  BY <1>2, <1>3, <1>4, <1>5, <1>6, <1>7, <1>8, <1>9, <1>10, <1>11, <1>12, <1>13
  DEF FeedsNext, FeedEnvironment, JoyFeedNext, CalibrationFeedNext

(* A window subscribed to the joystick stream never misses the newest      *)
(* payload (joy.py _emit, subscribe).                                      *)
THEOREM NewestAlwaysQueued == FeedsSpec => []NewestIsQueued
  BY FeedsInvInit, FeedsInvNext, PTL DEF FeedsSpec, FeedsInv

(* The joystick loop without a time-out to end its sleep has no listener    *)
(* or was woken, and the calibration loop never sleeps on a bump that its   *)
(* last poll did not see (_run and subscribe of joy.py, _run of kiosk.py).  *)
THEOREM WakeupsNeverLost == FeedsSpec => []NoLostWakeup
<1>1. FeedsInv => NoLostWakeup
  BY DEF FeedsInv, NoLostWakeup
<1> QED BY <1>1, FeedsInvInit, FeedsInvNext, PTL DEF FeedsSpec

-----------------------------------------------------------------------------
LEMMA FeedTypeInit == FeedsInit => FeedTypeOK
<1> SUFFICES ASSUME FeedsInit PROVE FeedTypeOK
  OBVIOUS
<1>1. queue \in [Windows -> Seq(Frames)]
  BY DEF FeedsInit, FeedInit
<1>2. \A w \in Windows : Len(queue[w]) <= QueueSize
  BY FeedAssumption DEF FeedsInit, FeedInit
<1>3. shown \in [Windows -> Frames \cup {Nothing}]
  BY DEF FeedsInit, FeedInit
<1> QED BY <1>1, <1>2, <1>3 DEF FeedsInit, FeedInit, FeedTypeOK

\* A frame handed out fits: queues without room are passed over.
LEMMA FannedFits ==
  ASSUME FeedTypeOK, NEW frame \in Frames, queue' = Fanned(frame)
  PROVE  /\ queue' \in [Windows -> Seq(Frames)]
         /\ \A w \in Windows : Len(queue'[w]) <= QueueSize
<1> USE DEF FeedTypeOK
<1>1. ASSUME NEW w \in Windows
      PROVE  Fanned(frame)[w] \in Seq(Frames) /\ Len(Fanned(frame)[w]) <= QueueSize
  <2>1. CASE w \in subscribers /\ ~Full(w)
    <3>1. Fanned(frame)[w] = Append(queue[w], frame) /\ queue[w] \in Seq(Frames)
      BY <2>1 DEF Fanned
    <3>2. Len(queue[w]) \in Nat /\ Len(queue[w]) # QueueSize /\ Len(queue[w]) <= QueueSize
      BY <2>1, LenProperties DEF Full
    <3>3. /\ Append(queue[w], frame) \in Seq(Frames)
          /\ Len(Append(queue[w], frame)) = Len(queue[w]) + 1
      BY <3>1, AppendProperties
    <3> QED BY <3>1, <3>2, <3>3, FeedAssumption
  <2>2. CASE ~(w \in subscribers /\ ~Full(w))
    BY <2>2 DEF Fanned
  <2> QED BY <2>1, <2>2
<1>2. Fanned(frame) \in [Windows -> Seq(Frames)]
  BY <1>1 DEF Fanned
<1> QED BY <1>1, <1>2

LEMMA FeedTypeNext == FeedTypeOK /\ [FeedsNext]_feedsVars => FeedTypeOK'
<1> SUFFICES ASSUME FeedTypeOK, [FeedsNext]_feedsVars PROVE FeedTypeOK'
  OBVIOUS
<1> USE FeedAssumption DEF FeedTypeOK
<1>1. ASSUME NEW v \in Values, Change(v) PROVE FeedTypeOK'
  BY <1>1 DEF Change
<1>2. CASE Bump
  BY <1>2 DEF Bump
<1>3. CASE Serve
  BY <1>3 DEF Serve
<1>4. ASSUME NEW w \in Windows, Receive(w) PROVE FeedTypeOK'
  <2>1. queue[w] \in Seq(Frames) /\ queue[w] # <<>>
    BY <1>4 DEF Receive
  <2>2. /\ Tail(queue[w]) \in Seq(Frames) /\ Head(queue[w]) \in Frames
        /\ Len(Tail(queue[w])) = Len(queue[w]) - 1 /\ Len(queue[w]) \in Nat
    BY <2>1, HeadTailProperties, LenProperties
  <2>3. Len(Tail(queue[w])) <= QueueSize
    <3>1. ASSUME NEW n \in Nat, n <= QueueSize PROVE n - 1 <= QueueSize
      BY <3>1
    <3> QED BY <2>2, <3>1
  <2> QED BY <1>4, <2>2, <2>3 DEF Receive
<1>5. ASSUME NEW w \in Windows, Leave(w) PROVE FeedTypeOK'
  BY <1>5 DEF Leave
<1>6. ASSUME NEW w \in Windows, JoyConnect(w) \/ CalibrationConnect(w) PROVE FeedTypeOK'
  <2>1. Greeting \in Seq(Frames) /\ Len(Greeting) <= QueueSize
    <3>1. CASE lastPayload = Nothing
      BY <3>1 DEF Greeting
    <3>2. CASE lastPayload # Nothing
      BY <3>2 DEF Greeting, Frames
    <3> QED BY <3>1, <3>2
  <2>2. /\ queue' = [queue EXCEPT ![w] = Greeting]
        /\ shown' = [shown EXCEPT ![w] = Nothing]
        /\ open' = open \cup {w} /\ subscribers' = subscribers \cup {w}
        /\ gap' = gap \ {w}
    BY <1>6 DEF JoyConnect, CalibrationConnect, Subscribe
  <2>3. queue' \in [Windows -> Seq(Frames)] /\ \A u \in Windows : Len(queue'[u]) <= QueueSize
    BY <2>1, <2>2
  <2>4. /\ loop' \in {"asking", loop} /\ wake' \in {TRUE, wake}
        /\ UNCHANGED <<world, answer, lastPayload, unseen>>
    BY <1>6 DEF JoyConnect, CalibrationConnect, WokenBySubscriber
  <2> QED BY <2>2, <2>3, <2>4
<1>7. ASSUME NEW p \in Values \cup {Blank}, JoyTurn(p) PROVE FeedTypeOK'
  <2>1. p \in Frames
    BY DEF Frames
  <2>2. CASE p = lastPayload
    BY <1>7, <2>2 DEF JoyTurn, JoyEmit, JoySleep
  <2>3. CASE p # lastPayload
    <3>1. queue' = Fanned(p) /\ lastPayload' = p /\ subscribers' = subscribers \ Dead
          /\ gap' = gap \cup Overflown
      BY <1>7, <2>3 DEF JoyTurn, JoyEmit
    <3> QED BY <1>7, <2>1, <3>1, FannedFits DEF JoyTurn, JoySleep, Overflown
  <2> QED BY <2>2, <2>3
<1>8. CASE JoyWakes \/ Ticker \/ CalibrationSkips \/ CalibrationWakes
  BY <1>8 DEF JoyWakes, Ticker, CalibrationSkips, CalibrationWakes, WakeAfterTurn
<1>9. CASE CalibrationAnswered
  <2>1. answer \in Values /\ answer \in Frames
    BY <1>9 DEF CalibrationAnswered, Frames
  <2>2. CASE answer = lastPayload
    BY <1>9, <2>2 DEF CalibrationAnswered, CalibrationEmit, WakeAfterTurn
  <2>3. CASE answer # lastPayload
    <3>1. queue' = Fanned(answer) /\ lastPayload' = answer /\ gap' = gap \cup Overflown
      BY <1>9, <2>3 DEF CalibrationAnswered, CalibrationEmit
    <3> QED BY <1>9, <2>1, <3>1, FannedFits DEF CalibrationAnswered, WakeAfterTurn, Overflown
  <2> QED BY <2>2, <2>3
<1>10. CASE CalibrationRaises
  <2>1. ErrorFrame \in Frames /\ queue' = Fanned(ErrorFrame)
    BY <1>10 DEF CalibrationRaises, Frames
  <2> QED BY <1>10, <2>1, FannedFits DEF CalibrationRaises, WakeAfterTurn
<1>11. CASE UNCHANGED feedsVars
  BY <1>11 DEF feedsVars, feedVars
<1>12. ASSUME JoyAnswered \/ JoyFails
       PROVE  \E p \in Values \cup {Blank} : JoyTurn(p)
  BY <1>12 DEF JoyAnswered, JoyFails
<1> QED
  BY <1>1, <1>2, <1>3, <1>4, <1>5, <1>6, <1>7, <1>8, <1>9, <1>10, <1>11, <1>12
  DEF FeedsNext, FeedEnvironment, JoyFeedNext, CalibrationFeedNext

(* The state of both streams keeps its type; in particular no queue grows   *)
(* beyond its maxsize, and only open windows are subscribed (subscribe,     *)
(* _emit of both files).                                                    *)
THEOREM FeedTypeCorrect == FeedsSpec => []FeedTypeOK
  BY FeedTypeInit, FeedTypeNext, PTL DEF FeedsSpec
=============================================================================

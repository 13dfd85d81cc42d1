-------------------------------- MODULE Feeds -------------------------------
(***************************************************************************)
(* The two event streams of the web server side by side: feed says which   *)
(* of them a behaviour is about. They share no state in the code, so one   *)
(* set of variables serves for both.                                       *)
(***************************************************************************)
EXTENDS JoyFeed, CalibrationFeed

VARIABLE feed

feedsVars == <<feedVars, feed>>

FeedsInit == FeedInit /\ feed \in {"joy", "calibration"}

FeedsNext ==
  \/ feed = "joy" /\ JoyFeedNext /\ UNCHANGED feed
  \/ feed = "calibration" /\ CalibrationFeedNext /\ UNCHANGED feed

JoyFeedStep(A) == feed = "joy" /\ A /\ UNCHANGED feed
CalibrationFeedStep(A) == feed = "calibration" /\ A /\ UNCHANGED feed

\* The task and the windows go on and waits end by their time-out; and the node
\* does not fail every call for ever.
FeedsFairness ==
  /\ WF_feedsVars(JoyFeedStep(JoyWakes))
  /\ WF_feedsVars(CalibrationFeedStep(CalibrationWakes))
  /\ SF_feedsVars(Serve /\ UNCHANGED feed)
  /\ SF_feedsVars(JoyFeedStep(JoyAnswered))
  /\ SF_feedsVars(CalibrationFeedStep(CalibrationAnswered))
  /\ \A w \in Windows : WF_feedsVars(Receive(w) /\ UNCHANGED feed)

FeedsSpec == FeedsInit /\ [][FeedsNext]_feedsVars /\ FeedsFairness

-----------------------------------------------------------------------------
Newest(w) == IF queue[w] = <<>> THEN shown[w] ELSE Last(queue[w])

(* Joystick stream. However slowly a window reads and however calls        *)
(* overlap, fail or change the node under the poll: the newest frame on    *)
(* its way to a subscribed window is the last payload. A payload is only   *)
(* compared with the one before it, so a window that missed it would not   *)
(* be sent it again (joy.py _emit, subscribe).                             *)
NewestIsQueued ==
  feed = "joy" =>
    \A w \in subscribers : lastPayload # Nothing => Newest(w) = lastPayload

(* Joystick stream. The loop sleeps without a time-out only while nobody   *)
(* listens: a window that subscribes while it sleeps, or while its last    *)
(* poll is under way, wakes it (joy.py _run, subscribe).                   *)
SleepsAlone == loop = "idle" => subscribers = {} \/ wake

(* Calibration stream. A POST's bump that falls anywhere into a turn of    *)
(* the loop, after the node answered the poll included, ends the next wait *)
(* at once: its change is polled immediately and not one poll interval     *)
(* later (kiosk.py _run, bump).                                            *)
BumpIsHeard == feed = "calibration" /\ loop = "waiting" /\ unseen => wake

(* Neither loop sleeps through a wake-up that matters.                     *)
NoLostWakeup == SleepsAlone /\ BumpIsHeard

(* Both streams. When the node stays as it is, a window that keeps         *)
(* listening ends up showing it, whatever it was sent before; unless an    *)
(* error frame or a full queue came between it and the payload             *)
(* (joy.py, kiosk.py: subscribe, _emit, _run).                             *)
WindowsConverge ==
  \A w \in Windows : \A v \in Values :
    <>[](world = v /\ w \in subscribers /\ w \notin gap /\ lastPayload # Blank)
      => <>[](shown[w] = v)
=============================================================================

-------------------------------- MODULE Feed --------------------------------
(***************************************************************************)
(* What the two event streams of the web server have in common: a single   *)
(* task polls a ROS node and hands what it reads, if it is new, to the     *)
(* bounded queue of every subscribed browser window. _JoyBroadcaster of    *)
(* routers/joy.py and _CalibrationBroadcaster of routers/kiosk.py have     *)
(* these fields and these steps; where they differ, JoyFeed and            *)
(* CalibrationFeed say how. All of it runs on one asyncio loop, so an      *)
(* action is the code between two awaits.                                  *)
(***************************************************************************)
EXTENDS Naturals, Sequences, SequencesExt

CONSTANTS
  Windows,    \* browser windows that may open the stream
  Values,     \* what the polled node can hold
  Blank,      \* the joystick payload of a failed call: an empty mapping
  ErrorFrame, \* the calibration payload of a failed call
  Nothing,    \* None
  QueueSize   \* asyncio.Queue(maxsize=8)

ASSUME FeedAssumption ==
  /\ QueueSize \in Nat \ {0}
  /\ {Blank, ErrorFrame, Nothing} \cap Values = {}

VARIABLES
  world,       \* what the node holds
  loop,        \* the task: none, asking (service call sent), waiting, or idle (no time-out)
  answer,      \* the value the node answered with, Nothing before
  wake,        \* the event _wake
  lastPayload, \* _last_payload
  subscribers, \* the windows whose queue is in _subscribers
  queue,       \* the queue of each window
  open,        \* the windows whose generator runs
  shown,       \* history: what each window received last
  unseen,      \* history: a bump came after the last poll was sent or answered
  gap          \* history: windows an overflow or an error frame left behind

feedVars == <<world, loop, answer, wake, lastPayload, subscribers,
              queue, open, shown, unseen, gap>>

Frames == Values \cup {Blank, ErrorFrame}

FeedTypeOK ==
  /\ world \in Values
  /\ loop \in {"none", "asking", "waiting", "idle"}
  /\ answer \in Values \cup {Nothing}
  /\ wake \in BOOLEAN /\ unseen \in BOOLEAN
  /\ lastPayload \in Values \cup {Blank, Nothing}
  /\ subscribers \subseteq open /\ open \subseteq Windows /\ gap \subseteq Windows
  /\ queue \in [Windows -> Seq(Frames)]
  /\ \A w \in Windows : Len(queue[w]) <= QueueSize
  /\ shown \in [Windows -> Frames \cup {Nothing}]

FeedInit ==
  /\ world \in Values
  /\ loop = "none" /\ answer = Nothing /\ wake = FALSE
  /\ lastPayload = Nothing
  /\ subscribers = {} /\ open = {} /\ gap = {}
  /\ queue = [w \in Windows |-> <<>>]
  /\ shown = [w \in Windows |-> Nothing]
  /\ unseen = FALSE

-----------------------------------------------------------------------------
(* Steps of the queues                                                      *)

\* put_nowait raises QueueFull.
Full(w) == Len(queue[w]) = QueueSize

\* Mutant: a subscriber waits for the next change.
NoGreeting == <<>>
\* What a new queue holds: the last payload, if there is one.
Greeting == IF lastPayload = Nothing THEN <<>> ELSE <<lastPayload>>

\* put_nowait for every subscriber whose queue has room.
Fanned(frame) ==
  [w \in Windows |-> IF w \in subscribers /\ ~Full(w)
                       THEN Append(queue[w], frame) ELSE queue[w]]

Overflown == {w \in subscribers : Full(w)}

\* subscribe(), called by a window's generator.
Subscribe(w) ==
  /\ w \notin open
  /\ open' = open \cup {w} /\ subscribers' = subscribers \cup {w}
  /\ queue' = [queue EXCEPT ![w] = Greeting]
  /\ shown' = [shown EXCEPT ![w] = Nothing]
  /\ gap' = gap \ {w}

\* The window's generator takes a frame and sends it.
Receive(w) ==
  /\ w \in open /\ queue[w] # <<>>
  /\ queue' = [queue EXCEPT ![w] = Tail(@)]
  /\ shown' = [shown EXCEPT ![w] = Head(queue[w])]
  /\ UNCHANGED <<world, loop, answer, wake, lastPayload, subscribers,
                 open, unseen, gap>>

\* The window closes: the generator's finally clause unsubscribes.
Leave(w) ==
  /\ w \in open
  /\ open' = open \ {w} /\ subscribers' = subscribers \ {w}
  /\ queue' = [queue EXCEPT ![w] = <<>>]
  /\ shown' = [shown EXCEPT ![w] = Nothing]
  /\ gap' = gap \ {w}
  /\ UNCHANGED <<world, loop, answer, wake, lastPayload, unseen>>

-----------------------------------------------------------------------------
(* The node and the requests that change it                                 *)

\* The node changes: a POST handler's service call, another client, the
\* restart that a reset of the mapping asks for.
Change(v) ==
  /\ world' = v
  /\ UNCHANGED <<loop, answer, wake, lastPayload, subscribers, queue, open,
                 shown, unseen, gap>>

\* A POST handler calls bump(): after its change took effect, except that a
\* reset of the mapping only takes effect some seconds later.
Bump ==
  /\ wake' = TRUE /\ unseen' = TRUE
  /\ UNCHANGED <<world, loop, answer, lastPayload, subscribers, queue, open,
                 shown, gap>>

\* The node serves the poll's call; its answer is under way.
Serve ==
  /\ loop = "asking" /\ answer = Nothing
  /\ answer' = world /\ unseen' = FALSE
  /\ UNCHANGED <<world, loop, wake, lastPayload, subscribers, queue,
                 open, shown, gap>>

FeedEnvironment ==
  \/ \E v \in Values : Change(v)
  \/ Bump
  \/ Serve
  \/ \E w \in Windows : Receive(w) \/ Leave(w)
=============================================================================

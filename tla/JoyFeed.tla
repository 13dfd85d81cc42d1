------------------------------ MODULE JoyFeed -------------------------------
(***************************************************************************)
(* _JoyBroadcaster, _stream_joy and the 1 Hz ticker of routers/joy.py. The *)
(* payload is the mapping the node answered with; enabled and connected,   *)
(* which the same call reads from the bridge's caches when the answer      *)
(* arrives, change without a bump as Change does.                          *)
(***************************************************************************)
EXTENDS Feed

\* Mutant: a full queue keeps its place and misses the payload.
KeepOverflown == {}
\* Dropped from _subscribers: the queues without room for the payload.
Dead == Overflown

\* _emit: hand out a payload that differs from the last one.
JoyEmit(payload) ==
  IF payload = lastPayload
    THEN UNCHANGED <<lastPayload, queue, subscribers, gap>>
    ELSE /\ lastPayload' = payload
         /\ queue' = Fanned(payload)
         /\ subscribers' = subscribers \ Dead
         /\ gap' = gap \cup Overflown

\* After a turn the loop clears the event and sleeps; without a subscriber it
\* sleeps until somebody bumps.
JoySleep == IF subscribers' = {} THEN "idle" ELSE "waiting"

\* bump() at the end of subscribe().
WokenBySubscriber == TRUE

\* A window opens the stream: subscribe(), which starts the task if need be.
JoyConnect(w) ==
  /\ Subscribe(w)
  /\ loop' = IF loop = "none" THEN "asking" ELSE loop
  /\ wake' = WokenBySubscriber
  /\ UNCHANGED <<world, answer, lastPayload, unseen>>

\* _run up to its next wait: build the payload, emit it, clear the event. A
\* failed call gives an empty mapping.
JoyTurn(payload) ==
  /\ JoyEmit(payload)
  /\ wake' = FALSE /\ loop' = JoySleep /\ answer' = Nothing
  /\ UNCHANGED <<world, open, shown, unseen>>

JoyAnswered == loop = "asking" /\ answer # Nothing /\ JoyTurn(answer)
JoyFails == loop = "asking" /\ JoyTurn(Blank)

\* The wait ends: the event is set, or the poll interval is over.
JoyWakes ==
  /\ \/ loop = "idle" /\ wake
     \/ loop = "waiting"
  /\ loop' = "asking" /\ unseen' = FALSE
  /\ UNCHANGED <<world, answer, wake, lastPayload, subscribers, queue,
                 open, shown, gap>>

\* _connected_ticker, started with the first stream, bumps once a second.
Ticker ==
  /\ loop # "none" /\ ~wake
  /\ wake' = TRUE
  /\ UNCHANGED <<world, loop, answer, lastPayload, subscribers, queue,
                 open, shown, unseen, gap>>

JoyFeedNext ==
  \/ FeedEnvironment
  \/ \E w \in Windows : JoyConnect(w)
  \/ JoyAnswered \/ JoyFails \/ JoyWakes \/ Ticker

=============================================================================

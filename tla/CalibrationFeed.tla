--------------------------- MODULE CalibrationFeed --------------------------
(***************************************************************************)
(* _CalibrationBroadcaster and _stream_calibration of routers/kiosk.py.    *)
(***************************************************************************)
EXTENDS Feed

\* _emit of a new payload: a full queue misses it.
CalibrationEmit(payload) ==
  IF payload = lastPayload
    THEN UNCHANGED <<lastPayload, queue, gap>>
    ELSE /\ lastPayload' = payload
         /\ queue' = Fanned(payload)
         /\ gap' = gap \cup Overflown

\* subscribe(): the poll goes on as it was, or starts.
CalibrationConnect(w) ==
  /\ Subscribe(w)
  /\ loop' = IF loop = "none" THEN "asking" ELSE loop
  /\ UNCHANGED <<world, answer, wake, lastPayload, unseen>>

\* Mutant: the event is cleared before the wait, as in routers/joy.py.
ClearedWake == FALSE
\* A bump that came during the turn ends the wait that follows at once.
WakeAfterTurn == wake

CalibrationAnswered ==
  /\ loop = "asking" /\ answer # Nothing
  /\ CalibrationEmit(answer)
  /\ loop' = "waiting" /\ answer' = Nothing /\ wake' = WakeAfterTurn
  /\ UNCHANGED <<world, subscribers, open, shown, unseen>>

\* The call raises: an error frame to all, which _last_payload forgets.
CalibrationRaises ==
  /\ loop = "asking"
  /\ queue' = Fanned(ErrorFrame)
  /\ gap' = gap \cup subscribers
  /\ loop' = "waiting" /\ answer' = Nothing /\ wake' = WakeAfterTurn
  /\ UNCHANGED <<world, lastPayload, subscribers, open, shown, unseen>>

\* The bridge is not ready, or the node answers success = false.
CalibrationSkips ==
  /\ loop = "asking"
  /\ loop' = "waiting" /\ answer' = Nothing /\ wake' = WakeAfterTurn
  /\ UNCHANGED <<world, lastPayload, subscribers, queue, open, shown,
                 unseen, gap>>

\* The wait ends by the event or by the poll interval; without subscribers
\* the task ends.
CalibrationWakes ==
  /\ loop = "waiting"
  /\ wake' = FALSE /\ unseen' = FALSE
  /\ loop' = IF subscribers = {} THEN "none" ELSE "asking"
  /\ UNCHANGED <<world, answer, lastPayload, subscribers, queue, open,
                 shown, gap>>

CalibrationFeedNext ==
  \/ FeedEnvironment
  \/ \E w \in Windows : CalibrationConnect(w)
  \/ CalibrationAnswered \/ CalibrationRaises \/ CalibrationSkips
  \/ CalibrationWakes
=============================================================================

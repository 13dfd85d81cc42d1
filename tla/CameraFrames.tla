---------------------------- MODULE CameraFrames ----------------------------
(***************************************************************************)
(* The frames of the camera node (CameraNode.cpp): the set-up in the       *)
(* constructor, one processing thread per request with its mutex and its   *)
(* condition variable, the undistortion maps that the threads share, and   *)
(* the shutdown in the destructor.  The camera (libcamera) completes the   *)
(* requests in the order in which they were queued and calls back from a   *)
(* thread of its own.                                                      *)
(*                                                                         *)
(* A thread holds the mutex of its request from the wait to the end of its *)
(* turn, so the mutex is held exactly while the thread is at work.  It     *)
(* waits without a condition, and a condition variable may also return     *)
(* unasked: then the thread takes its turn with the request wherever that  *)
(* is, and queues it once more.                                            *)
(***************************************************************************)
EXTENDS Naturals, Sequences

CONSTANTS
  Buffers,    \* the requests, each with its buffer and its thread
  NoBuffer,
  MaxSets,    \* changes of the undistortion parameters
  MaxUnasked  \* waits that end unasked

ASSUME FramesAssumption == NoBuffer \notin Buffers /\ {MaxSets, MaxUnasked} \subseteq Nat

VARIABLES
  node,       \* [at, left]: where constructor and destructor are; threads still to be notified
  camera,     \* [on, queue, signal]: the request whose callback is under way
  status,     \* of a request: "idle", "pending", "complete" or "cancelled"
  thread,     \* where a processing thread is
  undistort,  \* the undistort.* parameters: focal length (0 is off) and strength
  maps,       \* undistort_maps_ [of, valid], undistort_enabled_
  local,      \* what a thread has read of the parameters
  sets,       \* history: parameter changes so far
  missed,     \* history: requests whose completion nobody waited for
  overlap,    \* history: the parameters changed while maps were being built
  unasked,    \* history: waits that ended unasked so far
  stray       \* history: requests whose thread woke unasked before they came back

framesVars == <<node, camera, status, thread, undistort, maps, local, sets, missed, overlap,
                unasked, stray>>
wakeHistory == <<unasked, stray>>

Steps == <<"select", "configure", "controls", "buffers", "threads", "start", "queue">>
NoMaps == [fx |-> 0, k |-> 0]
Undistortions == [fx : 0 .. 1, k : 0 .. 1]
Building == {"strength", "build"}
AtWork == {"work", "check", "focal", "remap", "publish"} \cup Building

FramesInit ==
  /\ node = [at |-> "select", left |-> {}]
  /\ camera = [on |-> FALSE, queue |-> << >>, signal |-> NoBuffer]
  /\ status = [b \in Buffers |-> "idle"]
  /\ thread = [b \in Buffers |-> "none"]
  /\ undistort \in Undistortions
  /\ maps = [of |-> NoMaps, valid |-> FALSE, enabled |-> FALSE]
  /\ local = [b \in Buffers |-> NoMaps]
  /\ sets = 0 /\ missed = {} /\ overlap = FALSE
  /\ unasked = 0 /\ stray = {}

Goto(b, at) == thread' = [thread EXCEPT ![b] = at]

-----------------------------------------------------------------------------
(* The constructor.                                                        *)

\* Any of its steps may throw.  The threads cannot be joined by whoever catches it:
\* once they exist, an exception ends the process.
SetUpThrows ==
  /\ node.at \in {Steps[i] : i \in 1 .. 6}
  /\ node' = [node EXCEPT !.at = "failed"]
  /\ thread' = [b \in Buffers |-> "none"]
  /\ UNCHANGED <<camera, status, undistort, maps, local, sets, missed, overlap, wakeHistory>>

\* Choose the camera, the stream and its format; declare the controls; map the buffers.
SelectCamera    == node.at = "select"    /\ node' = [node EXCEPT !.at = "configure"]
ConfigureStream == node.at = "configure" /\ node' = [node EXCEPT !.at = "controls"]
DeclareControls == node.at = "controls"  /\ node' = [node EXCEPT !.at = "buffers"]
MapBuffers      == node.at = "buffers"   /\ node' = [node EXCEPT !.at = "threads"]

Prepare ==
  /\ SelectCamera \/ ConfigureStream \/ DeclareControls \/ MapBuffers
  /\ UNCHANGED <<camera, status, thread, undistort, maps, local, sets, missed, overlap,
                 wakeHistory>>

StartThreads ==
  /\ node.at = "threads"
  /\ node' = [node EXCEPT !.at = "start"]
  /\ thread' = [b \in Buffers |-> "lock"]
  /\ UNCHANGED <<camera, status, undistort, maps, local, sets, missed, overlap, wakeHistory>>

StartCamera ==
  /\ node.at = "start"
  /\ node' = [at |-> "queue", left |-> Buffers]
  /\ camera' = [camera EXCEPT !.on = TRUE]
  /\ UNCHANGED <<status, thread, undistort, maps, local, sets, missed, overlap, wakeHistory>>

QueueFirst(b) ==
  /\ node.at = "queue" /\ b \in node.left
  /\ node' = [at |-> IF node.left = {b} THEN "up" ELSE "queue", left |-> node.left \ {b}]
  /\ status' = [status EXCEPT ![b] = "pending"]
  /\ camera' = [camera EXCEPT !.queue = Append(@, b)]
  /\ UNCHANGED <<thread, undistort, maps, local, sets, missed, overlap, wakeHistory>>

-----------------------------------------------------------------------------
(* The camera's thread, and requestComplete in it.                         *)

Completes ==
  /\ camera.on /\ camera.queue # << >> /\ camera.signal = NoBuffer
  /\ \E how \in {"complete", "cancelled"} :
       status' = [status EXCEPT ![Head(camera.queue)] = how]
  /\ camera' = [camera EXCEPT !.queue = Tail(@), !.signal = Head(camera.queue)]
  /\ UNCHANGED <<node, thread, undistort, maps, local, sets, missed, overlap, wakeHistory>>

\* Whoever does not wait yet does not hear it.
RequestComplete(b) ==
  /\ camera.signal = b /\ thread[b] \notin AtWork
  /\ camera' = [camera EXCEPT !.signal = NoBuffer]
  /\ IF thread[b] = "wait" THEN Goto(b, "woken") /\ UNCHANGED missed
     ELSE UNCHANGED thread /\ missed' = missed \cup {b}
  /\ UNCHANGED <<node, status, undistort, maps, local, sets, overlap, wakeHistory>>

-----------------------------------------------------------------------------
(* process: a turn of a request's thread.                                  *)

Waits(b) ==
  /\ thread[b] = "lock" /\ Goto(b, "wait")
  /\ UNCHANGED <<node, camera, status, undistort, maps, local, sets, missed, overlap, wakeHistory>>

\* The wait returns and nobody notified it.  It does no harm if the request is back and
\* its callback is over.
WakesUnasked(b) ==
  /\ thread[b] = "wait" /\ unasked < MaxUnasked
  /\ Goto(b, "woken")
  /\ unasked' = unasked + 1
  /\ stray' = IF status[b] \in {"complete", "cancelled"} /\ camera.signal # b
              THEN stray ELSE stray \cup {b}
  /\ UNCHANGED <<node, camera, status, undistort, maps, local, sets, missed, overlap>>

\* Mutant: the request is queued again before it is processed.
WakesEarly(b) ==
  /\ thread[b] = "woken"
  /\ Goto(b, IF node.at \in {"stop", "join"} THEN "gone" ELSE "work")
  /\ camera' = [camera EXCEPT !.queue = Append(@, b)]
  /\ UNCHANGED <<node, status, undistort, maps, local, sets, missed, overlap, wakeHistory>>
Wakes(b) ==
  /\ thread[b] = "woken"
  /\ Goto(b, IF node.at \in {"stop", "join"} THEN "gone" ELSE "work")
  /\ UNCHANGED <<node, camera, status, undistort, maps, local, sets, missed, overlap, wakeHistory>>

\* A complete request is published, a cancelled one only queued again.
Works(b) ==
  /\ thread[b] = "work"
  /\ Goto(b, IF status[b] = "complete" THEN "check" ELSE "publish")
  /\ UNCHANGED <<node, camera, status, undistort, maps, local, sets, missed, overlap, wakeHistory>>

\* Under the maps' mutex, given up again before they are built.
ChecksMaps(b) ==
  /\ thread[b] = "check"
  /\ Goto(b, IF maps.valid THEN "remap" ELSE "focal")
  /\ UNCHANGED <<node, camera, status, undistort, maps, local, sets, missed, overlap, wakeHistory>>

\* build_undistort_maps reads the parameters one by one ...
ReadsFocal(b) ==
  /\ thread[b] = "focal" /\ Goto(b, "strength")
  /\ local' = [local EXCEPT ![b].fx = undistort.fx]
  /\ UNCHANGED <<node, camera, status, undistort, maps, sets, missed, overlap, wakeHistory>>

ReadsStrength(b) ==
  /\ thread[b] = "strength" /\ Goto(b, "build")
  /\ local' = [local EXCEPT ![b].k = undistort.k]
  /\ UNCHANGED <<node, camera, status, undistort, maps, sets, missed, overlap, wakeHistory>>

\* ... and writes the maps under the mutex.  A focal length of 0 leaves them to be
\* looked at again with every frame.
BuildsMaps(b) ==
  /\ thread[b] = "build" /\ Goto(b, "remap")
  /\ maps' = IF local[b].fx = 0 THEN [maps EXCEPT !.enabled = FALSE]
             ELSE [of |-> local[b], valid |-> TRUE, enabled |-> TRUE]
  /\ local' = [local EXCEPT ![b] = NoMaps]
  /\ UNCHANGED <<node, camera, status, undistort, sets, missed, overlap, wakeHistory>>

Remaps(b) ==
  /\ thread[b] = "remap" /\ Goto(b, "publish")
  /\ UNCHANGED <<node, camera, status, undistort, maps, local, sets, missed, overlap, wakeHistory>>

\* Mutant: a cancelled request is not queued again.
PublishesOnly(b) ==
  /\ thread[b] = "publish" /\ Goto(b, "lock")
  /\ IF status[b] = "complete"
     THEN /\ status' = [status EXCEPT ![b] = "pending"]
          /\ camera' = [camera EXCEPT !.queue = Append(@, b)]
     ELSE UNCHANGED <<status, camera>>
  /\ missed' = missed \ {b}
  /\ UNCHANGED <<node, undistort, maps, local, sets, overlap, wakeHistory>>
\* Published; reuse() and queueRequest, then the mutex is given up.  A camera that has
\* not been started takes no request.
Publishes(b) ==
  /\ thread[b] = "publish" /\ Goto(b, "lock")
  /\ status' = [status EXCEPT ![b] = "pending"]
  /\ camera' = [camera EXCEPT !.queue = IF camera.on THEN Append(@, b) ELSE @]
  /\ missed' = missed \ {b}
  /\ UNCHANGED <<node, undistort, maps, local, sets, overlap, wakeHistory>>

Process(b) == \/ Waits(b) \/ WakesUnasked(b) \/ Wakes(b) \/ Works(b) \/ ChecksMaps(b)
              \/ ReadsFocal(b) \/ ReadsStrength(b) \/ BuildsMaps(b) \/ Remaps(b) \/ Publishes(b)

-----------------------------------------------------------------------------
\* Mutant: the maps are left as they are.
SetsQuietly ==
  /\ node.at = "up" /\ sets < MaxSets
  /\ undistort' \in Undistortions \ {undistort}
  /\ sets' = sets + 1
  /\ overlap' = (\E b \in Buffers : thread[b] \in Building)
  /\ UNCHANGED <<node, camera, status, thread, maps, local, missed, wakeHistory>>
\* The parameters are set, then postParameterChange makes the maps invalid: a reader
\* of the parameters sees all of it or nothing.
SetsUndistort ==
  /\ node.at = "up" /\ sets < MaxSets
  /\ undistort' \in Undistortions \ {undistort}
  /\ sets' = sets + 1
  /\ maps' = [maps EXCEPT !.valid = FALSE]
  /\ overlap' = (\E b \in Buffers : thread[b] \in Building)
  /\ UNCHANGED <<node, camera, status, thread, local, missed, wakeHistory>>

-----------------------------------------------------------------------------
(* The destructor.  The callbacks were connected to the node, so to disconnect  *)
(* them from the requests leaves them as they are.                              *)

Stops ==
  /\ node.at = "up"
  /\ node' = [at |-> "stop", left |-> Buffers]
  /\ UNCHANGED <<camera, status, thread, undistort, maps, local, sets, missed, overlap,
                 wakeHistory>>

NotifiesAll(b) ==
  /\ node.at = "stop" /\ b \in node.left
  /\ node' = [at |-> IF node.left = {b} THEN "join" ELSE "stop", left |-> node.left \ {b}]
  /\ thread' = [thread EXCEPT ![b] = IF @ = "wait" THEN "woken" ELSE @]
  /\ UNCHANGED <<camera, status, undistort, maps, local, sets, missed, overlap, wakeHistory>>

\* All threads are joined, the camera is stopped, the buffers are freed and unmapped.
Frees ==
  /\ node.at = "join" /\ \A b \in Buffers : thread[b] = "gone"
  /\ node' = [node EXCEPT !.at = "freed"]
  /\ camera' = [on |-> FALSE, queue |-> << >>, signal |-> NoBuffer]
  /\ UNCHANGED <<status, thread, undistort, maps, local, sets, missed, overlap, wakeHistory>>

FramesNext ==
  \/ SetUpThrows \/ Prepare \/ StartThreads \/ StartCamera \/ Completes
  \/ SetsUndistort \/ Stops \/ Frees
  \/ \E b \in Buffers : QueueFirst(b) \/ RequestComplete(b) \/ Process(b) \/ NotifiesAll(b)

FramesSpec == FramesInit /\ [][FramesNext]_framesVars

-----------------------------------------------------------------------------
(* The buffer of a request at work is not with the camera: the frame that  *)
(* is copied, undistorted and published is the one that was completed, and *)
(* no request is queued twice. One thread that wakes unasked while the     *)
(* camera has its request breaks this for that request, and only for it    *)
(* (process, requestComplete).                                             *)
BufferIsOurs ==
  \A b \in Buffers \ stray : thread[b] \in AtWork =>
    status[b] \in {"complete", "cancelled"} /\ \A i \in DOMAIN camera.queue : camera.queue[i] # b

(* No request goes astray: a thread that waits has its request at the      *)
(* camera or its callback under way, unless the callback came in the short *)
(* time in which the thread held nothing (process: the wait has no         *)
(* condition).                                                             *)
FramesComeBack ==
  \A b \in Buffers : node.at = "up" /\ thread[b] = "wait" /\ b \notin missed =>
    b = camera.signal \/ \E i \in DOMAIN camera.queue : camera.queue[i] = b

\* "rebuild on next frame" (CameraNode.cpp:853): maps that are taken for valid are
\* those of the parameters.
MapsFollowParameters ==
  maps.valid /\ (\A b \in Buffers : thread[b] \notin Building \cup {"focal"}) =>
    maps.enabled /\ maps.of = undistort

(* The same, for parameters that did not change while maps were built.     *)
MapsFollowQuietParameters == ~overlap => MapsFollowParameters
=============================================================================

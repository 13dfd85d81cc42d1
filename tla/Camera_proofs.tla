---------------------------- MODULE Camera_proofs ---------------------------
(***************************************************************************)
(* The camera node.                                                        *)
(*   - Frames, for any number of buffers and of wake-ups that nobody asked *)
(*     for: a request is in one place unless its thread woke unasked, and  *)
(*     the undistortion maps follow the parameters.                        *)
(*   - Controls, for any number of buffers, values and lists of settings:  *)
(*     the exposure is never automatic and fixed at once, and the camera   *)
(*     has what the parameters say.                                        *)
(*   - Values, for any limits and default that a camera offers: only a     *)
(*     default that does not fit its control is refused.                   *)
(***************************************************************************)
EXTENDS CameraFrames, CameraControls, ControlValues, FiniteSetTheorems,
        WellFoundedInduction, SequenceTheorems, TLAPS

(* A set of numbers that is not empty has a least one: what an induction   *)
(* over the length of a list rests on here.                                *)
LEMMA LeastNatural ==
  ASSUME NEW T \in SUBSET Nat, T # {}
  PROVE  \E x \in T : \A y \in T : x <= y
<1>1. PICK x \in T : \A y \in T : ~(<<y, x>> \in OpToRel(<, Nat))
  BY NatLessThanWellFounded, WFMin
<1>2. \A y \in T : ~(y < x)
  BY <1>1 DEF OpToRel
<1> QED BY <1>2

-----------------------------------------------------------------------------
\* Frames

Has(q, b) == \E i \in DOMAIN q : q[i] = b
Once(q, b) == \A i, j \in DOMAIN q : q[i] = b /\ q[j] = b => i = j

(* A queue of requests after one is appended or taken.                     *)
LEMMA AppendToQueue ==
  ASSUME NEW S, NEW q \in Seq(S), NEW b \in S
  PROVE  /\ Append(q, b) \in Seq(S)
         /\ \A x : Has(Append(q, b), x) <=> Has(q, x) \/ x = b
         /\ \A x : Once(q, x) /\ x # b => Once(Append(q, b), x)
         /\ ~Has(q, b) => Once(Append(q, b), b)
<1>1. /\ Append(q, b) \in Seq(S) /\ Len(Append(q, b)) = Len(q) + 1
      /\ \A i \in 1 .. Len(q) : Append(q, b)[i] = q[i]
      /\ Append(q, b)[Len(q) + 1] = b
  BY AppendProperties
<1>2. /\ DOMAIN q = 1 .. Len(q) /\ DOMAIN Append(q, b) = 1 .. Len(q) + 1 /\ Len(q) \in Nat
  BY <1>1, LenProperties
<1> QED BY <1>1, <1>2 DEF Has, Once

LEMMA TakeFromQueue ==
  ASSUME NEW S, NEW q \in Seq(S), q # << >>
  PROVE  /\ Tail(q) \in Seq(S) /\ Head(q) \in S /\ Has(q, Head(q))
         /\ \A x : Has(Tail(q), x) => Has(q, x)
         /\ \A x : Has(q, x) /\ x # Head(q) => Has(Tail(q), x)
         /\ \A x : Once(q, x) => Once(Tail(q), x)
         /\ Once(q, Head(q)) => ~Has(Tail(q), Head(q))
<1>1. /\ Tail(q) \in Seq(S) /\ Head(q) \in S /\ Head(q) = q[1]
      /\ Len(Tail(q)) = Len(q) - 1
      /\ \A i \in 1 .. Len(Tail(q)) : Tail(q)[i] = q[i + 1]
  BY HeadTailProperties
<1>2. /\ DOMAIN q = 1 .. Len(q) /\ DOMAIN Tail(q) = 1 .. Len(q) - 1 /\ Len(q) \in Nat
      /\ Len(q) > 0
  BY <1>1, LenProperties, EmptySeq
<1>3. ASSUME NEW x, NEW i \in DOMAIN q, q[i] = x, x # Head(q) PROVE Has(Tail(q), x)
  <2>1. i - 1 \in DOMAIN Tail(q) /\ Tail(q)[i - 1] = x
    BY <1>1, <1>2, <1>3
  <2> QED BY <2>1 DEF Has
<1>4. ASSUME NEW i \in DOMAIN Tail(q)
      PROVE  i + 1 \in DOMAIN q /\ Tail(q)[i] = q[i + 1] /\ i + 1 # 1 /\ i \in Nat
  BY <1>1, <1>2
<1>5. ASSUME NEW x, Once(q, x) PROVE Once(Tail(q), x)
  BY <1>4, <1>5 DEF Once
<1>6. 1 \in DOMAIN q
  BY <1>2
<1>7. ASSUME NEW i \in DOMAIN Tail(q)
      PROVE  /\ Has(q, Tail(q)[i])
             /\ Once(q, Head(q)) => Tail(q)[i] # Head(q)
  BY <1>1, <1>4, <1>6 DEF Has, Once
<1> QED BY <1>1, <1>3, <1>5, <1>6, <1>7 DEF Has

-----------------------------------------------------------------------------
Done == {"complete", "cancelled"}
SettingUp == {"select", "configure", "controls", "buffers", "threads", "start"}

Nodes == [at : SettingUp \cup {"queue", "up", "stop", "join", "freed", "failed"},
          left : SUBSET Buffers]
Cameras == [on : BOOLEAN, queue : Seq(Buffers), signal : Buffers \cup {NoBuffer}]

FramesTypes ==
  /\ node \in Nodes /\ camera \in Cameras
  /\ status \in [Buffers -> {"idle", "pending"} \cup Done]
  /\ thread \in [Buffers -> {"none", "lock", "wait", "woken", "gone"} \cup AtWork]
  /\ missed \subseteq Buffers /\ stray \subseteq Buffers

\* The camera's thread has the request: it waits in the queue, or its callback is under way.
WithCamera(b) == Has(camera.queue, b) \/ camera.signal = b

\* The request's own thread has it.
WithThread(b) ==
  thread[b] \in AtWork \/ (thread[b] = "woken" /\ node.at \in {"queue", "up"})

\* A request whose thread never woke unasked in its absence is in one place, and it is
\* completed exactly when it comes back.
OneHolder ==
  \A b \in Buffers \ stray :
    /\ Once(camera.queue, b)
    /\ Has(camera.queue, b) => status[b] \notin Done /\ camera.signal # b
    /\ camera.signal = b => status[b] \in Done
    /\ WithThread(b) => ~WithCamera(b) /\ status[b] \in Done

\* Before it is first queued nobody has it.
NotYetQueued ==
  \A b \in Buffers \ stray :
    \/ node.at \in SettingUp \cup {"failed"}
    \/ node.at = "queue" /\ b \in node.left
    => ~WithCamera(b) /\ ~WithThread(b) /\ status[b] \notin Done

\* The threads start before the camera, and are joined before the buffers are freed.
Lifetimes ==
  /\ node.at \in {"queue", "up"} => camera.on
  /\ \A b \in Buffers :
       /\ node.at \in (SettingUp \ {"start"}) \cup {"failed"} => thread[b] = "none"
       /\ node.at = "start" /\ b \notin stray => thread[b] \in {"lock", "wait"}
       /\ node.at = "freed" => thread[b] = "gone"

\* While the node is up somebody has each request, but for those whose callback went
\* unheard.
NobodyForgotten ==
  \A b \in Buffers :
    node.at = "up" \/ (node.at = "queue" /\ b \notin node.left) =>
      WithCamera(b) \/ WithThread(b) \/ b \in missed

\* Where each request is.
Placed == OneHolder /\ NotYetQueued /\ Lifetimes /\ NobodyForgotten

FramesInv == FramesTypes /\ Placed

LEMMA StepsAreSettingUp == {Steps[i] : i \in 1 .. 6} = SettingUp
  BY DEF Steps, SettingUp

LEMMA FramesTypesInit == FramesInit => FramesTypes
  BY EmptySeq DEF FramesInit, FramesTypes, Nodes, Cameras, SettingUp

LEMMA FramesTypesNext == FramesTypes /\ [FramesNext]_framesVars => FramesTypes'
<1> SUFFICES ASSUME FramesTypes, [FramesNext]_framesVars PROVE FramesTypes'
  OBVIOUS
<1> USE FramesAssumption DEF FramesTypes, Done, wakeHistory
<1>1. CASE SetUpThrows \/ Prepare \/ StartThreads \/ StartCamera
  <2>1. node' \in Nodes
    BY <1>1
       DEF SetUpThrows, Prepare, SelectCamera, ConfigureStream, DeclareControls, MapBuffers,
           StartThreads, StartCamera, Nodes, SettingUp
  <2>2. camera' \in Cameras
    BY <1>1 DEF SetUpThrows, Prepare, StartThreads, StartCamera, Cameras
  <2>3. thread' \in [Buffers -> {"none", "lock", "wait", "woken", "gone"} \cup AtWork]
    BY <1>1 DEF SetUpThrows, Prepare, StartThreads, StartCamera
  <2> QED
    BY <1>1, <2>1, <2>2, <2>3 DEF SetUpThrows, Prepare, StartThreads, StartCamera
<1>2. CASE Completes
  <2>1. /\ Tail(camera.queue) \in Seq(Buffers) /\ Head(camera.queue) \in Buffers
    BY <1>2, HeadTailProperties DEF Completes, Cameras
  <2>2. camera' \in Cameras
    BY <1>2, <2>1 DEF Completes, Cameras
  <2>3. status' \in [Buffers -> {"idle", "pending"} \cup Done]
    BY <1>2, <2>1 DEF Completes
  <2> QED BY <1>2, <2>2, <2>3 DEF Completes
<1>3. CASE SetsUndistort \/ Stops \/ Frees
  <2>1. node' \in Nodes
    <3>1. CASE SetsUndistort
      BY <3>1 DEF SetsUndistort
    <3>2. CASE Stops
      BY <3>2 DEF Stops, Nodes
    <3>3. CASE Frees
      BY <3>3 DEF Frees, Nodes
    <3> QED BY <1>3, <3>1, <3>2, <3>3
  <2>2. camera' \in Cameras
    <3>1. << >> \in Seq(Buffers)
      BY EmptySeq
    <3>2. CASE Frees
      BY <3>1, <3>2 DEF Frees, Cameras
    <3> QED BY <1>3, <3>2 DEF SetsUndistort, Stops
  <2> QED BY <1>3, <2>1, <2>2 DEF SetsUndistort, Stops, Frees
<1>4. ASSUME NEW b \in Buffers, QueueFirst(b) \/ Publishes(b) PROVE FramesTypes'
  <2>1. Append(camera.queue, b) \in Seq(Buffers)
    BY AppendProperties DEF Cameras
  <2>2. camera' \in Cameras
    <3>1. CASE QueueFirst(b)
      BY <2>1, <3>1 DEF QueueFirst, Cameras
    <3>2. CASE Publishes(b)
      BY <2>1, <3>2 DEF Publishes, Cameras
    <3> QED BY <1>4, <3>1, <3>2
  <2>3. node' \in Nodes
    BY <1>4 DEF QueueFirst, Publishes, Nodes
  <2> QED BY <1>4, <2>2, <2>3 DEF QueueFirst, Publishes, Goto
<1>5. ASSUME NEW b \in Buffers, RequestComplete(b) \/ NotifiesAll(b) PROVE FramesTypes'
  <2>1. camera' \in Cameras
    BY <1>5 DEF RequestComplete, NotifiesAll, Cameras
  <2>2. node' \in Nodes
    BY <1>5 DEF RequestComplete, NotifiesAll, Nodes
  <2> QED BY <1>5, <2>1, <2>2 DEF RequestComplete, NotifiesAll, Goto
<1>6. ASSUME NEW b \in Buffers,
             \/ Waits(b) \/ WakesUnasked(b) \/ Wakes(b) \/ Works(b) \/ ChecksMaps(b)
             \/ ReadsFocal(b) \/ ReadsStrength(b) \/ BuildsMaps(b) \/ Remaps(b)
      PROVE FramesTypes'
  BY <1>6
     DEF Waits, WakesUnasked, Wakes, Works, ChecksMaps, ReadsFocal, ReadsStrength, BuildsMaps,
         Remaps, Goto, AtWork, Building, wakeHistory
<1>7. CASE UNCHANGED framesVars
  BY <1>7 DEF framesVars
<1> QED
  BY <1>1, <1>2, <1>3, <1>4, <1>5, <1>6, <1>7 DEF FramesNext, Process

LEMMA FramesInvNext == FramesInv /\ [FramesNext]_framesVars => FramesInv'
<1> SUFFICES ASSUME FramesInv, [FramesNext]_framesVars PROVE FramesInv'
  OBVIOUS
<1>t. FramesTypes'
  BY FramesTypesNext DEF FramesInv
<1> USE FramesAssumption
    DEF FramesInv, FramesTypes, Nodes, Cameras, Placed, OneHolder, NotYetQueued, Lifetimes,
        NobodyForgotten, WithCamera, WithThread, Done, SettingUp, AtWork, Building, wakeHistory
<1> SUFFICES Placed'
  BY <1>t
<1>1. CASE SetUpThrows \/ Prepare \/ StartThreads \/ StartCamera
  <2>1. UNCHANGED <<camera.queue, camera.signal, status, missed, stray>>
    BY <1>1 DEF SetUpThrows, Prepare, StartThreads, StartCamera
  <2>2. CASE SetUpThrows
    <3>1. node.at \in SettingUp /\ node'.at = "failed" /\ \A b \in Buffers : thread'[b] = "none"
      BY <2>2, StepsAreSettingUp DEF SetUpThrows
    <3> QED BY <2>1, <3>1
  <2>3. CASE Prepare
    BY <2>1, <2>3 DEF Prepare, SelectCamera, ConfigureStream, DeclareControls, MapBuffers
  <2>4. CASE StartThreads
    BY <2>1, <2>4 DEF StartThreads
  <2>5. CASE StartCamera
    BY <2>1, <2>5 DEF StartCamera
  <2> QED BY <1>1, <2>2, <2>3, <2>4, <2>5
<1>2. CASE Completes
  <2> DEFINE h == Head(camera.queue)
             q == Tail(camera.queue)
  <2>1. /\ h \in Buffers /\ Has(camera.queue, h)
        /\ \A x : Has(q, x) => Has(camera.queue, x)
        /\ \A x : Has(camera.queue, x) /\ x # h => Has(q, x)
        /\ \A x : Once(camera.queue, x) => Once(q, x)
        /\ Once(camera.queue, h) => ~Has(q, h)
    BY <1>2, TakeFromQueue DEF Completes
  <2>2. /\ camera'.queue = q /\ camera'.signal = h /\ camera'.on = camera.on
        /\ status'[h] \in Done /\ \A b \in Buffers \ {h} : status'[b] = status[b]
        /\ UNCHANGED <<node, thread, missed, stray>> /\ camera.signal = NoBuffer
    <3>1. /\ camera'.queue = q /\ camera'.signal = h /\ camera'.on = camera.on
          /\ camera.signal = NoBuffer
      BY <1>2 DEF Completes
    <3>2. /\ status'[h] \in Done /\ \A b \in Buffers \ {h} : status'[b] = status[b]
      <4>1. PICK how \in Done : status' = [status EXCEPT ![h] = how]
        BY <1>2 DEF Completes
      <4>2. status \in [Buffers -> {"idle", "pending"} \cup Done]
        OBVIOUS
      <4> HIDE DEF h
      <4> QED BY ONLY <2>1, <4>1, <4>2
    <3>3. UNCHANGED <<node, thread, missed, stray>>
      BY <1>2 DEF Completes
    <3> QED BY <3>1, <3>2, <3>3
  <2> HIDE DEF h, q
  <2>3. OneHolder'
    BY <2>1, <2>2
  <2> QED BY <2>1, <2>2, <2>3
<1>3. ASSUME NEW b \in Buffers, RequestComplete(b)
      PROVE  Placed'
  <2>1. /\ camera.signal = b /\ thread[b] \notin AtWork /\ camera'.signal = NoBuffer
        /\ camera'.queue = camera.queue /\ camera'.on = camera.on
        /\ UNCHANGED <<node, status, stray>>
        /\ \/ thread[b] = "wait" /\ thread' = [thread EXCEPT ![b] = "woken"] /\ missed' = missed
           \/ thread' = thread /\ missed' = missed \cup {b}
    BY <1>3 DEF RequestComplete, Goto
  <2> QED BY <2>1
<1>4. ASSUME NEW b \in Buffers, QueueFirst(b)
      PROVE  Placed'
  <2>1. /\ camera'.queue = Append(camera.queue, b) /\ camera'.signal = camera.signal
        /\ camera'.on = camera.on
        /\ status' = [status EXCEPT ![b] = "pending"] /\ UNCHANGED <<thread, missed, stray>>
        /\ node.at = "queue" /\ b \in node.left
        /\ node'.at \in {"queue", "up"} /\ node'.left = node.left \ {b}
        /\ node'.at = "up" => node'.left = {}
    BY <1>4 DEF QueueFirst
  <2>2. b \notin stray => ~WithCamera(b) /\ ~WithThread(b)
    BY <2>1
  <2>3. /\ \A x : Has(camera'.queue, x) <=> Has(camera.queue, x) \/ x = b
        /\ \A x : Once(camera.queue, x) /\ x # b => Once(camera'.queue, x)
        /\ b \notin stray => Once(camera'.queue, b)
    BY <2>1, <2>2, AppendToQueue
  <2>4. OneHolder'
    BY <2>1, <2>2, <2>3
  <2> QED BY <2>1, <2>3, <2>4
<1>5. ASSUME NEW b \in Buffers, Publishes(b)
      PROVE  Placed'
  <2>1. /\ camera'.signal = camera.signal /\ camera'.on = camera.on
        /\ camera'.queue = IF camera.on THEN Append(camera.queue, b) ELSE camera.queue
        /\ status' = [status EXCEPT ![b] = "pending"] /\ thread' = [thread EXCEPT ![b] = "lock"]
        /\ missed' = missed \ {b} /\ UNCHANGED <<node, stray>> /\ thread[b] = "publish"
    BY <1>5 DEF Publishes, Goto
  <2>2. WithThread(b) /\ (b \notin stray => ~WithCamera(b))
    BY <2>1
  <2>3. /\ \A x : x # b => (Has(camera'.queue, x) <=> Has(camera.queue, x))
        /\ camera.on => Has(camera'.queue, b)
        /\ \A x : Once(camera.queue, x) /\ x # b => Once(camera'.queue, x)
        /\ b \notin stray => Once(camera'.queue, b)
    BY <2>1, <2>2, AppendToQueue
  <2>4. OneHolder'
    BY <2>1, <2>2, <2>3
  <2>5. NotYetQueued'
    BY <2>1, <2>2, <2>3
  <2> QED BY <2>1, <2>3, <2>4, <2>5
<1>6. ASSUME NEW b \in Buffers, NotifiesAll(b)
      PROVE  Placed'
  BY <1>6 DEF NotifiesAll
<1>7. ASSUME NEW b \in Buffers, WakesUnasked(b)
      PROVE  Placed'
  <2>1. /\ thread[b] = "wait" /\ thread' = [thread EXCEPT ![b] = "woken"]
        /\ UNCHANGED <<node, camera, status, missed>>
        /\ stray \subseteq stray' /\ stray' \subseteq stray \cup {b}
        /\ b \notin stray' => status[b] \in Done /\ camera.signal # b
    BY <1>7 DEF WakesUnasked, Goto
  <2>2. OneHolder'
    BY <2>1
  <2>3. NotYetQueued'
    BY <2>1
  <2> QED BY <2>1, <2>2, <2>3
<1>8. ASSUME NEW b \in Buffers,
             \/ Waits(b) \/ Wakes(b) \/ Works(b) \/ ChecksMaps(b) \/ ReadsFocal(b)
             \/ ReadsStrength(b) \/ BuildsMaps(b) \/ Remaps(b)
      PROVE Placed'
  <2>1. UNCHANGED <<node, camera, status, missed, stray>>
    BY <1>8
       DEF Waits, Wakes, Works, ChecksMaps, ReadsFocal, ReadsStrength, BuildsMaps, Remaps
  <2>2. CASE Waits(b)
    BY <2>1, <2>2 DEF Waits, Goto
  <2>3. CASE Wakes(b)
    BY <2>1, <2>3 DEF Wakes, Goto
  <2>4. ASSUME NEW at \in AtWork, thread[b] \in AtWork, thread' = [thread EXCEPT ![b] = at]
        PROVE  Placed'
    BY <2>1, <2>4
  <2> QED
    BY <1>8, <2>2, <2>3, <2>4
       DEF Works, ChecksMaps, ReadsFocal, ReadsStrength, BuildsMaps, Remaps, Goto
<1>9. CASE SetsUndistort
  BY <1>9 DEF SetsUndistort
<1>10. CASE Stops
  BY <1>10 DEF Stops
<1>11. CASE Frees
  <2>1. ASSUME NEW x PROVE ~Has(<< >>, x) /\ Once(<< >>, x)
    BY EmptySeq, LenProperties DEF Has, Once
  <2>2. /\ camera'.queue = << >> /\ camera'.signal = NoBuffer /\ node'.at = "freed"
        /\ thread' = thread /\ stray' = stray /\ \A b \in Buffers : thread[b] = "gone"
    BY <1>11 DEF Frees
  <2> QED BY <2>1, <2>2
<1>12. CASE UNCHANGED framesVars
  BY <1>12 DEF framesVars
<1> QED
  BY <1>1, <1>2, <1>3, <1>4, <1>5, <1>6, <1>7, <1>8, <1>9, <1>10, <1>11, <1>12
  DEF FramesNext, Process

LEMMA FramesInvInit == FramesInit => FramesInv
<1> SUFFICES ASSUME FramesInit PROVE FramesInv
  OBVIOUS
<1>1. ASSUME NEW x PROVE ~Has(<< >>, x) /\ Once(<< >>, x)
  BY EmptySeq, LenProperties DEF Has, Once
<1>2. /\ node.at = "select" /\ camera.queue = << >> /\ camera.signal = NoBuffer
      /\ \A b \in Buffers : thread[b] = "none" /\ status[b] = "idle"
  BY DEF FramesInit
<1> QED
  BY <1>1, <1>2, FramesTypesInit, FramesAssumption
     DEF FramesInv, Placed, OneHolder, NotYetQueued, Lifetimes, NobodyForgotten, WithCamera,
         WithThread, SettingUp, AtWork, Building, Done

LEMMA FramesSpecInv == FramesSpec => []FramesInv
  BY FramesInvInit, FramesInvNext, PTL DEF FramesSpec

(* Whatever completes, is cancelled or is stopped: a frame being processed *)
(* is not with the camera, unless its own thread woke unasked while it was *)
(* (process, requestComplete).                                             *)
THEOREM BufferAlwaysOurs == FramesSpec => []BufferIsOurs
<1>1. FramesInv => BufferIsOurs
  BY DEF FramesInv, Placed, OneHolder, WithThread, WithCamera, Has, BufferIsOurs, Done
<1> QED BY <1>1, FramesSpecInv, PTL

(* For any number of requests, none goes astray but those whose callback   *)
(* came while their thread held nothing.                                   *)
THEOREM FramesAlwaysComeBack == FramesSpec => []FramesComeBack
<1>1. FramesInv => FramesComeBack
  BY DEF FramesInv, Placed, NobodyForgotten, WithThread, WithCamera, Has, FramesComeBack,
         AtWork, Building
<1> QED BY <1>1, FramesSpecInv, PTL

-----------------------------------------------------------------------------
(* The maps.  A thread that is between reading the parameters and building *)
(* from them has read the parameters of now, unless they changed meanwhile. *)
MapsTypes ==
  /\ undistort \in Undistortions /\ overlap \in BOOLEAN
  /\ local \in [Buffers -> Undistortions]
  /\ maps \in [of : Undistortions, valid : BOOLEAN, enabled : BOOLEAN]
  /\ DOMAIN thread = Buffers

ReadIsCurrent ==
  \A b \in Buffers : ~overlap =>
    /\ thread[b] \in Building => local[b].fx = undistort.fx
    /\ thread[b] = "build" => local[b].k = undistort.k

ValidIsCurrent ==
  maps.valid => maps.of.fx # 0 /\ (~overlap => maps.enabled /\ maps.of = undistort)

MapsInv == MapsTypes /\ ReadIsCurrent /\ ValidIsCurrent

LEMMA MapsInvInit == FramesInit => MapsInv
<1> SUFFICES ASSUME FramesInit PROVE MapsInv
  OBVIOUS
<1>1. NoMaps \in Undistortions
  BY DEF NoMaps, Undistortions
<1>2. maps \in [of : Undistortions, valid : BOOLEAN, enabled : BOOLEAN] /\ ~maps.valid
  BY <1>1 DEF FramesInit
<1> QED
  BY <1>1, <1>2 DEF FramesInit, MapsInv, MapsTypes, ReadIsCurrent, ValidIsCurrent, Building

LEMMA MapsInvNext == MapsInv /\ [FramesNext]_framesVars => MapsInv'
<1> SUFFICES ASSUME MapsInv, [FramesNext]_framesVars PROVE MapsInv'
  OBVIOUS
<1> USE DEF MapsInv, MapsTypes, ReadIsCurrent, ValidIsCurrent, Undistortions, NoMaps, Building
<1>1. CASE SetUpThrows \/ Prepare \/ StartThreads \/ StartCamera
  BY <1>1 DEF SetUpThrows, Prepare, StartThreads, StartCamera
<1>2. CASE Completes \/ Stops \/ Frees \/ UNCHANGED framesVars
  BY <1>2 DEF Completes, Stops, Frees, framesVars
<1>3. CASE SetsUndistort
  BY <1>3 DEF SetsUndistort
<1>4. ASSUME NEW b \in Buffers,
             \/ QueueFirst(b) \/ RequestComplete(b) \/ NotifiesAll(b)
             \/ Waits(b) \/ WakesUnasked(b) \/ Wakes(b) \/ Works(b) \/ ChecksMaps(b)
             \/ Remaps(b) \/ Publishes(b)
      PROVE MapsInv'
  BY <1>4
     DEF QueueFirst, RequestComplete, NotifiesAll, Waits, WakesUnasked, Wakes, Works, ChecksMaps,
         Remaps, Publishes, Goto
<1>5. ASSUME NEW b \in Buffers, ReadsFocal(b) PROVE MapsInv'
  BY <1>5 DEF ReadsFocal, Goto
<1>6. ASSUME NEW b \in Buffers, ReadsStrength(b) PROVE MapsInv'
  BY <1>6 DEF ReadsStrength, Goto
<1>7. ASSUME NEW b \in Buffers, BuildsMaps(b) PROVE MapsInv'
  <2>1. /\ thread[b] = "build" /\ thread' = [thread EXCEPT ![b] = "remap"]
        /\ local' = [local EXCEPT ![b] = NoMaps] /\ UNCHANGED <<undistort, overlap>>
    BY <1>7 DEF BuildsMaps, Goto
  <2>2. MapsTypes' /\ ReadIsCurrent'
    <3>1. maps' \in [of : Undistortions, valid : BOOLEAN, enabled : BOOLEAN]
      BY <1>7 DEF BuildsMaps
    <3> QED BY <2>1, <3>1
  <2>3. ~overlap => local[b] = undistort
    BY <2>1
  <2>4. CASE local[b].fx = 0
    <3>1. maps' = [maps EXCEPT !.enabled = FALSE]
      BY <1>7, <2>4 DEF BuildsMaps
    <3> QED BY <2>1, <2>2, <2>3, <2>4, <3>1
  <2>5. CASE local[b].fx # 0
    <3>1. maps' = [of |-> local[b], valid |-> TRUE, enabled |-> TRUE]
      BY <1>7, <2>5 DEF BuildsMaps
    <3> QED BY <2>1, <2>2, <2>3, <2>5, <3>1
  <2> QED BY <2>4, <2>5
<1> QED
  BY <1>1, <1>2, <1>3, <1>4, <1>5, <1>6, <1>7 DEF FramesNext, Process

(* Maps that are taken for valid are those of the parameters, unless these *)
(* changed while maps were being built (build_undistort_maps,              *)
(* postParameterChange).                                                   *)
THEOREM MapsAlwaysFollowQuietParameters == FramesSpec => []MapsFollowQuietParameters
<1>1. MapsInv => MapsFollowQuietParameters
  BY DEF MapsInv, ValidIsCurrent, MapsFollowQuietParameters, MapsFollowParameters
<1> QED BY <1>1, MapsInvInit, MapsInvNext, PTL DEF FramesSpec

-----------------------------------------------------------------------------
\* Controls

(* Once no request is reused while the camera has it, a request that a     *)
(* thread is about to queue is not at the camera.                          *)
QueueInOrder ==
  ~reused => \A i \in DOMAIN queued : turn[queued[i]] # "queue"

Requested(c) == Narrow(params[c])

(* The value of c the parameters have is the one the camera is given last: *)
(* it is with the thread that took c last, or with the camera as the last  *)
(* request that carries c, or has been applied.                            *)
Coming(c) ==
  LET b == latest[c]
  IN turn[b] = "queue" /\ carries[b][c] = Requested(c)
Asked(c) ==
  \E k \in DOMAIN queued :
    /\ queued[k] = latest[c] /\ carries[queued[k]][c] = Requested(c)
    /\ \A j \in DOMAIN queued : j > k => carries[queued[j]][c] = Unset
InForce(c) ==
  /\ applied[c] = Requested(c)
  /\ \A j \in DOMAIN queued : carries[queued[j]][c] = Unset
  /\ turn[latest[c]] = "queue" => carries[latest[c]][c] = Unset

LastIsCurrent ==
  \A c \in Names \ lost :
    ~reused /\ control[c] = Unset /\ HasValue(c) => Coming(c) \/ Asked(c) \/ InForce(c)

Values == Nat \ {Undeclared}
ControlTypes ==
  /\ params \in [Names -> Nat] /\ control \in [Names -> Values]
  /\ stored \in Values
  /\ turn \in [Requests -> {"camera", "redeclare", "declare", "take", "queue"}]
  /\ carries \in [Requests -> [Names -> Values]] /\ applied \in [Names -> Values]
  /\ queued \in Seq(Requests) /\ latest \in [Names -> Requests]
  /\ pass \in [Requests -> 1 .. 3]

ControlsInv ==
  ControlTypes /\ ExposureExclusive /\ TakenIsCurrent /\ QueueInOrder /\ LastIsCurrent

(* Some of the first n numbers have a last one.                            *)
LEMMA LastOfSome ==
  ASSUME NEW n \in Nat, NEW P \in SUBSET (1 .. n), P # {}
  PROVE  Max(P) \in P /\ \A j \in P : j <= Max(P)
<1> DEFINE T == {n - i : i \in P}
<1>1. T \in SUBSET Nat /\ T # {}
  <2>1. \A i \in P : n - i \in Nat
    OBVIOUS
  <2> QED BY <2>1
<1>2. PICK t \in T : \A u \in T : t <= u
  <2> HIDE DEF T
  <2> QED BY <1>1, LeastNatural
<1>3. PICK i \in P : t = n - i
  BY <1>2
<1>4. \A j \in P : n - j \in T /\ j \in Nat /\ i \in Nat
  OBVIOUS
<1>5. \A j \in P : i >= j
  BY <1>2, <1>3, <1>4
<1> QED BY <1>4, <1>5 DEF Max

LEMMA LeastOfSome ==
  ASSUME NEW P \in SUBSET Nat, P # {}
  PROVE  Min(P) \in P
<1>1. \E x \in P : \A y \in P : x <= y
  BY LeastNatural
<1> QED BY <1>1 DEF Min

(* What a list sets: the last value of a control, which the camera gets,   *)
(* and the parameter unless the list unsets the control too.               *)
LEMMA ListSets ==
  ASSUME NEW list \in Seq(Entries), NEW c \in Names
  PROVE  /\ c \in NamesIn(list) => /\ Final(list, c) \in Values
                                   /\ Gives(list, c, Final(list, c))
         /\ IsSet(list, c) => /\ c \in NamesIn(list)
                              /\ list[Max(SetAt(list, c))].v \in Values \ {Unset}
                              /\ Gives(list, c, list[Max(SetAt(list, c))].v)
                              /\ Gives(list, c, FirstSet(list, c)) /\ FirstSet(list, c) # Unset
         /\ IsSet(list, c) /\ Final(list, c) # Unset =>
              list[Max(SetAt(list, c))].v = Final(list, c)
         /\ ~IsSet(list, c) /\ c \in NamesIn(list) => Final(list, c) = Unset
<1> DEFINE n == Len(list)
           Place == {i \in DOMAIN list : list[i].name = c}
           Given == SetAt(list, c)
<1>1. /\ n \in Nat /\ DOMAIN list = 1 .. n
      /\ \A i \in 1 .. n : /\ list[i].name \in Names /\ list[i].v \in Values
                           /\ list[i] = Is(list[i].name, list[i].v)
  <2>1. n \in Nat /\ DOMAIN list = 1 .. n /\ \A i \in 1 .. n : list[i] \in Entries
    BY LenProperties, ElementOfSeq
  <2> QED BY <2>1 DEF Entries, Values, Is
<1> HIDE DEF n
<1>2. Place \in SUBSET (1 .. n) /\ Given \in SUBSET (1 .. n) /\ Given \subseteq Place
  BY <1>1 DEF SetAt
<1>3. c \in NamesIn(list) <=> Place # {}
  BY DEF NamesIn
<1>4. ASSUME Place # {} PROVE Max(Place) \in Place /\ \A j \in Place : j <= Max(Place)
  <2> HIDE DEF Place
  <2> QED BY <1>1, <1>2, <1>4, LastOfSome
<1>5. ASSUME Given # {} PROVE Max(Given) \in Given /\ \A j \in Given : j <= Max(Given)
  <2> HIDE DEF Given
  <2> QED BY <1>1, <1>2, <1>5, LastOfSome
<1>6. ASSUME Given # {} PROVE Min(Given) \in Given
  <2> HIDE DEF Given
  <2> QED BY <1>1, <1>2, <1>6, LeastOfSome
<1>7. Final(list, c) = list[Max(Place)].v
  BY DEF Final
<1>8. ASSUME c \in NamesIn(list)
      PROVE  Final(list, c) \in Values /\ Gives(list, c, Final(list, c))
  <2>1. Max(Place) \in DOMAIN list /\ list[Max(Place)].name = c
    BY <1>3, <1>4, <1>8
  <2> HIDE DEF Place
  <2> QED BY <1>1, <1>7, <2>1 DEF Gives
<1>9. ASSUME IsSet(list, c)
      PROVE  /\ c \in NamesIn(list)
             /\ list[Max(Given)].v \in Values \ {Unset}
             /\ Gives(list, c, list[Max(Given)].v)
             /\ Gives(list, c, FirstSet(list, c)) /\ FirstSet(list, c) # Unset
  <2>1. Given # {}
    BY <1>9 DEF IsSet
  <2>2. \A i \in Given : i \in DOMAIN list /\ list[i].name = c /\ list[i].v # Unset
    BY DEF SetAt
  <2>3. FirstSet(list, c) = list[Min(Given)].v
    BY <1>9 DEF FirstSet
  <2>4. c \in NamesIn(list)
    BY <2>1, <2>2 DEF NamesIn
  <2> HIDE DEF Given
  <2> QED BY <1>1, <1>5, <1>6, <2>1, <2>2, <2>3, <2>4 DEF Gives
<1>10. ASSUME IsSet(list, c), Final(list, c) # Unset
       PROVE  list[Max(Given)].v = Final(list, c)
  <2>1. Given # {} /\ Place # {}
    BY <1>2, <1>10 DEF IsSet
  <2>2. Max(Place) \in Given
    <3>1. Max(Place) \in DOMAIN list /\ list[Max(Place)].name = c
      BY <1>4, <2>1
    <3> HIDE DEF Place
    <3> QED BY <1>7, <1>10, <3>1 DEF SetAt
  <2>3. \A i \in 1 .. n : i \in Nat
    OBVIOUS
  <2>4. /\ Max(Place) <= Max(Given) /\ Max(Given) <= Max(Place)
        /\ Max(Place) \in Nat /\ Max(Given) \in Nat
    <3>1. Max(Given) \in Given /\ Max(Place) <= Max(Given)
      BY <1>5, <2>1, <2>2
    <3>2. Max(Given) \in Place
      BY <1>2, <3>1
    <3>3. Max(Given) <= Max(Place)
      BY <1>4, <2>1, <3>2
    <3> HIDE DEF Place, Given
    <3> QED BY <1>2, <2>2, <2>3, <3>1, <3>3
  <2> HIDE DEF Place, Given
  <2>5. Max(Place) = Max(Given)
    BY <2>4
  <2> QED BY <1>7, <2>5
<1>11. ASSUME ~IsSet(list, c), c \in NamesIn(list) PROVE Final(list, c) = Unset
  <2>1. Max(Place) \in DOMAIN list /\ list[Max(Place)].name = c
    BY <1>3, <1>4, <1>11
  <2> HIDE DEF Place
  <2> QED BY <1>7, <1>11, <2>1 DEF IsSet, SetAt
<1> QED BY <1>8, <1>9, <1>10, <1>11

(* The list of a request as it is completed: an exposure time may be       *)
(* added at its end, and is taken away where the first mode is automatic.  *)
LEMMA RestoredList ==
  ASSUME NEW request \in Seq(Entries), NEW keeps \in Values
  PROVE  LET r == Restore(request, keeps)
         IN /\ r.kept \in Values /\ r.list \in Seq(Entries)
            /\ Gives(r.list, "auto", On) /\ (\A v : Gives(r.list, "auto", v) => v = On) =>
                 Gives(r.list, "exposure", Unset)
<1> DEFINE r == Restore(request, keeps)
           list == r.list
           n == Len(request)
<1>1. /\ n \in Nat /\ DOMAIN request = 1 .. n
      /\ \A i \in 1 .. n : request[i] \in Entries
  BY LenProperties, ElementOfSeq
<1>2. ASSUME NEW v \in Values
      PROVE  LET q == Append(request, Is("exposure", v))
             IN /\ q \in Seq(Entries) /\ Gives(q, "exposure", v)
                /\ \A u : Gives(q, "auto", u) <=> Gives(request, "auto", u)
  <2> DEFINE e == Is("exposure", v)
             q == Append(request, e)
  <2>1. e \in Entries /\ e.name = "exposure"
    BY DEF Entries, Is, Names, Values
  <2> HIDE DEF e
  <2>2. /\ q \in Seq(Entries) /\ Len(q) = n + 1 /\ q[n + 1] = e
        /\ \A i \in 1 .. n : q[i] = request[i]
    BY <2>1, AppendProperties
  <2>3. DOMAIN q = 1 .. n + 1
    BY <2>2, LenProperties
  <2> HIDE DEF q, n
  <2>4. Gives(q, "exposure", v)
    BY <1>1, <2>2, <2>3 DEF Gives, e
  <2>5. \A u : Is("auto", u) # e
    BY <2>1 DEF Is
  <2>6. \A u : Gives(q, "auto", u) <=> Gives(request, "auto", u)
    BY <1>1, <2>2, <2>3, <2>5 DEF Gives
  <2> QED BY <2>2, <2>4, <2>6 DEF q, e
<1>3. Unset \in Values
  BY DEF Values, Unset, Undeclared
<1>4. CASE ~IsSet(request, "auto")
  <2>1. r = [list |-> request, kept |-> keeps]
    BY <1>4 DEF Restore
  <2>2. ~Gives(request, "auto", On)
    BY <1>4 DEF Gives, IsSet, SetAt, Is, On, Unset
  <2> QED BY <2>1, <2>2
<1>5. CASE IsSet(request, "auto") /\ FirstSet(request, "auto") = Off
  <2>1. Gives(request, "auto", Off)
    BY <1>5, ListSets DEF Names
  <2>2. \/ r = [list |-> Append(request, Is("exposure", keeps)), kept |-> Unset]
        \/ r = [list |-> request, kept |-> keeps]
    BY <1>5 DEF Restore
  <2>3. Gives(list, "auto", Off) /\ list \in Seq(Entries) /\ r.kept \in Values
    <3>1. CASE r = [list |-> request, kept |-> keeps]
      BY <2>1, <3>1
    <3>2. CASE r = [list |-> Append(request, Is("exposure", keeps)), kept |-> Unset]
      BY <1>2, <1>3, <2>1, <3>2
    <3> QED BY <2>2, <3>1, <3>2
  <2> QED BY <2>3 DEF On, Off
<1>6. CASE IsSet(request, "auto") /\ FirstSet(request, "auto") # Off
  <2>1. r = [list |-> Append(request, Is("exposure", Unset)), kept |-> keeps]
    BY <1>6 DEF Restore
  <2> QED BY <1>2, <1>3, <2>1
<1> QED BY <1>4, <1>5, <1>6

(* A list that is accepted, by the parameters as they were: the exposure   *)
(* stays exclusive, the controls are taken as they are set, and a control  *)
(* that waited and is not set again is lost.                               *)
LEMMA AcceptedList ==
  ASSUME params \in [Names -> Nat], control \in [Names -> Values], ExposureExclusive,
         \A c \in Names \cap ranged : params[c] # Wide,
         NEW list \in Seq(Entries), Admits(list), Validates(list), Accept(list),
         Gives(list, "auto", On) /\ (\A v : Gives(list, "auto", v) => v = On) =>
           Gives(list, "exposure", Unset)
  PROVE  /\ params' \in [Names -> Nat] /\ control' \in [Names -> Values]
         /\ ExposureExclusive'
         /\ \A c \in Names :
              /\ control'[c] # Unset => \/ control'[c] = Narrow(params'[c])
                                        \/ c \in muddled' /\ ~HasValue(c)'
              /\ c \in ranged => params'[c] # Wide
              /\ control'[c] = Unset /\ HasValue(c)' => params'[c] = params[c]
              /\ control'[c] = Unset /\ control[c] # Unset => c \in lost'
<1>1. /\ params' = [c \in Names |->
                      IF c \notin NamesIn(list) THEN params[c]
                      ELSE IF Gives(list, c, Unset) /\ params[c] # Unset THEN Undeclared
                      ELSE Final(list, c)]
      /\ control' = [c \in Names |->
                       IF IsSet(list, c) THEN Narrow(list[Max(SetAt(list, c))].v) ELSE Unset]
      /\ muddled' = (muddled \ NamesIn(list)) \cup Muddled(list)
      /\ lost' = lost \cup {c \in Names : control[c] # Unset /\ ~IsSet(list, c)}
  BY DEF Accept, Stored, Applies
<1>2. /\ Unset \in Values /\ 1 \in Values /\ Undeclared \in Nat /\ Undeclared # Unset
      /\ \A v \in Values : Narrow(v) \in Values /\ (v # Unset => Narrow(v) # Unset)
  BY DEF Values, Unset, Undeclared, Narrow, Wide
<1>3. ASSUME NEW c \in Names
      PROVE  /\ c \in NamesIn(list) => /\ Final(list, c) \in Values
                                       /\ Gives(list, c, Final(list, c))
             /\ IsSet(list, c) => /\ c \in NamesIn(list)
                                  /\ list[Max(SetAt(list, c))].v \in Values \ {Unset}
                                  /\ Gives(list, c, list[Max(SetAt(list, c))].v)
                                  /\ Gives(list, c, FirstSet(list, c))
                                  /\ FirstSet(list, c) # Unset
             /\ IsSet(list, c) /\ Final(list, c) # Unset =>
                  list[Max(SetAt(list, c))].v = Final(list, c)
             /\ ~IsSet(list, c) /\ c \in NamesIn(list) => Final(list, c) = Unset
  BY ListSets
<1>4. ASSUME NEW c \in Names, NEW u, NEW v, Gives(list, c, u), Gives(list, c, v), u # v,
             c = "auto" \/ u = Unset
      PROVE  c \in muddled'
  <2>1. PICK i \in DOMAIN list, j \in DOMAIN list :
          /\ list[i].name = c /\ list[i].v = u /\ list[j].name = c /\ list[j].v = v
    BY <1>4 DEF Gives, Is
  <2>2. c \in Muddled(list)
    BY <1>4, <2>1 DEF Muddled
  <2> QED BY <1>1, <2>2
<1>5. ASSUME NEW c \in Names, NEW v, Gives(list, c, v), v # Unset PROVE IsSet(list, c)
  BY <1>5 DEF Gives, Is, IsSet, SetAt
<1>6. params' \in [Names -> Nat] /\ control' \in [Names -> Values]
  <2>1. \A c \in Names : params'[c] \in Nat
    BY <1>1, <1>2, <1>3 DEF Values
  <2>2. \A c \in Names : control'[c] \in Values
    BY <1>1, <1>2, <1>3
  <2> QED BY <1>1, <2>1, <2>2
<1>7. ASSUME NEW c \in Names, control'[c] # Unset
      PROVE  control'[c] = Narrow(params'[c]) \/ (c \in muddled' /\ ~HasValue(c)')
  <2> DEFINE last == list[Max(SetAt(list, c))].v
  <2>1. /\ IsSet(list, c) /\ control'[c] = Narrow(last) /\ c \in NamesIn(list)
        /\ last # Unset /\ Gives(list, c, last)
    BY <1>1, <1>3, <1>7
  <2> HIDE DEF last
  <2>2. params'[c] = IF Gives(list, c, Unset) /\ params[c] # Unset THEN Undeclared
                     ELSE Final(list, c)
    BY <1>1, <2>1
  <2>3. CASE Gives(list, c, Unset) /\ params[c] # Unset
    <3>1. c \in muddled'
      BY <1>4, <2>1, <2>3
    <3> QED BY <2>2, <2>3, <3>1 DEF HasValue
  <2>4. CASE params'[c] = Final(list, c) /\ Final(list, c) # Unset
    BY <1>3, <2>1, <2>4 DEF last
  <2>5. CASE params'[c] = Final(list, c) /\ Final(list, c) = Unset
    <3>1. c \in muddled'
      BY <1>3, <1>4, <2>1, <2>5
    <3> QED BY <2>5, <3>1 DEF HasValue
  <2> QED BY <2>2, <2>3, <2>4, <2>5
<1>8. ASSUME NEW c \in Names, c \in ranged PROVE params'[c] # Wide
  <2>1. \A v : Gives(list, c, v) => v \in Good \cup {Unset}
    BY <1>8 DEF Admits, Gives, Is
  <2>2. \A v \in Good \cup {Unset, Undeclared} : v # Wide
    BY DEF Good, Unset, Undeclared, Wide
  <2>3. params[c] # Wide
    BY <1>8
  <2> QED BY <1>1, <1>3, <2>1, <2>2, <2>3
<1>9. ASSUME NEW c \in Names, control'[c] = Unset
      PROVE  /\ HasValue(c)' => params'[c] = params[c]
             /\ control[c] # Unset => c \in lost'
  <2>1. ~IsSet(list, c)
    BY <1>1, <1>2, <1>3, <1>9
  <2>2. c \in NamesIn(list) => Final(list, c) = Unset
    BY <1>3, <2>1
  <2>3. HasValue(c)' => c \notin NamesIn(list)
    BY <1>1, <2>2 DEF HasValue
  <2> QED BY <1>1, <2>1, <2>3
<1>10. ExposureExclusive'
  <2> SUFFICES ASSUME "auto" \notin muddled', params'["auto"] = On PROVE ~HasValue("exposure")'
    BY DEF ExposureExclusive
  <2>1. "auto" \in Names /\ "exposure" \in Names /\ On # Undeclared /\ On # Unset
    BY DEF Names, On, Undeclared, Unset
  <2>2. ASSUME IsSet(list, "exposure"), Gives(list, "auto", On)
        PROVE  \E v : Gives(list, "auto", v) /\ v # On
    <3>1. IsSet(list, "auto")
      BY <1>5, <2>1, <2>2
    <3>2. FirstSet(list, "auto") # On /\ Gives(list, "auto", FirstSet(list, "auto"))
      BY <1>3, <2>1, <2>2, <3>1 DEF Validates, Conflicts
    <3> QED BY <3>2
  <2>3. ASSUME ~IsSet(list, "exposure"), "exposure" \in NamesIn(list)
        PROVE  ~HasValue("exposure")'
    BY <1>1, <1>3, <2>1, <2>3 DEF HasValue
  <2>4. CASE "auto" \in NamesIn(list)
    <3>1. Gives(list, "auto", On)
      BY <1>1, <1>3, <2>1, <2>4
    <3>2. \A v : Gives(list, "auto", v) => v = On
      BY <1>4, <2>1, <3>1
    <3>3. Gives(list, "exposure", Unset)
      BY <3>1, <3>2
    <3>4. "exposure" \in NamesIn(list)
      BY <3>3 DEF Gives, NamesIn, Is
    <3> QED BY <2>2, <2>3, <3>1, <3>2, <3>4
  <2>5. CASE "auto" \notin NamesIn(list)
    <3>1. params["auto"] = On /\ ~IsSet(list, "auto") /\ "auto" \notin muddled
      BY <1>1, <1>3, <2>1, <2>5
    <3>2. ~IsSet(list, "exposure")
      BY <3>1 DEF Validates, Conflicts
    <3>3. ~HasValue("exposure")
      BY <3>1 DEF ExposureExclusive
    <3>4. CASE "exposure" \notin NamesIn(list)
      BY <1>1, <2>1, <3>3, <3>4 DEF HasValue
    <3> QED BY <2>3, <3>2, <3>4
  <2> QED BY <2>4, <2>5
<1> QED BY <1>6, <1>7, <1>8, <1>9, <1>10

(* Initially the parameters are those of an accepted list, or none at all. *)
LEMMA ControlsInitially == ControlsInit => ControlsInv
<1> SUFFICES ASSUME ControlsInit PROVE ControlsInv
  OBVIOUS
<1>1. PICK default \in {Unset, Default},
           overrides \in [auto : {Unset, On, Off}, exposure : {Unset} \cup Good, gain : {Unset}] :
         LET d == Declared([auto |-> Unset, exposure |-> default, gain |-> 1], overrides)
         IN \/ /\ ~Conflicts(Nothing, d.list)
               /\ params = [c \in Names |-> Final(d.list, c)] /\ control = Applies(d.list)
               /\ stored = d.kept /\ muddled = Muddled(d.list)
            \/ params = Nothing /\ control = Nothing /\ stored = d.before
  BY DEF ControlsInit
<1> DEFINE defaults == [auto |-> Unset, exposure |-> default, gain |-> 1]
           d == ResolveDefaults(defaults)
           p == [c \in Names |-> IF overrides[c] # Unset THEN overrides[c] ELSE d.p[c]]
           o == ResolveOverrides(p, d.kept)
           request == [i \in 1 .. 3 |-> Is(PassOrder[i], o.p[PassOrder[i]])]
           r == Restore(request, o.kept)
           list == r.list
<1>2. /\ ranged = Names /\ latest = [c \in Names |-> Head(queued)]
      /\ turn = [b \in Requests |-> "camera"] /\ carries = [b \in Requests |-> Nothing]
      /\ pass = [b \in Requests |-> 1]
      /\ queued \in SetToSeqs(Requests) /\ applied = control
      /\ \/ /\ ~Conflicts(Nothing, list)
            /\ params = [c \in Names |-> Final(list, c)] /\ control = Applies(list)
            /\ stored = r.kept /\ muddled = Muddled(list)
         \/ params = Nothing /\ control = Nothing /\ stored = o.kept
  BY <1>1 DEF ControlsInit, Declared
<1>3. /\ p \in [Names -> {Unset} \cup Good] /\ d.kept \in {Unset} \cup Good
  BY DEF ResolveDefaults, Names, Unset, Good, On, Off, Default
<1> HIDE DEF p, d
<1>4. /\ o.p \in [Names -> {Unset} \cup Good] /\ o.kept \in {Unset} \cup Good
  BY <1>3 DEF ResolveOverrides, Names, Unset, Good, On, Off
<1> HIDE DEF o
<1>5. Unset \in Values /\ {Unset} \cup Good \subseteq Values /\ Values \subseteq Nat
  BY DEF Values, Unset, Good, Undeclared
<1>6. /\ request \in Seq(Entries) /\ DOMAIN request = 1 .. 3
      /\ \A i \in 1 .. 3 : request[i].name = PassOrder[i] /\ request[i].v \in {Unset} \cup Good
  <2>1. \A i \in 1 .. 3 : PassOrder[i] \in Names
    BY ControlsAssumption
  <2>2. \A i \in 1 .. 3 : /\ request[i].name = PassOrder[i] /\ request[i].v \in {Unset} \cup Good
                          /\ request[i] \in Entries
    BY <1>4, <1>5, <2>1 DEF Is, Entries, Values
  <2>3. request \in [1 .. 3 -> Entries]
    BY <2>2
  <2>4. request \in Seq(Entries) /\ DOMAIN request = 1 .. 3
    BY <2>3, SeqDef
  <2> QED BY <2>2, <2>4
<1> HIDE DEF request
<1>7. /\ r.kept \in Values /\ list \in Seq(Entries) /\ o.kept \in Values
      /\ Gives(list, "auto", On) /\ (\A v : Gives(list, "auto", v) => v = On) =>
           Gives(list, "exposure", Unset)
  <2>1. o.kept \in Values
    BY <1>4, <1>5
  <2> QED BY <1>6, <2>1, RestoredList
<1>8. NamesIn(list) = Names /\ \A c \in Names : \A v : Gives(list, c, v) => v # Wide
  <2>1. \/ list = request
        \/ \E v \in {Unset} \cup Good : list = Append(request, Is("exposure", v))
    BY <1>4 DEF Restore
  <2>2. \A c \in Names : \E i \in 1 .. 3 : request[i].name = c
    BY <1>6, ControlsAssumption
  <2>3. \A i \in 1 .. 3 : request[i].name \in Names
    BY <1>6, ControlsAssumption
  <2>4. /\ \A v \in {Unset} \cup Good : v # Wide
        /\ "exposure" \in Names
    BY DEF Unset, Good, Wide, Names
  <2> HIDE DEF list
  <2>5. CASE list = request
    BY <1>6, <2>2, <2>3, <2>4, <2>5 DEF NamesIn, Gives, Is
  <2>6. ASSUME NEW v \in {Unset} \cup Good, list = Append(request, Is("exposure", v))
        PROVE  NamesIn(list) = Names /\ \A c \in Names : \A u : Gives(list, c, u) => u # Wide
    <3> DEFINE e == Is("exposure", v)
    <3>1. e \in Entries /\ e.name = "exposure" /\ e.v = v
      BY <1>5 DEF Entries, Is, Names, Values
    <3> HIDE DEF e
    <3>2. Len(request) = 3
      BY <1>6, LenProperties
    <3>3. /\ Append(request, e) \in Seq(Entries)
          /\ Len(Append(request, e)) = Len(request) + 1
          /\ \A i \in 1 .. Len(request) : Append(request, e)[i] = request[i]
          /\ Append(request, e)[Len(request) + 1] = e
      BY <1>6, <3>1, AppendProperties
    <3>4. /\ DOMAIN list = 1 .. 4 /\ list[4] = e
          /\ \A i \in 1 .. 3 : list[i] = request[i]
      BY <2>6, <3>2, <3>3, LenProperties DEF e
    <3>5. \A i \in 1 .. 4 : i \in 1 .. 3 \/ i = 4
      OBVIOUS
    <3>6. \A i \in 1 .. 4 : list[i].name \in Names /\ list[i].v # Wide
      BY <1>6, <2>3, <2>4, <3>1, <3>4, <3>5
    <3>7. \A c \in Names : \E i \in 1 .. 4 : list[i].name = c
      BY <2>2, <3>4
    <3>8. NamesIn(list) = Names
      BY <3>4, <3>6, <3>7 DEF NamesIn
    <3> QED BY <3>4, <3>6, <3>8 DEF Gives, Is
  <2> QED BY <2>1, <2>5, <2>6
<1> HIDE DEF r, list
<1>9. /\ queued \in Seq(Requests) /\ Head(queued) \in Requests
  <2>1. Cardinality(Requests) \in Nat /\ Cardinality(Requests) # 0
    BY ControlsAssumption, FS_CardinalityType, FS_EmptySet
  <2>2. queued \in [1 .. Cardinality(Requests) -> Requests]
    BY <1>2 DEF SetToSeqs
  <2>3. queued \in Seq(Requests) /\ Len(queued) = Cardinality(Requests)
    BY <2>1, <2>2, SeqDef, LenProperties
  <2> QED BY <2>1, <2>3, HeadTailProperties, EmptySeq
<1>10. /\ params \in [Names -> Nat] /\ control \in [Names -> Values] /\ stored \in Values
       /\ ExposureExclusive /\ TakenIsCurrent
       /\ \A c \in Names : control[c] = Unset => ~HasValue(c)
  <2>1. CASE params = Nothing /\ control = Nothing /\ stored = o.kept
    <3>1. "auto" \in Names /\ \A c \in Names : params[c] = Unset /\ control[c] = Unset
      BY <2>1 DEF Nothing, Names
    <3>2. Unset # Wide /\ Unset # On
      BY DEF Unset, Wide, On
    <3>3. params \in [Names -> Nat] /\ control \in [Names -> Values]
      BY <1>5, <2>1 DEF Nothing
    <3>4. ExposureExclusive
      BY <3>1, <3>2 DEF ExposureExclusive
    <3>5. TakenIsCurrent /\ \A c \in Names : control[c] = Unset => ~HasValue(c)
      BY <3>1, <3>2 DEF TakenIsCurrent, HasValue
    <3> QED BY <1>7, <2>1, <3>3, <3>4, <3>5
  <2>2. CASE /\ ~Conflicts(Nothing, list)
             /\ params = [c \in Names |-> Final(list, c)] /\ control = Applies(list)
             /\ stored = r.kept /\ muddled = Muddled(list)
    <3>1. ASSUME NEW c \in Names
          PROVE  /\ Final(list, c) \in Values /\ Gives(list, c, Final(list, c))
                 /\ IsSet(list, c) => /\ list[Max(SetAt(list, c))].v \in Values \ {Unset}
                                      /\ Gives(list, c, list[Max(SetAt(list, c))].v)
                                      /\ Gives(list, c, FirstSet(list, c))
                 /\ IsSet(list, c) /\ Final(list, c) # Unset =>
                      list[Max(SetAt(list, c))].v = Final(list, c)
                 /\ ~IsSet(list, c) => Final(list, c) = Unset
      BY <1>7, <1>8, ListSets
    <3>2. ASSUME NEW c \in Names, NEW u, NEW v, Gives(list, c, u), Gives(list, c, v), u # v,
                 c = "auto" \/ u = Unset
          PROVE  c \in muddled
      <4>1. PICK i \in DOMAIN list, j \in DOMAIN list :
              /\ list[i].name = c /\ list[i].v = u /\ list[j].name = c /\ list[j].v = v
        BY <3>2 DEF Gives, Is
      <4> QED BY <2>2, <3>2, <4>1 DEF Muddled
    <3>3. \A c \in Names : params[c] = Final(list, c) /\ params[c] # Wide
      BY <1>8, <2>2, <3>1
    <3>4. \A c \in Names : control[c] = IF IsSet(list, c) THEN list[Max(SetAt(list, c))].v
                                        ELSE Unset
      BY <1>8, <2>2, <3>1 DEF Applies, Narrow
    <3>5. params \in [Names -> Nat] /\ control \in [Names -> Values]
      <4>1. params = [c \in Names |-> params[c]] /\ control = [c \in Names |-> control[c]]
        BY <2>2 DEF Applies
      <4> QED BY <1>5, <3>1, <3>3, <3>4, <4>1
    <3>6. TakenIsCurrent
      <4> SUFFICES ASSUME NEW c \in Names
                   PROVE  /\ control[c] # Unset => \/ control[c] = Narrow(params[c])
                                                   \/ c \in muddled /\ ~HasValue(c)
                          /\ params[c] # Wide
        BY DEF TakenIsCurrent
      <4>1. Narrow(params[c]) = params[c]
        BY <3>3 DEF Narrow
      <4>2. CASE Final(list, c) # Unset
        BY <3>1, <3>3, <3>4, <4>1, <4>2
      <4>3. CASE Final(list, c) = Unset
        <5>1. IsSet(list, c) => c \in muddled
          BY <3>1, <3>2, <4>3
        <5> QED BY <3>3, <3>4, <4>3, <5>1 DEF HasValue
      <4> QED BY <4>2, <4>3
    <3>7. ExposureExclusive
      <4> SUFFICES ASSUME "auto" \notin muddled, params["auto"] = On
                   PROVE  ~HasValue("exposure")
        BY DEF ExposureExclusive
      <4>1. "auto" \in Names /\ "exposure" \in Names /\ On # Unset
        BY DEF Names, On, Unset
      <4>2. Gives(list, "auto", On) /\ IsSet(list, "auto")
        BY <3>1, <3>3, <4>1
      <4>3. \A v : Gives(list, "auto", v) => v = On
        BY <3>2, <4>1, <4>2
      <4>4. FirstSet(list, "auto") = On
        BY <3>1, <4>1, <4>2, <4>3
      <4>5. ~IsSet(list, "exposure")
        BY <2>2, <4>2, <4>4 DEF Conflicts
      <4> QED BY <3>1, <3>3, <4>1, <4>5 DEF HasValue
    <3>8. \A c \in Names : control[c] = Unset => ~HasValue(c)
      BY <3>1, <3>3, <3>4 DEF HasValue
    <3> QED BY <1>7, <2>2, <3>5, <3>6, <3>7, <3>8
  <2> QED BY <1>2, <2>1, <2>2
<1>11. ControlTypes
  <2>1. Nothing \in [Names -> Values]
    BY <1>5 DEF Nothing
  <2> QED BY <1>2, <1>9, <1>10, <2>1 DEF ControlTypes
<1>12. QueueInOrder
  <2>1. \A i \in DOMAIN queued : queued[i] \in Requests
    BY <1>9, ElementOfSeq, LenProperties
  <2> QED BY <1>2, <2>1 DEF QueueInOrder
<1>13. LastIsCurrent
  BY <1>10 DEF LastIsCurrent
<1> QED BY <1>10, <1>11, <1>12, <1>13 DEF ControlsInv

(* A request to set parameters leaves the threads where they are: a        *)
(* control it sets waits, and one that waited before is lost.              *)
LEMMA SetKeepsSound ==
  ASSUME ControlsInv, Sets PROVE ControlsInv'
<1>1. UNCHANGED <<turn, pass, carries, queued, applied, latest, reused>>
  BY DEF Sets, threadVars
<1>2. QueueInOrder'
  BY <1>1 DEF ControlsInv, QueueInOrder
<1>3. CASE UNCHANGED <<params, ranged, control, muddled, lost>> /\ stored' \in Values
  <2>1. \A c \in Names : HasValue(c)' = HasValue(c) /\ Requested(c)' = Requested(c)
    BY <1>3 DEF HasValue, Requested
  <2>2. LastIsCurrent'
    BY <1>1, <1>3, <2>1 DEF ControlsInv, LastIsCurrent, Coming, Asked, InForce
  <2> QED BY <1>1, <1>2, <1>3, <2>2
      DEF ControlsInv, ControlTypes, ExposureExclusive, TakenIsCurrent, HasValue
<1>4. ASSUME Asserts PROVE ControlsInv'
  BY <1>3, <1>4 DEF Asserts, paramVars, ControlsInv, ControlTypes
<1>5. ASSUME NEW request \in SetRequests, SetParameters(request), UNCHANGED <<ranged, dead>>
      PROVE  ControlsInv'
  <2> DEFINE r == Restore(request, stored)
             list == r.list
  <2>1. /\ r.kept \in Values /\ list \in Seq(Entries)
        /\ Gives(list, "auto", On) /\ (\A v : Gives(list, "auto", v) => v = On) =>
             Gives(list, "exposure", Unset)
    <3>1. request \in Seq(Entries) /\ stored \in Values
      BY ControlsAssumption DEF ControlsInv, ControlTypes
    <3> QED BY <3>1, RestoredList
  <2>2. stored' \in {stored, r.kept}
    BY <1>5 DEF SetParameters
  <2>3. stored' \in Values
    BY <2>1, <2>2 DEF ControlsInv, ControlTypes
  <2>4. \/ UNCHANGED <<params, control, muddled, lost>>
        \/ Admits(list) /\ Validates(list) /\ Accept(list)
    BY <1>5 DEF SetParameters
  <2> HIDE DEF r, list
  <2>5. CASE UNCHANGED <<params, control, muddled, lost>>
    BY <1>3, <1>5, <2>3, <2>5
  <2>6. CASE Admits(list) /\ Validates(list) /\ Accept(list)
    <3>1. /\ params' \in [Names -> Nat] /\ control' \in [Names -> Values]
          /\ ExposureExclusive'
          /\ \A c \in Names :
               /\ control'[c] # Unset => \/ control'[c] = Narrow(params'[c])
                                         \/ c \in muddled' /\ ~HasValue(c)'
               /\ c \in ranged => params'[c] # Wide
               /\ control'[c] = Unset /\ HasValue(c)' => params'[c] = params[c]
               /\ control'[c] = Unset /\ control[c] # Unset => c \in lost'
      <4>1. /\ params \in [Names -> Nat] /\ control \in [Names -> Values] /\ ExposureExclusive
            /\ \A c \in Names \cap ranged : params[c] # Wide
        BY DEF ControlsInv, ControlTypes, TakenIsCurrent
      <4> QED BY <2>1, <2>6, <4>1, AcceptedList
    <3>2. TakenIsCurrent'
      BY <1>5, <3>1 DEF TakenIsCurrent
    <3>3. ASSUME NEW c \in Names \ lost', ~reused', control'[c] = Unset, HasValue(c)'
          PROVE  Coming(c)' \/ Asked(c)' \/ InForce(c)'
      <4>1. control[c] = Unset /\ params'[c] = params[c] /\ c \notin lost
        BY <2>6, <3>1, <3>3 DEF Accept
      <4>2. HasValue(c) /\ Requested(c)' = Requested(c)
        BY <3>3, <4>1 DEF HasValue, Requested
      <4>3. Coming(c) \/ Asked(c) \/ InForce(c)
        BY <1>1, <3>3, <4>1, <4>2 DEF ControlsInv, LastIsCurrent
      <4> QED BY <1>1, <4>2, <4>3 DEF Coming, Asked, InForce
    <3>4. LastIsCurrent'
      BY <3>3 DEF LastIsCurrent
    <3> QED BY <1>1, <1>2, <2>3, <3>1, <3>2, <3>4 DEF ControlsInv, ControlTypes
  <2> QED BY <2>4, <2>5, <2>6
<1> QED BY <1>4, <1>5 DEF Sets

(* A completed request has what it carries in force, and those after it    *)
(* stay in order.                                                          *)
LEMMA CompleteKeepsSound ==
  ASSUME ControlsInv, NEW b \in Requests, RequestDone(b) PROVE ControlsInv'
<1> USE DEF Values
<1>1. /\ UNCHANGED <<params, ranged, stored, control, carries, muddled, latest, reused>>
      /\ queued # << >> /\ b = Head(queued) /\ queued' = Tail(queued)
      /\ turn' \in {turn, [turn EXCEPT ![b] = "redeclare"]}
      /\ pass' \in {pass, [pass EXCEPT ![b] = 1]}
  BY DEF RequestDone, paramVars, Begins
<1>2. /\ queued' \in Seq(Requests) /\ b = queued[1] /\ 1 \in DOMAIN queued
      /\ \A i \in DOMAIN queued' : /\ i \in Nat /\ i + 1 \in DOMAIN queued
                                   /\ queued'[i] = queued[i + 1]
      /\ \A i \in DOMAIN queued : i \in Nat /\ (i # 1 => i - 1 \in DOMAIN queued')
  <2>1. queued \in Seq(Requests)
    BY DEF ControlsInv, ControlTypes
  <2>2. /\ Tail(queued) \in Seq(Requests) /\ Head(queued) = queued[1]
        /\ Len(Tail(queued)) = Len(queued) - 1
        /\ \A i \in 1 .. Len(Tail(queued)) : Tail(queued)[i] = queued[i + 1]
    BY <1>1, <2>1, HeadTailProperties
  <2>3. /\ DOMAIN queued = 1 .. Len(queued) /\ DOMAIN Tail(queued) = 1 .. Len(queued) - 1
        /\ Len(queued) \in Nat /\ Len(queued) > 0
    BY <1>1, <2>1, <2>2, LenProperties, EmptySeq
  <2> QED BY <1>1, <2>2, <2>3
<1>3. /\ turn \in [Requests -> {"camera", "redeclare", "declare", "take", "queue"}]
      /\ \A x \in Requests : turn'[x] = "queue" => turn[x] = "queue"
  BY <1>1 DEF ControlsInv, ControlTypes
<1>4. \A x \in Requests : turn[x] = "queue" => x = b \/ turn'[x] = "queue"
  BY <1>1, <1>3
<1>5. \A i \in DOMAIN queued : queued[i] \in Requests
  BY ElementOfSeq, LenProperties DEF ControlsInv, ControlTypes
<1>6. QueueInOrder'
  <2>1. ASSUME NEW i \in DOMAIN queued', ~reused PROVE turn'[queued'[i]] # "queue"
    BY <1>2, <1>3, <1>5, <2>1 DEF ControlsInv, QueueInOrder
  <2> QED BY <1>1, <2>1 DEF QueueInOrder
<1>7. \/ /\ applied' = [c \in Names |-> IF carries[b][c] # Unset THEN carries[b][c] ELSE applied[c]]
         /\ UNCHANGED lost
      \/ /\ lost' = lost \cup {c \in Names : latest[c] = b /\ carries[b][c] # Unset}
         /\ UNCHANGED applied
  BY DEF RequestDone
<1>8. ControlTypes'
  <2>1. turn' \in [Requests -> {"camera", "redeclare", "declare", "take", "queue"}]
    BY <1>1, <1>3
  <2>2. applied' \in [Names -> Values]
    <3>1. carries[b] \in [Names -> Values] /\ applied \in [Names -> Values]
      BY DEF ControlsInv, ControlTypes
    <3> QED BY <1>7, <3>1
  <2>3. pass' \in [Requests -> 1 .. 3]
    <3>1. pass \in [Requests -> 1 .. 3] /\ 1 \in 1 .. 3
      BY DEF ControlsInv, ControlTypes
    <3> QED BY <1>1, <3>1
  <2> QED BY <1>1, <1>2, <2>1, <2>2, <2>3 DEF ControlsInv, ControlTypes
<1>9. ASSUME NEW c \in Names \ lost', ~reused', control'[c] = Unset, HasValue(c)'
      PROVE  Coming(c)' \/ Asked(c)' \/ InForce(c)'
  <2>1. /\ c \notin lost /\ ~reused /\ control[c] = Unset /\ HasValue(c)
        /\ Requested(c)' = Requested(c) /\ latest[c] \in Requests
    BY <1>1, <1>7, <1>9 DEF HasValue, Requested, ControlsInv, ControlTypes
  <2>2. Coming(c) \/ Asked(c) \/ InForce(c)
    BY <2>1 DEF ControlsInv, LastIsCurrent
  <2>3. turn[b] # "queue"
    BY <1>2, <2>1 DEF ControlsInv, QueueInOrder
  <2>4. CASE Coming(c)
    BY <1>1, <1>4, <2>1, <2>3, <2>4 DEF Coming
  <2>5. ASSUME NEW k \in DOMAIN queued, queued[k] = latest[c],
               carries[queued[k]][c] = Requested(c),
               \A j \in DOMAIN queued : j > k => carries[queued[j]][c] = Unset
        PROVE  Coming(c)' \/ Asked(c)' \/ InForce(c)'
    <3>1. CASE k = 1
      <4>1. latest[c] = b /\ carries[b][c] = Requested(c)
        BY <1>2, <2>5, <3>1
      <4>2. carries[b][c] # Unset
        BY <2>1, <4>1 DEF HasValue, Requested, Narrow, Unset, Wide
      <4>3. applied'[c] = Requested(c)
        BY <1>7, <1>9, <4>1, <4>2
      <4>4. \A j \in DOMAIN queued' : carries[queued'[j]][c] = Unset
        <5> SUFFICES ASSUME NEW j \in DOMAIN queued' PROVE carries[queued'[j]][c] = Unset
          OBVIOUS
        <5>1. j + 1 \in DOMAIN queued /\ queued'[j] = queued[j + 1] /\ j + 1 > 1
          <6>1. j \in Nat /\ j # 0
            BY <1>2, LenProperties
          <6> QED BY <1>2, <6>1
        <5> QED BY <2>5, <3>1, <5>1
      <4>5. turn'[latest[c]] # "queue"
        BY <1>3, <2>3, <4>1
      <4> QED BY <1>1, <2>1, <4>3, <4>4, <4>5 DEF InForce
    <3>2. CASE k # 1
      <4>1. k - 1 \in DOMAIN queued' /\ queued'[k - 1] = queued[k] /\ k \in Nat
        BY <1>2, <3>2
      <4>2. \A j \in DOMAIN queued' : j > k - 1 => carries[queued'[j]][c] = Unset
        BY <1>2, <2>5, <4>1
      <4> QED BY <1>1, <2>1, <2>5, <4>1, <4>2 DEF Asked
    <3> QED BY <3>1, <3>2
  <2>6. CASE InForce(c)
    <3>1. carries[b][c] = Unset /\ \A j \in DOMAIN queued' : carries[queued'[j]][c] = Unset
      BY <1>2, <2>6 DEF InForce
    <3>2. applied'[c] = applied[c]
      BY <1>7, <3>1
    <3>3. turn'[latest[c]] = "queue" => turn[latest[c]] = "queue"
      BY <1>3, <2>1
    <3> QED BY <1>1, <2>1, <2>6, <3>1, <3>2, <3>3 DEF InForce
  <2> QED BY <2>2, <2>4, <2>5, <2>6 DEF Asked
<1>10. LastIsCurrent'
  BY <1>9 DEF LastIsCurrent
<1> QED BY <1>1, <1>6, <1>8, <1>10
    DEF ControlsInv, ExposureExclusive, TakenIsCurrent, HasValue

(* A thread that passes over the controls leaves what is taken alone; one  *)
(* that declares a control again leaves it without a value and a range.    *)
LEMMA ThreadMoves ==
  ASSUME ControlsInv, NEW b \in Requests, NEW w \in {"camera", "redeclare", "declare", "take"},
         turn[b] # "queue", turn' \in {turn, [turn EXCEPT ![b] = w]},
         pass' \in [Requests -> 1 .. 3],
         UNCHANGED <<stored, control, carries, queued, applied, muddled, latest, lost, reused>>,
         \/ UNCHANGED <<params, ranged>>
         \/ \E c \in Names : /\ params[c] = Undeclared
                             /\ params' = [params EXCEPT ![c] = Unset] /\ ranged' = ranged \ {c}
  PROVE  ControlsInv'
<1>1. turn \in [Requests -> {"camera", "redeclare", "declare", "take", "queue"}]
  BY DEF ControlsInv, ControlTypes
<1>2. \A x \in Requests : turn'[x] = "queue" <=> turn[x] = "queue"
  BY <1>1
<1>3. QueueInOrder'
  <2>1. \A i \in DOMAIN queued : queued[i] \in Requests
    BY ElementOfSeq, LenProperties DEF ControlsInv, ControlTypes
  <2> QED BY <1>2, <2>1 DEF ControlsInv, QueueInOrder
<1>4. params' \in [Names -> Nat] /\ params \in [Names -> Nat]
  BY DEF ControlsInv, ControlTypes, Unset
<1>5. /\ \A c \in Names : \/ params'[c] = params[c]
                          \/ params[c] = Undeclared /\ params'[c] = Unset
      /\ ranged' \subseteq ranged
  <2>1. CASE UNCHANGED <<params, ranged>>
    BY <2>1
  <2>2. ASSUME NEW c \in Names, params[c] = Undeclared, ranged' = ranged \ {c},
               params' = [params EXCEPT ![c] = Unset]
        PROVE  /\ \A a \in Names : \/ params'[a] = params[a]
                                   \/ params[a] = Undeclared /\ params'[a] = Unset
               /\ ranged' \subseteq ranged
    BY <1>4, <2>2
  <2> QED BY <2>1, <2>2
<1>6. \A c \in Names : /\ HasValue(c)' <=> HasValue(c)
                       /\ HasValue(c)' => params'[c] = params[c]
  BY <1>5 DEF HasValue
<1>7. ControlTypes'
  <2>1. turn' \in [Requests -> {"camera", "redeclare", "declare", "take", "queue"}]
    BY <1>1
  <2> QED BY <1>4, <2>1 DEF ControlsInv, ControlTypes
<1>8. ExposureExclusive'
  <2>1. "auto" \in Names /\ "exposure" \in Names /\ Unset # On
    BY DEF Names, Unset, On
  <2>2. params'["auto"] = On => params["auto"] = On
    BY <1>5, <2>1
  <2> QED BY <1>6, <2>1, <2>2 DEF ControlsInv, ExposureExclusive
<1>9. TakenIsCurrent'
  <2> SUFFICES ASSUME NEW c \in Names
               PROVE  /\ control[c] # Unset => \/ control[c] = Narrow(params'[c])
                                               \/ c \in muddled /\ ~HasValue(c)'
                      /\ c \in ranged' => params'[c] # Wide
    BY DEF TakenIsCurrent
  <2>1. /\ control[c] # Unset => \/ control[c] = Narrow(params[c])
                                 \/ c \in muddled /\ ~HasValue(c)
        /\ c \in ranged => params[c] # Wide
        /\ control[c] \in Values
    BY DEF ControlsInv, TakenIsCurrent, ControlTypes
  <2>2. CASE params'[c] = params[c]
    BY <1>5, <1>6, <2>1, <2>2
  <2>3. CASE params[c] = Undeclared /\ params'[c] = Unset
    <3>1. control[c] # Narrow(params[c])
      BY <2>1, <2>3 DEF Narrow, Undeclared, Wide, Values
    <3>2. Unset # Wide /\ ~HasValue(c)'
      BY <2>3 DEF Unset, Wide, HasValue
    <3> QED BY <2>1, <2>3, <3>1, <3>2
  <2> QED BY <1>5, <2>2, <2>3
<1>10. LastIsCurrent'
  <2> SUFFICES ASSUME NEW c \in Names \ lost, ~reused, control[c] = Unset, HasValue(c)'
               PROVE  Coming(c)' \/ Asked(c)' \/ InForce(c)'
    BY DEF LastIsCurrent
  <2>1. HasValue(c) /\ Requested(c)' = Requested(c) /\ latest[c] \in Requests
    BY <1>6 DEF Requested, ControlsInv, ControlTypes
  <2>2. Coming(c) \/ Asked(c) \/ InForce(c)
    BY <2>1 DEF ControlsInv, LastIsCurrent
  <2> QED BY <1>2, <2>1, <2>2 DEF Coming, Asked, InForce
<1> QED BY <1>3, <1>7, <1>8, <1>9, <1>10 DEF ControlsInv

(* The thread that takes the waiting controls is the last to take them.    *)
LEMMA TakeKeepsSound ==
  ASSUME ControlsInv, NEW b \in Requests, Takes(b) PROVE ControlsInv'
<1> DEFINE taken == {c \in Names : control[c] # Unset}
<1>1. /\ UNCHANGED <<params, ranged, stored, pass, queued, applied, muddled>>
      /\ turn[b] = "take" /\ turn' = [turn EXCEPT ![b] = "queue"]
      /\ carries' = [carries EXCEPT ![b] = control] /\ control' = Nothing
      /\ latest' = [c \in Names |-> IF c \in taken THEN b ELSE latest[c]]
      /\ lost' = lost \ taken
      /\ reused' = (reused \/ \E i \in DOMAIN queued : queued[i] = b)
  BY DEF Takes
<1>2. Nothing \in [Names -> Values] /\ \A c \in Names : Nothing[c] = Unset
  BY DEF Nothing, Values, Unset, Undeclared
<1>3. /\ turn \in [Requests -> {"camera", "redeclare", "declare", "take", "queue"}]
      /\ carries \in [Requests -> [Names -> Values]] /\ control \in [Names -> Values]
      /\ latest \in [Names -> Requests]
      /\ \A i \in DOMAIN queued : queued[i] \in Requests
  BY ElementOfSeq, LenProperties DEF ControlsInv, ControlTypes
<1>4. /\ turn'[b] = "queue" /\ carries'[b] = control
      /\ \A x \in Requests : x # b => turn'[x] = turn[x] /\ carries'[x] = carries[x]
  BY <1>1, <1>3
<1>5. ControlTypes'
  <2>1. turn' \in [Requests -> {"camera", "redeclare", "declare", "take", "queue"}]
    BY <1>1, <1>3
  <2>2. carries' \in [Requests -> [Names -> Values]] /\ latest' \in [Names -> Requests]
    BY <1>1, <1>3
  <2> HIDE DEF taken
  <2> QED BY <1>1, <1>2, <2>1, <2>2 DEF ControlsInv, ControlTypes
<1>6. ~reused' => ~reused /\ \A i \in DOMAIN queued : queued[i] # b
  BY <1>1
<1>7. QueueInOrder'
  BY <1>1, <1>3, <1>4, <1>6 DEF ControlsInv, QueueInOrder
<1>8. ASSUME NEW c \in Names \ lost', ~reused', HasValue(c)'
      PROVE  Coming(c)' \/ Asked(c)' \/ InForce(c)'
  <2>1. HasValue(c) /\ Requested(c)' = Requested(c)
    BY <1>1, <1>8 DEF HasValue, Requested
  <2>2. CASE control[c] # Unset
    <3>1. latest'[c] = b
      BY <1>1, <2>2
    <3>2. control[c] = Requested(c)
      BY <2>1, <2>2 DEF ControlsInv, TakenIsCurrent, Requested
    <3> QED BY <1>4, <2>1, <3>1, <3>2 DEF Coming
  <2>3. CASE control[c] = Unset
    <3>1. c \notin lost /\ latest'[c] = latest[c] /\ latest[c] \in Requests
      BY <1>1, <1>3, <1>8, <2>3
    <3>2. Coming(c) \/ Asked(c) \/ InForce(c)
      BY <1>6, <1>8, <2>1, <2>3, <3>1 DEF ControlsInv, LastIsCurrent
    <3>3. \A i \in DOMAIN queued : carries'[queued[i]] = carries[queued[i]]
      BY <1>3, <1>4, <1>6, <1>8
    <3>4. CASE Coming(c)
      <4>1. latest[c] # b
        BY <1>1, <3>4 DEF Coming
      <4> QED BY <1>4, <2>1, <3>1, <3>4, <4>1 DEF Coming
    <3>5. CASE Asked(c)
      BY <1>1, <2>1, <3>1, <3>3, <3>5 DEF Asked
    <3>6. CASE InForce(c)
      <4>1. turn'[latest[c]] = "queue" => carries'[latest[c]][c] = Unset
        BY <1>4, <2>3, <3>1, <3>6 DEF InForce
      <4> QED BY <1>1, <2>1, <3>1, <3>3, <3>6, <4>1 DEF InForce
    <3> QED BY <3>2, <3>4, <3>5, <3>6
  <2> QED BY <2>2, <2>3
<1>9. LastIsCurrent'
  BY <1>8 DEF LastIsCurrent
<1>10. TakenIsCurrent' /\ ExposureExclusive'
  BY <1>1, <1>2 DEF ControlsInv, TakenIsCurrent, ExposureExclusive, HasValue
<1> QED BY <1>5, <1>7, <1>9, <1>10 DEF ControlsInv

(* A thread that queues its request is the last to carry a control, unless *)
(* a later one is still to come or has come before it.                     *)
LEMMA QueueKeepsSound ==
  ASSUME ControlsInv, NEW b \in Requests, Queues(b) PROVE ControlsInv'
<1> DEFINE n == Len(queued)
<1>1. /\ UNCHANGED <<params, ranged, stored, control, pass, carries, applied, muddled, latest,
                     reused>>
      /\ turn[b] = "queue" /\ turn' = [turn EXCEPT ![b] = "camera"]
      /\ queued' = Append(queued, b)
      /\ lost' = lost \cup {c \in Names : carries[b][c] # Unset /\ Overtaken(b, c)}
  BY DEF Queues, paramVars
<1>2. /\ turn \in [Requests -> {"camera", "redeclare", "declare", "take", "queue"}]
      /\ queued \in Seq(Requests) /\ latest \in [Names -> Requests]
      /\ \A i \in DOMAIN queued : queued[i] \in Requests
  BY ElementOfSeq, LenProperties DEF ControlsInv, ControlTypes
<1>3. /\ n \in Nat /\ DOMAIN queued = 1 .. n /\ DOMAIN queued' = 1 .. n + 1
      /\ queued'[n + 1] = b /\ \A i \in 1 .. n : queued'[i] = queued[i]
      /\ queued' \in Seq(Requests)
  BY <1>1, <1>2, AppendProperties, LenProperties
<1>4. /\ turn'[b] = "camera" /\ \A x \in Requests : x # b => turn'[x] = turn[x]
      /\ turn' \in [Requests -> {"camera", "redeclare", "declare", "take", "queue"}]
  BY <1>1, <1>2
<1> HIDE DEF n
<1>5. \A i \in 1 .. n + 1 : i \in 1 .. n \/ i = n + 1
  BY <1>3
<1>6. ControlTypes'
  BY <1>1, <1>3, <1>4 DEF ControlsInv, ControlTypes
<1>7. QueueInOrder'
  BY <1>1, <1>2, <1>3, <1>4, <1>5 DEF ControlsInv, QueueInOrder
<1>8. ASSUME NEW c \in Names \ lost', ~reused', control'[c] = Unset, HasValue(c)'
      PROVE  Coming(c)' \/ Asked(c)' \/ InForce(c)'
  <2>1. /\ c \notin lost /\ ~reused /\ control[c] = Unset /\ HasValue(c)
        /\ Requested(c)' = Requested(c) /\ latest[c] \in Requests /\ latest'[c] = latest[c]
        /\ carries[b][c] # Unset => ~Overtaken(b, c)
    BY <1>1, <1>2, <1>8 DEF HasValue, Requested
  <2>2. Coming(c) \/ Asked(c) \/ InForce(c)
    BY <2>1 DEF ControlsInv, LastIsCurrent
  <2>3. \A i \in DOMAIN queued : queued[i] # b
    BY <1>1, <2>1 DEF ControlsInv, QueueInOrder
  <2>4. CASE Coming(c)
    <3>1. CASE latest[c] = b
      <4>1. carries[b][c] = Requested(c) /\ n + 1 \in DOMAIN queued'
        BY <1>3, <2>4, <3>1 DEF Coming
      <4>2. \A j \in DOMAIN queued' : ~(j > n + 1)
        BY <1>3
      <4> QED BY <1>1, <1>3, <2>1, <3>1, <4>1, <4>2 DEF Asked
    <3>2. CASE latest[c] # b
      BY <1>1, <1>4, <2>1, <2>4, <3>2 DEF Coming
    <3> QED BY <3>1, <3>2
  <2>5. ASSUME NEW k \in DOMAIN queued, queued[k] = latest[c],
               carries[queued[k]][c] = Requested(c),
               \A j \in DOMAIN queued : j > k => carries[queued[j]][c] = Unset
        PROVE  Asked(c)'
    <3>1. latest[c] # b /\ turn[latest[c]] # "queue"
      BY <2>1, <2>3, <2>5 DEF ControlsInv, QueueInOrder
    <3>2. carries[b][c] = Unset
      BY <2>1, <3>1 DEF Overtaken
    <3>3. \A j \in DOMAIN queued' : j > k => carries[queued'[j]][c] = Unset
      BY <1>3, <1>5, <2>5, <3>2
    <3>4. k \in DOMAIN queued' /\ queued'[k] = queued[k]
      BY <1>3
    <3> QED BY <1>1, <2>1, <2>5, <3>3, <3>4 DEF Asked
  <2>6. CASE InForce(c)
    <3>1. carries[b][c] = Unset
      BY <1>1, <2>1, <2>6 DEF InForce, Overtaken
    <3>2. \A j \in DOMAIN queued' : carries[queued'[j]][c] = Unset
      BY <1>3, <1>5, <2>6, <3>1 DEF InForce
    <3>3. turn'[latest[c]] = "queue" => turn[latest[c]] = "queue"
      BY <1>4, <2>1
    <3> QED BY <1>1, <2>1, <2>6, <3>2, <3>3 DEF InForce
  <2> QED BY <2>2, <2>4, <2>5, <2>6 DEF Asked
<1>9. LastIsCurrent'
  BY <1>8 DEF LastIsCurrent
<1> QED BY <1>1, <1>6, <1>7, <1>9
    DEF ControlsInv, ExposureExclusive, TakenIsCurrent, HasValue

(* For any lists of parameters and any number of requests, defaults and    *)
(* declarations: the exposure is never automatic and fixed at once unless  *)
(* one list gave the mode both ways, what is taken is what the parameters  *)
(* say, and what was taken last is what the camera works with once it has  *)
(* everything, unless the code gave it up or let an older value overtake   *)
(* it (ParameterConflictHandler.cpp, PostSetApply, CameraNode.cpp).        *)
THEOREM ControlsAlwaysSound == ControlsSpec => []ControlsAreSound
<1>1. ControlsInit => ControlsInv
  BY ControlsInitially
<1>2. ControlsInv /\ [ControlsNext]_controlsVars => ControlsInv'
  <2> SUFFICES ASSUME ControlsInv, [ControlsNext]_controlsVars PROVE ControlsInv'
    OBVIOUS
  <2>1. CASE Sets
    BY <2>1, SetKeepsSound
  <2>2. ASSUME NEW b \in Requests, RequestDone(b) PROVE ControlsInv'
    BY <2>2, CompleteKeepsSound
  <2>0. pass \in [Requests -> 1 .. 3] /\ \A b \in Requests : PassOrder[pass[b]] \in Names
    BY ControlsAssumption DEF ControlsInv, ControlTypes
  <2>3. ASSUME NEW b \in Requests, WakesByItself(b) PROVE ControlsInv'
    <3>1. pass' \in [Requests -> 1 .. 3]
      BY <2>0, <2>3 DEF WakesByItself, Begins
    <3> QED BY <2>3, <3>1, ThreadMoves DEF WakesByItself, Begins, paramVars, historyVars
  <2>4. ASSUME NEW b \in Requests, Looks(b) PROVE ControlsInv'
    <3>1. /\ turn[b] = "redeclare"
          /\ \E w \in {"redeclare", "declare", "take"} : turn' = [turn EXCEPT ![b] = w]
          /\ UNCHANGED <<params, ranged, stored, control, carries, queued, applied, muddled,
                         latest, lost, reused>>
      BY <2>4 DEF Looks, Passes, paramVars, historyVars
    <3>2. pass' \in [Requests -> 1 .. 3]
      BY <2>0, <2>4 DEF Looks, Passes
    <3> QED BY <3>1, <3>2, ThreadMoves
  <2>5. ASSUME NEW b \in Requests, Declares(b) PROVE ControlsInv'
    <3>1. /\ turn[b] = "declare"
          /\ \E w \in {"redeclare", "declare", "take"} : turn' \in {turn, [turn EXCEPT ![b] = w]}
          /\ UNCHANGED <<stored, control, carries, queued, applied, muddled, latest, lost, reused>>
          /\ \/ UNCHANGED <<params, ranged>>
             \/ LET c == PassOrder[pass[b]]
                IN /\ params[c] = Undeclared
                   /\ params' = [params EXCEPT ![c] = Unset] /\ ranged' = ranged \ {c}
      BY <2>5 DEF Declares, Passes, paramVars, historyVars
    <3>2. pass' \in [Requests -> 1 .. 3]
      BY <2>0, <2>5 DEF Declares, Passes
    <3> QED BY <2>0, <3>1, <3>2, ThreadMoves
  <2>6. ASSUME NEW b \in Requests, Takes(b) PROVE ControlsInv'
    BY <2>6, TakeKeepsSound
  <2>7. ASSUME NEW b \in Requests, Queues(b) PROVE ControlsInv'
    BY <2>7, QueueKeepsSound
  <2>8. CASE UNCHANGED controlsVars
    <3>1. UNCHANGED <<params, ranged, stored, control, turn, pass, carries, queued, applied,
                      muddled, latest, lost, reused>>
      BY <2>8 DEF controlsVars, paramVars, threadVars, historyVars
    <3> QED BY <3>1
        DEF ControlsInv, ControlTypes, ExposureExclusive, TakenIsCurrent, QueueInOrder,
            LastIsCurrent, HasValue, Coming, Asked, InForce, Requested
  <2> QED BY <2>1, <2>2, <2>3, <2>4, <2>5, <2>6, <2>7, <2>8 DEF ControlsNext
<1>3. ControlsInv => ControlsAreSound
  <2> SUFFICES ASSUME ControlsInv PROVE AppliedIsCurrent
    BY DEF ControlsInv, ControlsAreSound
  <2> SUFFICES ASSUME NEW c \in Names \ lost, ~reused, ~Pending(c), HasValue(c)
               PROVE  applied[c] = Narrow(params[c])
    BY DEF AppliedIsCurrent
  <2>1. control[c] = Unset /\ latest[c] \in Requests
    BY DEF Pending, ControlsInv, ControlTypes
  <2>2. Requested(c) # Unset
    BY DEF HasValue, Requested, Narrow, Unset, Wide
  <2>3. Coming(c) \/ Asked(c) \/ InForce(c)
    BY <2>1 DEF ControlsInv, LastIsCurrent
  <2> QED BY <2>1, <2>2, <2>3 DEF Pending, Coming, Asked, InForce, Requested
<1> QED BY <1>1, <1>2, <1>3, PTL DEF ControlsSpec

-----------------------------------------------------------------------------
\* Values

DefaultsSet ==
  /\ info \in Offered
  /\ state # "known" =>
       \E cv \in ClampedValues(info.type, DefaultOf(info), info.min, info.max) :
         value = ToParameter(info.type, cv)
  /\ OnlyMisfitsAreRejected

(* A clamped number is within its bounds.                                  *)
LEMMA NumberIsClamped ==
  ASSUME NEW x \in Int, NEW lo \in Int, NEW hi \in Int, lo <= hi
  PROVE  /\ Clamped(x, lo, hi) \in Int
         /\ lo <= Clamped(x, lo, hi) /\ Clamped(x, lo, hi) <= hi
BY DEF Clamped

(* What is left of a number is its remainder.                              *)
LEMMA RemainderIsLeft ==
  ASSUME NEW w \in Nat \ {0}, NEW a \in Int
  PROVE  a = w * (a \div w) + (a % w) /\ a \div w \in Int /\ a % w \in 0 .. w - 1
OBVIOUS

(* A number below the divisor is the remainder, whatever multiple is taken. *)
LEMMA RemainderIsOne ==
  ASSUME NEW w \in Nat \ {0}, NEW q \in Int, NEW r \in 0 .. w - 1
  PROVE  (r - w * q) % w = r
OBVIOUS

(* A side less the corner, as an unsigned width, added to the corner, is   *)
(* the side again, wherever either wraps around.                           *)
LEMMA SideIsBack ==
  ASSUME ValuesAssumption, NEW x \in Int, NEW side \in 0 .. Word - 1
  PROVE  Unsigned(side - x) \in Int /\ Unsigned(x + Unsigned(side - x)) = side
<1> DEFINE q == (side - x) \div Word
<1>1. Word \in Nat \ {0}
  BY DEF ValuesAssumption
<1>2. q \in Int /\ (side - x) % Word \in Int /\ x + ((side - x) % Word) = side - Word * q
  BY <1>1, RemainderIsLeft
<1> QED BY <1>1, <1>2, RemainderIsOne DEF Unsigned

(* A side between bounds in order is clamped to them.                      *)
LEMMA SideIsClamped ==
  ASSUME NEW v \in 0 .. Word - 1, NEW lo \in 0 .. Word - 1, NEW hi \in 0 .. Word - 1,
         NEW side \in Side(v, lo, hi)
  PROVE  side \in 0 .. Word - 1 /\ (lo <= hi => lo <= side /\ side <= hi)
BY DEF Side, Clamped

(* A rectangle clamped between bounds is neither enclosed by the one nor   *)
(* encloses the other, unless both their far sides are out of order.       *)
LEMMA RectangleIsClamped ==
  ASSUME ValuesAssumption, NEW r \in Rectangles, NEW lo \in Rectangles, NEW hi \in Rectangles,
         Ordered("Rectangle", lo, hi), ~(Right(hi) < Right(lo) /\ Top(hi) < Top(lo)),
         NEW c \in ClampedRectangles(r, lo, hi)
  PROVE  /\ c = [x |-> c.x, y |-> c.y, width |-> c.width, height |-> c.height]
         /\ ~Less("Rectangle", c, lo) /\ ~Less("Rectangle", hi, c)
<1> DEFINE x == Clamped(r.x, lo.x, hi.x)
           y == Clamped(r.y, lo.y, hi.y)
<1>1. /\ r.x \in Int /\ r.y \in Int /\ r.width \in Int /\ r.height \in Int
      /\ lo.x \in Int /\ lo.y \in Int /\ lo.width \in Int /\ lo.height \in Int
      /\ hi.x \in Int /\ hi.y \in Int /\ hi.width \in Int /\ hi.height \in Int
  BY DEF ValuesAssumption
<1>2. x \in Int /\ y \in Int
  BY <1>1 DEF Ordered, Clamped
<1>3. PICK right \in Side(Unsigned(x + r.width), Right(lo), Right(hi)),
           top \in Side(Unsigned(y + r.height), Top(lo), Top(hi)) :
        c = [x |-> x, y |-> y, width |-> Unsigned(right - x), height |-> Unsigned(top - y)]
  BY DEF ClampedRectangles
<1> HIDE DEF x, y
<1>4. \A a \in Int : Unsigned(a) \in 0 .. Word - 1
  BY RemainderIsLeft DEF ValuesAssumption, Unsigned
<1>5. /\ Unsigned(x + r.width) \in 0 .. Word - 1 /\ Unsigned(y + r.height) \in 0 .. Word - 1
      /\ Right(lo) \in 0 .. Word - 1 /\ Right(hi) \in 0 .. Word - 1
      /\ Top(lo) \in 0 .. Word - 1 /\ Top(hi) \in 0 .. Word - 1
  BY <1>1, <1>2, <1>4 DEF Right, Top
<1>6. /\ right \in 0 .. Word - 1
      /\ Right(lo) <= Right(hi) => Right(lo) <= right /\ right <= Right(hi)
  BY <1>5, SideIsClamped
<1>7. /\ top \in 0 .. Word - 1
      /\ Top(lo) <= Top(hi) => Top(lo) <= top /\ top <= Top(hi)
  BY <1>5, SideIsClamped
<1>8. Right(c) = right /\ Top(c) = top
  BY <1>2, <1>3, <1>6, <1>7, SideIsBack DEF Right, Top
<1>9. \/ Right(lo) <= right /\ right <= Right(hi)
      \/ Top(lo) <= top /\ top <= Top(hi)
  BY <1>5, <1>6, <1>7
<1>10. ~Less("Rectangle", c, lo) /\ ~Less("Rectangle", hi, c)
  BY <1>5, <1>6, <1>7, <1>8, <1>9 DEF Less
<1>11. c = [x |-> c.x, y |-> c.y, width |-> c.width, height |-> c.height]
  BY <1>3
<1> QED BY <1>10, <1>11

(* What a camera offers, by parts.                                         *)
LEMMA OfferedParts ==
  ASSUME NEW c \in Offered
  PROVE  /\ c.type \in Types /\ c.extent \in {0, 2, 3, Dynamic}
         /\ c.min \in ControlValuesOf(c.type) /\ c.max \in ControlValuesOf(c.type)
         /\ c.def \in ControlValuesOf(c.type) \cup {None}
         /\ Supported(c.type, c.extent) /\ SameShape(c.min, c.max)
         /\ \A i \in DOMAIN c.min.v : Ordered(c.type, c.min.v[i], c.max.v[i])
         /\ c.extent = 0 => ~c.min.array /\ ~c.def.array
         /\ c.min.array => c.def = None \/ SameShape(c.def, c.min)
BY DEF Offered

(* A value of a control is one element or an array of one or two.          *)
LEMMA ValueShape ==
  ASSUME NEW type \in Types, NEW v \in ControlValuesOf(type)
  PROVE  /\ v.v # << >> /\ v # None
         /\ \/ \E e \in Elements(type) : v = Scalar(e)
            \/ /\ v.array /\ type # "Rectangle"
               /\ \E n \in {1, 2} : \E s \in [1 .. n -> Elements(type)] :
                    v = Array(s) /\ s \in Seq(Elements(type)) /\ Len(s) = n /\ DOMAIN s = 1 .. n
<1>1. ASSUME NEW e \in Elements(type), v = Scalar(e)
      PROVE  v.v # << >> /\ v # None
  <2>1. v.v = <<e>> /\ <<e>> # << >>
    BY <1>1 DEF Scalar
  <2> QED BY <2>1 DEF None
<1>2. ASSUME NEW n \in {1, 2}, NEW s \in [1 .. n -> Elements(type)], v = Array(s)
      PROVE  /\ v.v # << >> /\ v # None
             /\ s \in Seq(Elements(type)) /\ Len(s) = n /\ DOMAIN s = 1 .. n /\ v.array
  <2>1. s \in Seq(Elements(type)) /\ DOMAIN s = 1 .. n
    BY SeqDef
  <2>2. Len(s) = n
    BY <2>1, LenProperties
  <2>3. s # << >> /\ v.v = s /\ v.array
    BY <1>2, <2>2 DEF Array
  <2> QED BY <2>1, <2>2, <2>3 DEF None
<1>3. \/ \E e \in Elements(type) : v = Scalar(e)
      \/ /\ type # "Rectangle"
         /\ \E n \in {1, 2} : \E s \in [1 .. n -> Elements(type)] : v = Array(s)
  BY DEF ControlValuesOf
<1> QED BY <1>1, <1>2, <1>3

(* No default becomes a parameter that is not set.                         *)
LEMMA NothingIsNothing ==
  ASSUME NEW c \in Offered, DefaultOf(c) = None,
         NEW cv \in ClampedValues(c.type, DefaultOf(c), c.min, c.max)
  PROVE  LET p == ToParameter(c.type, cv) IN InRange(c, p) /\ Valid(c, p)
<1> DEFINE f == [i \in DOMAIN None.v |-> IF c.type = "Bool" THEN None.v[i]
                                         ELSE Clamped(None.v[i], At(c.min, i), At(c.max, i))]
<1>1. f = << >>
  <2>1. DOMAIN None.v = 1 .. 0
    BY DEF None
  <2>2. f \in [1 .. 0 -> {}]
    BY <2>1
  <2>3. f \in Seq({}) /\ Len(f) = 0
    BY <2>2, SeqDef, LenProperties
  <2> QED BY <2>3, EmptySeq
<1>2. cv = [None EXCEPT !.v = f]
  BY DEF ClampedValues
<1> HIDE DEF f
<1>3. cv.v = << >>
  BY <1>1, <1>2 DEF None
<1>4. ToParameter(c.type, cv) = Parameter("not_set", << >>)
  BY <1>3 DEF ToParameter
<1> QED BY <1>4 DEF InRange, Valid, Parameter

(* The default of a control without extent is accepted, unless it is a     *)
(* misfit; a Bool that is one is not.                                      *)
LEMMA OneIsJudged ==
  ASSUME ValuesAssumption, NEW c \in Offered, c.extent = 0, DefaultOf(c) # None,
         NEW cv \in ClampedValues(c.type, DefaultOf(c), c.min, c.max)
  PROVE  LET p == ToParameter(c.type, cv) IN
         /\ ~Misfit(c) => InRange(c, p) /\ Valid(c, p)
         /\ Misfit(c) /\ c.type # "Rectangle" => ~(InRange(c, p) /\ Valid(c, p))
<1> DEFINE p == ToParameter(c.type, cv)
<1>1. /\ c.type \in Types /\ DefaultOf(c) = c.def /\ c.def # None
      /\ c.min \in ControlValuesOf(c.type) /\ c.max \in ControlValuesOf(c.type)
      /\ c.def \in ControlValuesOf(c.type)
      /\ \A i \in DOMAIN c.min.v : Ordered(c.type, c.min.v[i], c.max.v[i])
      /\ ~c.min.array /\ ~c.max.array /\ ~c.def.array
  BY OfferedParts DEF DefaultOf, SameShape
<1>2. PICK e \in Elements(c.type), l \in Elements(c.type), h \in Elements(c.type) :
        c.def = Scalar(e) /\ c.min = Scalar(l) /\ c.max = Scalar(h)
  BY <1>1, ValueShape
<1>3. /\ Ordered(c.type, l, h) /\ At(c.min, 1) = l /\ At(c.max, 1) = h
      /\ c.def.v[1] = e /\ c.min.v[1] = l /\ c.max.v[1] = h
  BY <1>1, <1>2 DEF Scalar, At
<1>4. PICK d :
        /\ cv = Scalar(d)
        /\ c.type = "Rectangle" => d \in ClampedRectangles(e, l, h)
        /\ c.type = "Bool" => d = e
        /\ c.type \in {"Integer32", "Byte"} => d = Clamped(e, l, h)
  <2>1. CASE c.type = "Rectangle"
    <3>1. cv \in {Scalar(r) : r \in ClampedRectangles(e, l, h)}
      BY <1>1, <1>3, <2>1 DEF ClampedValues
    <3> QED BY <2>1, <3>1
  <2>2. CASE c.type # "Rectangle"
    <3> DEFINE d == IF c.type = "Bool" THEN e ELSE Clamped(e, l, h)
               f == [i \in DOMAIN <<e>> |->
                       IF c.type = "Bool" THEN <<e>>[i]
                       ELSE Clamped(<<e>>[i], At(c.min, i), At(c.max, i))]
    <3>1. DOMAIN <<e>> = {1} /\ <<e>>[1] = e /\ DOMAIN <<d>> = {1} /\ <<d>>[1] = d
      OBVIOUS
    <3>2. f = [i \in {1} |-> d]
      BY <1>3, <3>1
    <3>3. <<d>> = [i \in {1} |-> d]
      BY <3>1
    <3>4. c.def = [array |-> FALSE, v |-> <<e>>] /\ c.def.v = <<e>>
      BY <1>2 DEF Scalar
    <3> DEFINE g == [i \in DOMAIN c.def.v |->
                       IF c.type = "Bool" THEN c.def.v[i]
                       ELSE Clamped(c.def.v[i], At(c.min, i), At(c.max, i))]
    <3>5. cv = [c.def EXCEPT !.v = g]
      BY <1>1, <2>2 DEF ClampedValues
    <3>6. g = f
      BY <3>4
    <3> HIDE DEF f, g
    <3>7. cv = [[array |-> FALSE, v |-> <<e>>] EXCEPT !.v = f]
      BY <3>4, <3>5, <3>6
    <3>8. cv = Scalar(d)
      BY <3>2, <3>3, <3>7 DEF Scalar
    <3> QED BY <2>2, <3>8
  <2> QED BY <2>1, <2>2
<1>5. p = CASE c.type = "Rectangle" ->
                 Parameter("integer_array", <<d.x, d.y, d.width, d.height>>)
            [] c.type # "Rectangle" -> Parameter(ParameterType(c.type, 0), <<d>>)
  BY <1>4 DEF ToParameter, Scalar
<1> HIDE DEF p
<1>6. /\ BelowBound(c.type, Scalar(d), c.min) <=> Less(c.type, d, l)
      /\ AboveBound(c.type, Scalar(d), c.max) <=> Less(c.type, h, d)
  <2>1. Scalar(d).v = <<d>> /\ DOMAIN <<d>> = {1} /\ <<d>>[1] = d
    BY DEF Scalar
  <2> QED BY <1>3, <2>1 DEF BelowBound, AboveBound
<1>7. CASE c.type = "Rectangle"
  <2>1. SUFFICES ASSUME ~Misfit(c) PROVE InRange(c, p) /\ Valid(c, p)
    BY <1>7 DEF p
  <2>2. ~(Right(h) < Right(l) /\ Top(h) < Top(l))
    BY <1>3, <1>7, <2>1 DEF Misfit
  <2>3. e \in Rectangles /\ l \in Rectangles /\ h \in Rectangles
    BY <1>7 DEF Elements
  <2>4. /\ d = [x |-> d.x, y |-> d.y, width |-> d.width, height |-> d.height]
        /\ ~Less(c.type, d, l) /\ ~Less(c.type, h, d)
    BY <1>3, <1>4, <1>7, <2>2, <2>3, RectangleIsClamped
  <2>5. p = Parameter("integer_array", <<d.x, d.y, d.width, d.height>>)
    BY <1>5, <1>7
  <2>6. ToControl(p, c.type) = Scalar(d) /\ Len(p.v) = 4
    BY <1>7, <2>4, <2>5 DEF ToControl, Parameter
  <2>7. InRange(c, p)
    BY <2>5 DEF InRange, Parameter
  <2>8. p.type = ParameterType(c.type, c.extent) /\ Convertible(p, c.type)
    BY <1>7, <2>5, <2>6 DEF ParameterType, Convertible, Parameter
  <2> QED BY <1>6, <2>4, <2>6, <2>7, <2>8 DEF Valid, Scalar
<1>8. CASE c.type # "Rectangle"
  <2>1. /\ e \in Int /\ l \in Int /\ h \in Int /\ l <= h
        /\ c.type # "Bool" => d \in Int /\ l <= d /\ d <= h
        /\ c.type = "Bool" => d = e
    <3>1. e \in Int /\ l \in Int /\ h \in Int
      <4>1. Elements("Bool") = {0, 1} /\ Elements("Byte") = Numbers \cap Nat
        BY DEF Elements
      <4>2. Elements("Integer32") = Numbers /\ Numbers \subseteq Int
        BY DEF Elements, ValuesAssumption
      <4>3. c.type \in {"Bool", "Byte", "Integer32"}
        BY <1>1, <1>8 DEF Types
      <4>4. Elements(c.type) \subseteq Int
        <5>1. CASE c.type = "Bool"
          BY <4>1, <5>1
        <5>2. CASE c.type = "Byte"
          BY <4>1, <5>2
        <5>3. CASE c.type = "Integer32"
          BY <4>2, <5>3
        <5> QED BY <4>3, <5>1, <5>2, <5>3
      <4> QED BY <1>2, <4>4
    <3>2. l <= h
      BY <1>3, <1>8 DEF Ordered
    <3>3. c.type # "Bool" => d = Clamped(e, l, h)
      BY <1>1, <1>4, <1>8 DEF Types
    <3>4. c.type # "Bool" => d \in Int /\ l <= d /\ d <= h
      BY <3>1, <3>2, <3>3, NumberIsClamped
    <3> QED BY <1>4, <3>1, <3>2, <3>4
  <2>2. p.type = ParameterType(c.type, 0) /\ p.type \in {"bool", "integer"} /\ p.v = <<d>>
    BY <1>1, <1>5, <1>8 DEF ParameterType, Parameter, Types
  <2>3. ToControl(p, c.type) = Scalar(d)
    BY <2>2 DEF ToControl
  <2>4. Valid(c, p) <=> ~(d < l) /\ ~(h < d)
    <3>1. p.type # "not_set" /\ Convertible(p, c.type) /\ ~Scalar(d).array
      BY <2>2 DEF Convertible, Scalar
    <3>2. /\ BelowBound(c.type, Scalar(d), c.min) <=> d < l
          /\ AboveBound(c.type, Scalar(d), c.max) <=> h < d
      BY <1>6, <1>8 DEF Less
    <3> QED BY <2>2, <2>3, <3>1, <3>2 DEF Valid
  <2>5. c.type # "Bool" => InRange(c, p)
    <3> SUFFICES ASSUME c.type # "Bool" PROVE InRange(c, p)
      OBVIOUS
    <3> DEFINE lows == {c.min.v[i] : i \in DOMAIN c.min.v}
               highs == {c.max.v[i] : i \in DOMAIN c.max.v}
    <3>1. lows = {l} /\ highs = {h}
      <4>1. DOMAIN <<l>> = {1} /\ <<l>>[1] = l /\ DOMAIN <<h>> = {1} /\ <<h>>[1] = h
        OBVIOUS
      <4>2. c.min.v = <<l>> /\ c.max.v = <<h>>
        BY <1>2 DEF Scalar
      <4> QED BY <4>1, <4>2
    <3>2. RangeOf(c) = [from |-> CHOOSE a \in lows : \A b \in lows : b <= a,
                        to   |-> CHOOSE a \in highs : \A b \in highs : a <= b]
      BY DEF RangeOf
    <3> HIDE DEF lows, highs
    <3>3. /\ (CHOOSE a \in lows : \A b \in lows : b <= a) = l
          /\ (CHOOSE a \in highs : \A b \in highs : a <= b) = h
      BY ONLY <2>1, <3>1
    <3>4. RangeOf(c).from = l /\ RangeOf(c).to = h
      BY <3>2, <3>3
    <3> QED BY <2>1, <2>2, <3>4 DEF InRange
  <2>6. Misfit(c) <=> c.type = "Bool" /\ (d < l \/ h < d)
    BY <1>1, <1>3, <1>8, <2>1 DEF Misfit
  <2>7. c.type = "Bool" => InRange(c, p)
    BY DEF InRange
  <2> QED BY <2>1, <2>4, <2>5, <2>6, <2>7 DEF p
<1> QED BY <1>7, <1>8

(* The default of a control with an extent is accepted if it is not a      *)
(* misfit, and only then.                                                  *)
LEMMA ManyAreJudged ==
  ASSUME ValuesAssumption, NEW c \in Offered, c.extent # 0, DefaultOf(c) # None,
         NEW cv \in ClampedValues(c.type, DefaultOf(c), c.min, c.max)
  PROVE  LET p == ToParameter(c.type, cv) IN ~Misfit(c) <=> InRange(c, p) /\ Valid(c, p)
<1> DEFINE p == ToParameter(c.type, cv)
<1>1. /\ c.type \in {"Integer32", "Bool", "Byte"}
      /\ DefaultOf(c) = c.def /\ c.def # None /\ c.extent \in {2, 3, Dynamic} /\ Dynamic # 0
      /\ c.min \in ControlValuesOf(c.type) /\ c.max \in ControlValuesOf(c.type)
      /\ c.def \in ControlValuesOf(c.type) /\ (c.extent # Dynamic => c.def.array)
      /\ \A i \in DOMAIN c.min.v : Ordered(c.type, c.min.v[i], c.max.v[i])
      /\ SameShape(c.min, c.max) /\ (c.min.array => SameShape(c.def, c.min))
  BY OfferedParts DEF DefaultOf, Types, Supported, ValuesAssumption
<1> DEFINE f == [i \in DOMAIN c.def.v |-> IF c.type = "Bool" THEN c.def.v[i]
                                          ELSE Clamped(c.def.v[i], At(c.min, i), At(c.max, i))]
<1>2. PICK n \in {1, 2} :
        \/ n = 1 /\ \E e : c.def = [array |-> FALSE, v |-> <<e>>]
        \/ /\ c.def.array
           /\ \E s : c.def = [array |-> TRUE, v |-> s] /\ Len(s) = n /\ DOMAIN s = 1 .. n
  <2>1. \/ \E e \in Elements(c.type) : c.def = Scalar(e)
        \/ \E n \in {1, 2} : \E s \in [1 .. n -> Elements(c.type)] :
             c.def = Array(s) /\ Len(s) = n /\ DOMAIN s = 1 .. n
    BY <1>1, ValueShape DEF Types
  <2>2. ASSUME NEW e \in Elements(c.type), c.def = Scalar(e)
        PROVE  c.def = [array |-> FALSE, v |-> <<e>>]
    BY <2>2 DEF Scalar
  <2>3. ASSUME NEW n \in {1, 2}, NEW s \in [1 .. n -> Elements(c.type)], c.def = Array(s)
        PROVE  c.def.array /\ c.def = [array |-> TRUE, v |-> s]
    BY <2>3 DEF Array
  <2> QED BY <2>1, <2>2, <2>3
<1>3. DOMAIN c.def.v = 1 .. n /\ Len(c.def.v) = n
  <2>1. ASSUME NEW e, c.def = [array |-> FALSE, v |-> <<e>>]
        PROVE  DOMAIN c.def.v = 1 .. 1 /\ Len(c.def.v) = 1
    <3>1. c.def.v = <<e>>
      BY <2>1
    <3> QED BY <3>1
  <2>2. ASSUME NEW s, c.def = [array |-> TRUE, v |-> s]
        PROVE  c.def.v = s
    BY <2>2
  <2> QED BY <1>2, <2>1, <2>2
<1>4. cv.v = f /\ cv.array = c.def.array /\ (cv.array => cv = Array(f))
  <2>1. cv = [c.def EXCEPT !.v = f]
    BY <1>1 DEF ClampedValues
  <2>2. \E b \in BOOLEAN : \E s : c.def = [array |-> b, v |-> s]
    BY <1>2
  <2> HIDE DEF f
  <2> QED BY <2>1, <2>2 DEF Array
<1>5. Len(f) = n /\ DOMAIN f = 1 .. n /\ f # << >>
  <2>1. DOMAIN f = 1 .. n
    BY <1>3
  <2> DEFINE R == {f[i] : i \in 1 .. n}
  <2>2. f \in [1 .. n -> R]
    BY <2>1
  <2> HIDE DEF f, R
  <2>3. f \in Seq(R) /\ n \in Nat
    BY <1>2, <2>2, SeqDef
  <2>4. Len(f) = n
    BY <2>1, <2>3, LenProperties
  <2> QED BY <1>2, <2>1, <2>3, <2>4, EmptySeq
<1> HIDE DEF f, p
<1>6. CASE n = 1
  <2>1. Misfit(c)
    BY <1>1, <1>3, <1>6 DEF Misfit
  <2>2. f # << >> /\ Len(f) = 1
    BY <1>5, <1>6
  <2>3. p = Parameter(ParameterType(c.type, 0), cv.v)
    BY <1>1, <1>4, <2>2 DEF ToParameter, p
  <2>4. /\ p.type \in {"bool", "integer"}
        /\ ParameterType(c.type, c.extent) \in {"bool_array", "integer_array"}
    BY <1>1, <2>3 DEF ParameterType, Parameter
  <2>5. ~Valid(c, p)
    BY <2>4 DEF Valid
  <2> QED BY <2>1, <2>5 DEF p
<1>7. CASE n = 2 /\ c.type # "Integer32"
  <2>1. Misfit(c)
    BY <1>1, <1>7 DEF Misfit
  <2>2. f # << >> /\ Len(f) > 1 /\ Len(f) # 1
    BY <1>5, <1>7
  <2>3. p.type = IF c.type = "Byte" THEN "byte_array" ELSE ParameterType(c.type, Dynamic)
    BY <1>1, <1>4, <2>2 DEF ToParameter, Parameter, p
  <2>4. p.type \in {"byte_array", "bool_array"}
    BY <1>1, <1>7, <2>3 DEF ParameterType
  <2>5. p.type # "not_set" /\ (p.type = ParameterType(c.type, c.extent) => ~Convertible(p, c.type))
    BY <1>1, <1>7, <2>3, <2>4 DEF ParameterType, Convertible
  <2> QED BY <2>1, <2>5 DEF Valid, p
<1>8. CASE n = 2 /\ c.type = "Integer32"
  <2>1. f # << >> /\ Len(f) > 1 /\ Len(f) # 1 /\ DOMAIN f = {1, 2}
    BY <1>5, <1>8
  <2>2. p = Parameter("integer_array", f)
    BY <1>1, <1>4, <1>8, <2>1 DEF ToParameter, ParameterType, p
  <2>3. cv = Array(f)
    <3>1. c.def.array
      BY <1>2, <1>8
    <3> QED BY <1>4, <3>1
  <2>4. ToControl(p, c.type) = Array(f)
    BY <1>8, <2>2 DEF ToControl, Parameter
  <2>5. InRange(c, p)
    BY <2>2 DEF InRange, Parameter
  <2>6. /\ p.type = ParameterType(c.type, c.extent) /\ Convertible(p, c.type)
        /\ p.type # "not_set"
    BY <1>8, <2>2 DEF ParameterType, Convertible, Parameter
  <2>7. ~BelowBound(c.type, Array(f), c.min) /\ ~AboveBound(c.type, Array(f), c.max)
    <3>1. ASSUME NEW i \in {1, 2}
          PROVE  ~(f[i] < At(c.min, i)) /\ ~(At(c.max, i) < f[i])
      <4>1. Elements(c.type) \subseteq Int
        BY <1>8 DEF Elements, ValuesAssumption
      <4>2. c.def.v[i] \in Int
        BY <1>1, <1>3, <1>8, <4>1, ValueShape DEF Scalar, Array, Types
      <4>3. At(c.min, i) \in Int /\ At(c.max, i) \in Int /\ At(c.min, i) <= At(c.max, i)
        <5>1. CASE ~c.min.array
          <6>1. PICK l \in Elements(c.type), h \in Elements(c.type) :
                  c.min = Scalar(l) /\ c.max = Scalar(h)
            BY <1>1, <5>1, ValueShape DEF Types, SameShape
          <6>2. /\ At(c.min, i) = l /\ At(c.max, i) = h /\ 1 \in DOMAIN c.min.v
                /\ c.min.v[1] = l /\ c.max.v[1] = h
            BY <6>1 DEF At, Scalar
          <6> QED BY <1>1, <1>8, <4>1, <6>1, <6>2 DEF Ordered
        <5>2. CASE c.min.array
          <6>1. c.max.array /\ Len(c.min.v) = 2 /\ Len(c.max.v) = 2
            BY <1>1, <1>3, <1>8, <5>2 DEF SameShape
          <6>2. /\ c.min.v \in [1 .. 2 -> Elements(c.type)]
                /\ c.max.v \in [1 .. 2 -> Elements(c.type)]
            BY <1>1, <5>2, <6>1, ValueShape DEF Scalar, Array, Types
          <6> QED BY <1>1, <1>8, <4>1, <5>2, <6>1, <6>2 DEF At, Ordered
        <5> QED BY <5>1, <5>2
      <4>4. f[i] = Clamped(c.def.v[i], At(c.min, i), At(c.max, i))
        BY <1>3, <1>8 DEF f
      <4>5. At(c.min, i) <= f[i] /\ f[i] <= At(c.max, i) /\ f[i] \in Int
        BY <4>2, <4>3, <4>4, NumberIsClamped
      <4> QED BY <4>3, <4>5
    <3> QED BY <1>8, <2>1, <3>1 DEF BelowBound, AboveBound, Less, Array
  <2>8. Valid(c, p) <=> (c.extent # Dynamic => Len(f) = c.extent)
    BY <2>4, <2>6, <2>7 DEF Valid, Array
  <2>9. Misfit(c) <=> c.extent # Dynamic /\ c.extent # 2
    BY <1>1, <1>3, <1>8 DEF Misfit
  <2> QED BY <1>5, <1>8, <2>5, <2>8, <2>9 DEF p
<1> QED BY <1>2, <1>6, <1>7, <1>8

(* For any values a camera may offer and any width of a word: the default  *)
(* of a control is rejected as a parameter only if it is one of the        *)
(* misfits, and a misfit is, unless it is a rectangle                      *)
(* (ParameterHandler::declare).                                            *)
THEOREM AlwaysOnlyMisfitsAreRejected == ValuesSpec => []OnlyMisfitsAreRejected
<1>1. ValuesInit => DefaultsSet
  BY DEF ValuesInit, DefaultsSet, OnlyMisfitsAreRejected
<1>2. DefaultsSet /\ [ValuesNext]_valuesVars => DefaultsSet'
  <2> SUFFICES ASSUME DefaultsSet, [ValuesNext]_valuesVars PROVE DefaultsSet'
    OBVIOUS
  <2>1. CASE DeclaresDefault
    BY <2>1 DEF DefaultsSet, DeclaresDefault, OnlyMisfitsAreRejected
  <2>2. CASE SetsDefault
    <3>1. PICK cv \in ClampedValues(info.type, DefaultOf(info), info.min, info.max) :
            value = ToParameter(info.type, cv)
      BY <2>2 DEF DefaultsSet, SetsDefault
    <3>2. /\ ~Misfit(info) => InRange(info, value) /\ Valid(info, value)
          /\ Misfit(info) /\ info.type # "Rectangle" =>
               ~(InRange(info, value) /\ Valid(info, value))
      <4>1. CASE DefaultOf(info) = None
        BY <3>1, <4>1, NothingIsNothing DEF DefaultsSet, Misfit
      <4>2. CASE DefaultOf(info) # None /\ info.extent = 0
        BY <3>1, <4>2, ValuesAssumption, OneIsJudged DEF DefaultsSet
      <4>3. CASE DefaultOf(info) # None /\ info.extent # 0
        BY <3>1, <4>3, ValuesAssumption, ManyAreJudged DEF DefaultsSet
      <4> QED BY <4>1, <4>2, <4>3
    <3>3. OnlyMisfitsAreRejected'
      BY <2>2, <3>2 DEF SetsDefault, OnlyMisfitsAreRejected
    <3> QED BY <2>2, <3>1, <3>3 DEF DefaultsSet, SetsDefault
  <2>3. CASE UNCHANGED valuesVars
    BY <2>3 DEF DefaultsSet, valuesVars, OnlyMisfitsAreRejected
  <2> QED BY <2>1, <2>2, <2>3 DEF ValuesNext
<1>3. DefaultsSet => OnlyMisfitsAreRejected
  BY DEF DefaultsSet
<1> QED BY <1>1, <1>2, <1>3, PTL DEF ValuesSpec
=============================================================================

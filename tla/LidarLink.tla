----------------------------- MODULE LidarLink -----------------------------
(***************************************************************************)
(* The lidar driver's link to its device: the receiving thread and the     *)
(* decoder thread of sl_async_transceiver.cpp, the codec between its calls *)
(* (sl_lidarprotocol_codec.cpp), and the two ways sl_lidar_driver.cpp      *)
(* sends a command.  The bytes of a scan are ScanStream's; here a frame is *)
(* one decoded message: an answer of some type, the descriptor that begins *)
(* a scan, or a sample.                                                    *)
(*                                                                         *)
(* A lock is the name of the thread that holds it.  The application's      *)
(* thread works through `todo', the steps of the driver's call it is in;   *)
(* LidarCalls says which.                                                  *)
(***************************************************************************)
EXTENDS LidarCalls

CONSTANTS MaxLost, MaxLate   \* frames lost; answers later than their time-out

ASSUME LinkAssumption == MaxLost \in Nat /\ MaxLate \in Nat

VARIABLES
  port,       \* [bound, working, broken]: _bindedChannel # NULL, _isWorking, no device there
  rx,         \* the receiving thread: "none" or "run"
  dec,        \* the decoder thread: [at, frame]
  rxq,        \* _rxQueue
  codecMode,      \* RPLidarProtocolCodec: "plain" or "loop"
  dataLock, codecLock,
  driver,     \* [connected, waiting, event, answer, enabled, support]
  scanReady,     \* _scanHolder: a scan waits in it, of the scan command with this number, or 0
  app,        \* [at, todo, ok]: where the application's thread is in its call
  device,     \* [scanning, speed]
  air,        \* the frames it sends and nobody has received
  lost, late, \* history: frames lost, answers that came after their time-out
  starts,     \* history: scan commands so far, modulo 2
  raced       \* history: the decoder had matched a frame when a new answer was asked for

linkVars == <<port, rx, dec, rxq, codecMode, dataLock, codecLock, driver, scanReady, app,
              device, air, lost, late, starts, raced>>

NoFrame  == "none"
Idle     == [at |-> "idle", frame |-> NoFrame]
QueueLen == 1   \* frames in _rxQueue

LinkInit ==
  /\ port = [bound |-> FALSE, working |-> FALSE, broken |-> FALSE]
  /\ rx = "none" /\ dec = [Idle EXCEPT !.at = "none"]
  /\ rxq = << >> /\ codecMode = "plain"
  /\ dataLock = "free" /\ codecLock = "free"
  /\ driver = [connected |-> FALSE, waiting |-> NoFrame, event |-> FALSE,
               answer |-> NoFrame, enabled |-> FALSE, support |-> "none"]
  /\ scanReady = 0
  /\ app = [at |-> "out", todo |-> << >>, ok |-> TRUE]
  /\ device = [scanning |-> FALSE, speed |-> "off"]
  /\ air = << >> /\ lost = 0 /\ late = 0 /\ starts = 0 /\ raced = FALSE

-----------------------------------------------------------------------------
(* The device and the wire.                                                *)

DeviceSamples ==
  /\ device.scanning /\ air = << >> /\ rxq = << >> /\ dec.at = "idle"
  /\ ~port.broken
  /\ air' = <<"sample">>
  /\ UNCHANGED <<port, rx, dec, rxq, codecMode, dataLock, codecLock, driver, scanReady, app,
                 device, lost, late, starts, raced>>

FrameLost ==
  /\ air # << >> /\ lost < MaxLost
  /\ air' = Tail(air) /\ lost' = lost + 1
  /\ UNCHANGED <<port, rx, dec, rxq, codecMode, dataLock, codecLock, driver, scanReady, app,
                 device, late, starts, raced>>

\* The cable is pulled; the device stands still.
Unplugged ==
  /\ port.working /\ ~port.broken /\ lost < MaxLost
  /\ port' = [port EXCEPT !.broken = TRUE] /\ lost' = MaxLost
  /\ device' = [scanning |-> FALSE, speed |-> "off"] /\ air' = << >>
  /\ UNCHANGED <<rx, dec, rxq, codecMode, dataLock, codecLock, driver, scanReady, app, late,
                 starts, raced>>

-----------------------------------------------------------------------------
(* _proc_rxThread: what arrives goes to the queue; a dead channel ends it.  *)

RxTake ==
  /\ rx = "run" /\ port.working /\ air # << >> /\ Len(rxq) < QueueLen
  /\ rxq' = Append(rxq, Head(air)) /\ air' = Tail(air)
  /\ UNCHANGED <<port, rx, dec, codecMode, dataLock, codecLock, driver, scanReady, app, device,
                 lost, late, starts, raced>>

RxEnds ==
  /\ rx = "run" /\ (port.broken \/ ~port.working)
  /\ rx' = "none"
  /\ UNCHANGED <<port, dec, rxq, codecMode, dataLock, codecLock, driver, scanReady, app, device,
                 air, lost, late, starts, raced>>

-----------------------------------------------------------------------------
(* _proc_decoderThread with onDecodeData and onProtocolMessageDecoded.      *)

\* What the decoder makes of the first frame of the queue: in loop mode a sample,
\* whatever it is; else nothing of a descriptor, which only switches to loop mode,
\* nor of a sample that none came before.
Decoded ==
  LET f == Head(rxq)
  IN CASE codecMode = "loop"                      -> [at |-> "callback", frame |-> "sample"]
       [] f \in {"descriptor", "sample"}      -> Idle
       [] OTHER                               -> [at |-> "callback", frame |-> f]

\* Under the codec's lock, which is given up around the callback (forceUnlock).
DecDecode ==
  /\ dec.at = "idle" /\ rxq # << >> /\ port.working /\ codecLock = "free"
  /\ rxq' = Tail(rxq)
  /\ dec' = Decoded
  /\ codecMode' = IF Head(rxq) = "descriptor" THEN "loop" ELSE codecMode
  /\ codecLock' = "free"
  /\ UNCHANGED <<port, rx, dataLock, driver, scanReady, app, device, air, lost, late,
                 starts, raced>>

\* onSampleData if the unpacker is enabled; else is it the answer waited for?  The
\* codec's lock is taken again for the rest of the buffer.
DecHandle ==
  /\ dec.at = "callback"
  /\ IF dec.frame = "sample" /\ driver.enabled
     THEN scanReady' = starts + 1 /\ dec' = Idle
     ELSE UNCHANGED scanReady /\ dec' = IF dec.frame = driver.waiting
                                     THEN [dec EXCEPT !.at = "matched"] ELSE Idle
  /\ codecLock' = IF dec'.at = "idle" THEN "free" ELSE codecLock
  /\ UNCHANGED <<port, rx, rxq, codecMode, dataLock, driver, app, device, air, lost, late,
                 starts, raced>>

DecAnswer ==
  /\ dec.at = "matched" /\ dataLock = "free"
  /\ driver' = [driver EXCEPT !.answer = dec.frame, !.event = TRUE]
  /\ dec' = Idle /\ codecLock' = "free"
  /\ UNCHANGED <<port, rx, rxq, codecMode, dataLock, scanReady, app, device, air, lost, late,
                 starts, raced>>

DecEnds ==
  /\ dec.at = "idle" /\ ~port.working
  /\ dec' = [dec EXCEPT !.at = "none"]
  /\ UNCHANGED <<port, rx, rxq, codecMode, dataLock, codecLock, driver, scanReady, app, device,
                 air, lost, late, starts, raced>>

-----------------------------------------------------------------------------
(* The application: the steps of a call.                                   *)

Doing == Head(app.todo)
InStep(do) == app.at = "step" /\ app.todo # << >> /\ Doing.do = do

\* The step is over.
Done(ok) ==
  app' = CASE ok                 -> [app EXCEPT !.at = "step", !.todo = Tail(@)]
           [] ~ok /\ Doing.fatal  -> [at |-> "step", todo |-> << >>, ok |-> FALSE]
           [] ~ok /\ ~Doing.fatal -> [app EXCEPT !.at = "step",
                                      !.todo = SubSeq(@, 2 + Doing.drops, Len(@))]

\* AsyncTransceiver::sendMessage reaches the device.
Writable == port.working /\ ~port.broken

\* _sendCommandWithResponse: under the data lock, the unpacker is disabled, the
\* codec is reset, and what is waited for is said.
AskLock ==
  /\ InStep("ask") /\ dataLock = "free"
  /\ dataLock' = "app"
  /\ app' = [app EXCEPT !.at = "locked"]
  /\ UNCHANGED <<port, rx, dec, rxq, codecMode, codecLock, driver, scanReady, device, air, lost,
                 late, starts, raced>>

\* Mutant: the event of an earlier answer stays set.
AskStale ==
  /\ app.at = "locked" /\ codecLock = "free"
  /\ codecMode' = "plain" /\ dataLock' = "free"
  /\ driver' = [driver EXCEPT !.enabled = FALSE, !.waiting = Doing.what]
  /\ raced' = (dec.at = "matched")
  /\ IF Writable
     THEN /\ app' = [app EXCEPT !.at = "wait"]
          /\ air' = IF device.scanning THEN air ELSE Append(air, Doing.what)
     ELSE Done(FALSE) /\ UNCHANGED air
  /\ UNCHANGED <<port, rx, dec, rxq, codecLock, scanReady, device, lost, late, starts>>
\* The locks are given up and the command is sent.  The device will answer, unless it
\* scans: then it takes a stop first.
AskSend ==
  /\ app.at = "locked" /\ codecLock = "free"
  /\ codecMode' = "plain" /\ dataLock' = "free"
  /\ driver' = [driver EXCEPT !.enabled = FALSE, !.waiting = Doing.what, !.event = FALSE]
  /\ raced' = (dec.at = "matched")
  /\ IF Writable
     THEN /\ app' = [app EXCEPT !.at = "wait"]
          /\ air' = IF device.scanning THEN air ELSE Append(air, Doing.what)
     ELSE Done(FALSE) /\ UNCHANGED air
  /\ UNCHANGED <<port, rx, dec, rxq, codecLock, scanReady, device, lost, late, starts>>

\* The answer is still to come: on the wire or in the decoder.
UnderWay ==
  LET In(s) == \E i \in DOMAIN s : s[i] = Doing.what
  IN rx = "run" /\ (In(air) \/ In(rxq) \/ dec.frame = Doing.what)

AskTimesOut ==
  /\ app.at = "wait" /\ ~driver.event
  /\ UnderWay => late < MaxLate
  /\ late' = IF UnderWay THEN late + 1 ELSE late
  /\ Done(FALSE)
  /\ UNCHANGED <<port, rx, dec, rxq, codecMode, dataLock, codecLock, driver, scanReady, device,
                 air, lost, starts, raced>>

\* The event is set: the answer is read under the data lock.  One of the wrong type
\* would pass if it were long enough.
AskTake ==
  /\ app.at = "wait" /\ driver.event /\ dataLock = "free"
  /\ Done(TRUE)
  /\ driver' = [driver EXCEPT !.event = FALSE,
                              !.support = IF Doing.decides = "none" THEN @ ELSE Doing.decides]
  /\ UNCHANGED <<port, rx, dec, rxq, codecMode, dataLock, codecLock, scanReady, device, air,
                 lost, late, starts, raced>>

\* What a command does to a device that receives it.
Obey(what) ==
  CASE what = "scan" -> [device EXCEPT !.scanning = TRUE]
    [] what = "stop" -> [device EXCEPT !.scanning = FALSE]
    [] OTHER         -> [device EXCEPT !.speed = what]

\* _sendCommandWithoutResponse.  The scan and the motor commands leave the
\* unpacker and the codec as they are (noForceStop).
Tell ==
  /\ InStep("tell")
  /\ Doing.what = "stop" => codecLock = "free"
  /\ IF Doing.what = "stop"
     THEN codecMode' = "plain" /\ driver' = [driver EXCEPT !.enabled = FALSE, !.event = FALSE]
     ELSE UNCHANGED codecMode /\ driver' = [driver EXCEPT !.event = FALSE]
  /\ device' = IF Writable THEN Obey(Doing.what) ELSE device
  /\ air' = IF Writable /\ Doing.what = "scan" THEN Append(air, "descriptor") ELSE air
  /\ starts' = IF Doing.what = "scan" THEN 1 - starts ELSE starts
  /\ Done(Writable)
  /\ UNCHANGED <<port, rx, dec, rxq, dataLock, codecLock, scanReady, lost, late, raced>>

\* The motor of a model without a speed command hangs on the DTR line of the
\* channel: getBindedChannel()-> is called unasked.
TellDTR ==
  /\ InStep("dtr") /\ port.bound
  /\ device' = IF port.broken THEN device ELSE [device EXCEPT !.speed = Doing.what]
  /\ Done(TRUE)
  /\ UNCHANGED <<port, rx, dec, rxq, codecMode, dataLock, codecLock, driver, scanReady, air,
                 lost, late, starts, raced>>

\* _scanHolder.reset() and _dataunpacker->enable(), before the scan command.
Enable ==
  /\ InStep("enable")
  /\ scanReady' = 0
  /\ driver' = [driver EXCEPT !.enabled = TRUE]
  /\ Done(TRUE)
  /\ UNCHANGED <<port, rx, dec, rxq, codecMode, dataLock, codecLock, device, air, lost, late,
                 starts, raced>>

\* connect(): the threads start if the channel opens; the driver takes itself for
\* connected in either case, for openChannelAndBind returns its outer `ans'.
Connect ==
  /\ InStep("connect") /\ ~driver.connected
  /\ \E opens \in BOOLEAN :
       /\ port' = [port EXCEPT !.bound = opens, !.working = opens]
       /\ rx' = IF opens THEN "run" ELSE "none"
       /\ dec' = IF opens THEN Idle ELSE dec
  /\ codecMode' = "plain"
  /\ driver' = [driver EXCEPT !.connected = TRUE, !.support = "none"]
  /\ Done(TRUE)
  /\ UNCHANGED <<rxq, dataLock, codecLock, scanReady, device, air, lost, late, starts, raced>>

\* disconnect() and unbindAndClose(): signal, join both threads, close.
Unbind ==
  /\ InStep("disconnect") /\ codecLock = "free"
  /\ codecMode' = "plain"
  /\ driver' = [driver EXCEPT !.enabled = FALSE]
  /\ port' = [port EXCEPT !.working = FALSE]
  /\ app' = [app EXCEPT !.at = "join"]
  /\ UNCHANGED <<rx, dec, rxq, dataLock, codecLock, scanReady, device, air, lost, late,
                 starts, raced>>

Join ==
  /\ app.at = "join" /\ rx = "none" /\ dec.at = "none"
  /\ port' = [port EXCEPT !.bound = FALSE]
  /\ rxq' = << >> /\ air' = << >>
  /\ driver' = [driver EXCEPT !.connected = FALSE]
  /\ Done(TRUE)
  /\ UNCHANGED <<rx, dec, codecMode, dataLock, codecLock, scanReady, device, lost, late, starts,
                 raced>>

Rx  == RxTake \/ RxEnds
Dec == DecDecode \/ DecHandle \/ DecAnswer \/ DecEnds
Call == \/ AskLock \/ AskSend \/ AskTimesOut \/ AskTake
        \/ Tell \/ TellDTR \/ Enable \/ Connect \/ Unbind \/ Join
Wire == DeviceSamples \/ FrameLost \/ Unplugged

LinkNext == Rx \/ Dec \/ Call \/ Wire

-----------------------------------------------------------------------------
\* An answer is taken for what was asked: whatever came late, and whatever the
\* decoder was doing when the question was put, save that it had already matched a
\* late answer to the question before.
AnswersMatch == app.at = "wait" /\ driver.event /\ ~raced => driver.answer = driver.waiting

=============================================================================

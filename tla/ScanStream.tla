----------------------------- MODULE ScanStream -----------------------------
(***************************************************************************)
(* A scan on its way from the device to grabScanDataHq: the bytes on the   *)
(* wire, the codec that finds the answer descriptor and cuts the stream    *)
(* into messages (sl_lidarprotocol_codec.cpp), the unpacker that hands them *)
(* to the handler of the answer type (dataunpacker.cpp), the scan holder,  *)
(* and the application that starts, stops and grabs (sl_lidar_driver.cpp). *)
(* The work on single records is in ScanDecoder.                           *)
(*                                                                         *)
(* The decoder thread is one process, the application another; the device  *)
(* is the third.  Up to MaxNoise bytes are lost or damaged, and up to      *)
(* MaxAlike data bytes happen to look like the sync bytes of a capsule.    *)
(***************************************************************************)
EXTENDS ScanDecoder

CONSTANTS Kinds, MaxNoise, MaxAlike, MaxStarts

ASSUME StreamAssumption == {MaxNoise, MaxAlike, MaxStarts} \subseteq Nat

VARIABLES
  kind,      \* the answer type of the scan mode; never changes
  dev,       \* [state, at, cap, halt]: the device, the byte it sends next, a stop on its way
  codec,     \* [state, rx]: _working_states, the payload received so far
  unp,       \* [enabled, active]: _enabled, _lastActiveHandler # nullptr
  h,         \* the handler: [pos, part, whole, prev, rdy, last]
  holder,    \* _scanHolder
  reader,    \* grabScanDataHq: "out", or "woken" between the event and the lock
  scan,      \* scans started so far
  noise,     \* bytes lost or damaged so far
  alike,     \* data bytes so far that looked like a sync byte
  unheard    \* history: capsules sent since the last scan was ready

vars == <<kind, dev, codec, unp, h, holder, reader, scan, noise, alike, unheard>>

UnheardCap == (2 + MaxNoise + MaxAlike) * (Turn \div Step) + 4

FreshHandler == [pos |-> 0, part |-> NoCapsule, whole |-> TRUE, prev |-> NoCapsule,
                 rdy |-> FALSE, last |-> FALSE]

HeaderLen == 4   \* two sync bytes, the size with its loop flag, the type
Header    == [NoCapsule EXCEPT !.serial = Serials]   \* what its bytes belong to
Patterns  == {"s1", "s2", "any"}

Init ==
  /\ kind \in Kinds
  /\ dev = [state |-> "idle", at |-> 0, cap |-> NoCapsule, halt |-> FALSE]
  /\ codec = [state |-> "sync1", rx |-> << >>]
  /\ unp = [enabled |-> FALSE, active |-> FALSE]
  /\ h = FreshHandler
  /\ holder = EmptyHolder
  /\ reader = "out"
  /\ scan = 0 /\ noise = 0 /\ alike = 0 /\ unheard = 0

-----------------------------------------------------------------------------
(* The decoder thread.                                                     *)

\* RPLidarProtocolCodec::onDecodeReset
DecodeReset == codec' = [state |-> "sync1", rx |-> << >>]

\* publishHQNode and publishNewScanReset, to the driver's onHQNodeDecoded and
\* onHQNodeScanResetReq: the rewind comes before the samples.
Publish(H, res) ==
  LET pushed[n \in 0 .. Len(res.out)] ==
        IF n = 0 THEN IF res.rewind THEN RewindScan(H) ELSE H
        ELSE PushScanNode(pushed[n - 1], res.out[n])
  IN pushed[Len(res.out)]

\* onSampleData of a message of the answer type: the handler sees its bytes one by one.
Deliver(bytes) ==
  LET read[n \in 0 .. Len(bytes)] ==
        IF n = 0 THEN [h |-> h, holder |-> holder]
        ELSE LET before == read[n - 1]
                 res == OnData(kind, before.h, bytes[n])
             IN [h |-> res.h, holder |-> Publish(before.holder, res)]
  IN /\ h' = read[Len(bytes)].h /\ holder' = read[Len(bytes)].holder
     /\ unp' = [unp EXCEPT !.active = TRUE]

OnSampleData(bytes) ==
  IF unp.enabled THEN Deliver(bytes) ELSE UNCHANGED <<h, holder, unp>>

\* RPLidarProtocolCodec::onDecodeData, one byte.  `exact' is whether a byte of a
\* capsule that shows a sync pattern in its upper half is the sync byte in the lower
\* half too; `endless' is whether a length that was read from such bytes lies beyond
\* this byte.
DecodePayload(b) ==
  LET rx == Append(codec.rx, b) IN
  IF Len(rx) = CapsuleLen
  THEN codec' = [codec EXCEPT !.rx = << >>] /\ OnSampleData(rx)
  ELSE codec' = [codec EXCEPT !.rx = rx] /\ UNCHANGED <<h, holder, unp>>

DecodeHeader(b, exact, endless) ==
  /\ codec' = [codec EXCEPT !.state =
       CASE @ = "sync1"   -> IF b.shows = "s1" /\ exact THEN "sync2" ELSE "sync1"
         [] @ = "sync2"   -> IF b.shows = "s2" /\ exact THEN "size" ELSE "sync1"
         [] @ = "size"    -> IF b.of = Header THEN "type" ELSE "swallow"
         [] @ = "type"    -> "payload"
         [] @ = "swallow" -> IF endless THEN "swallow" ELSE "sync1"]
  /\ UNCHANGED <<h, holder, unp>>

OnDecodeData(b) ==
  IF codec.state = "payload" THEN DecodePayload(b)
  ELSE \E exact, endless \in BOOLEAN :
         /\ b.of = Header => exact
         /\ DecodeHeader(b, exact, endless)

-----------------------------------------------------------------------------
(* The device.  It answers a scan command with a descriptor and then one   *)
(* capsule after the other, until a stop command reaches it.               *)

CapsulePatterns(p) == IF p = 0 THEN {"s1"} ELSE IF p = 1 /\ kind # "hq" THEN {"s2"}
                      ELSE IF alike < MaxAlike THEN Patterns ELSE {"any"}
HeaderPattern(p)  == IF p = 0 THEN "s1" ELSE IF p = 1 THEN "s2" ELSE "any"

NextCapsule(c) == [c EXCEPT !.start = (@ + Step) % Turn, !.first = FALSE,
                            !.serial = (@ + 1) % Serials]

\* A capsule is over: was a scan made ready since the last one?
CountUnheard ==
  unheard' = IF holder'.avail # holder.avail THEN 0
             ELSE IF unp.enabled /\ dev.state = "scan" /\ dev.at = CapsuleLen - 1 /\ unheard < UnheardCap
             THEN unheard + 1 ELSE unheard

Advance ==
  dev' = CASE dev.state = "header" /\ dev.at = HeaderLen - 1
                -> [dev EXCEPT !.state = "scan", !.at = 0]
           [] dev.state = "scan" /\ dev.at = CapsuleLen - 1
                -> [dev EXCEPT !.at = 0, !.cap = NextCapsule(@)]
           [] OTHER -> [dev EXCEPT !.at = @ + 1]

SendHeader ==
  /\ dev.state = "header"
  /\ Advance
  /\ OnDecodeData([of |-> Header, place |-> dev.at, shows |-> HeaderPattern(dev.at),
                   ok |-> TRUE])
  /\ UNCHANGED <<kind, reader, scan, noise, alike, unheard>>

SendByte ==
  /\ dev.state = "scan"
  /\ Advance
  /\ \E s \in CapsulePatterns(dev.at) :
       /\ alike' = IF "any" \in CapsulePatterns(dev.at) \ {s} THEN alike + 1 ELSE alike
       /\ OnDecodeData([of |-> dev.cap, place |-> dev.at, shows |-> s, ok |-> TRUE])
  /\ CountUnheard
  /\ UNCHANGED <<kind, reader, scan, noise>>

DamageByte ==
  /\ dev.state = "scan" /\ noise < MaxNoise
  /\ Advance
  /\ \E s \in Patterns :
       OnDecodeData([of |-> dev.cap, place |-> dev.at, shows |-> s, ok |-> FALSE])
  /\ noise' = noise + 1
  /\ CountUnheard
  /\ UNCHANGED <<kind, reader, scan, alike>>

LoseByte ==
  /\ dev.state = "scan" /\ noise < MaxNoise
  /\ Advance
  /\ noise' = noise + 1
  /\ UNCHANGED <<kind, codec, unp, h, holder, reader, scan, alike>>
  /\ CountUnheard

DeviceStops ==
  /\ dev.halt
  /\ dev' = [dev EXCEPT !.state = "idle", !.at = 0, !.cap = NoCapsule, !.halt = FALSE]
  /\ UNCHANGED <<kind, codec, unp, h, holder, reader, scan, noise, alike, unheard>>

-----------------------------------------------------------------------------
(* The application.  It is in one call of the driver at a time (_op_locker). *)

\* LIDARSampleDataUnpackerImpl::reset, with clearCache
ResetUnpacker(enabled) ==
  /\ h' = IF unp.active THEN ResetHandler(kind, h) ELSE h
  /\ unp' = [enabled |-> enabled, active |-> FALSE]

\* stop(): the device is told, and _disableDataGrabbing
Stop ==
  /\ reader = "out" /\ scan < MaxStarts
  /\ dev.state # "idle" /\ ~dev.halt
  /\ dev' = [dev EXCEPT !.halt = TRUE]
  /\ ResetUnpacker(FALSE)
  /\ DecodeReset
  /\ UNCHANGED <<kind, holder, reader, scan, noise, alike, unheard>>

\* startScanExpress after its queries, which a device that still sends does not
\* answer: reset the holder, enable the unpacker, send the command.
Start ==
  /\ reader = "out" /\ scan < MaxStarts
  /\ dev.state = "idle"
  /\ holder' = ResetHolder(holder)
  /\ ResetUnpacker(TRUE)
  /\ DecodeReset
  /\ scan' = scan + 1
  /\ \E a \in 0 .. Step - 1 :
       dev' = [dev EXCEPT !.state = "header", !.at = 0,
                 !.cap = [start |-> a, first |-> TRUE, serial |-> 0, scan |-> scan + 1]]
  /\ unheard' = 0
  /\ UNCHANGED <<kind, reader, noise, alike>>

\* waitAndLockAvailableScan in its two halves: the event, which resets itself, then
\* the lock under which the newest scan is copied.
GrabWait ==
  /\ reader = "out" /\ holder.signal
  /\ holder' = [holder EXCEPT !.signal = FALSE]
  /\ reader' = "woken"
  /\ UNCHANGED <<kind, dev, codec, unp, h, scan, noise, alike, unheard>>

GrabCopy ==
  /\ reader = "woken"
  /\ reader' = "out"
  /\ UNCHANGED <<kind, dev, codec, unp, h, holder, scan, noise, alike, unheard>>

Next == \/ SendHeader \/ SendByte \/ DamageByte \/ LoseByte \/ DeviceStops
        \/ Stop \/ Start \/ GrabWait \/ GrabCopy

Spec == Init /\ [][Next]_vars

-----------------------------------------------------------------------------
Available == IF holder.avail < 0 THEN << >> ELSE holder.buf[holder.avail]

\* Whatever the buffers hold was sent in the scan that was started last: nothing of
\* an earlier one survives a stop and a start, in the handler or in the holder.
NothingFromBefore ==
  \A i \in {0, 1} : \A j \in DOMAIN holder.buf[i] : holder.buf[i][j].scan = scan

\* The samples of a revolution, and as many of them as the buffer holds: it keeps the
\* last one.
TurnSamples == (Turn \div Step) * Samples(kind)
Held(n) == IF n > MaxSamples THEN MaxSamples ELSE n

\* The first scan after a start may begin in the second half of the window in which the
\* dense handlers look for the wrap; then the sample before the next wrap opens the next.
BeginsLate(s) == /\ kind \in {"dense", "ultradense"}
                 /\ s[1].angle < (Step * Fine) \div Samples(kind)

OneTurn(s) == /\ s[1].sync
              /\ \/ Len(s) = Held(TurnSamples)
                 \/ BeginsLate(s) /\ Len(s) = Held(TurnSamples - 1)
              /\ \A i \in 2 .. Len(s) : ~s[i].sync
              /\ \A i \in 2 .. Len(s) - 1 : s[i].angle < s[i + 1].angle

\* On a clean wire a scan is one revolution (sl_lidar_driver.h:422), in every format.
CleanScanIsOneTurn == noise = 0 /\ holder.avail >= 0 => OneTurn(Available)

\* Samples are interpolated only between capsules that were sent one after the other:
\* after a byte too few, too many or wrong the handler starts anew.
OnlyNeighboursJoin ==
  [][h.rdy /\ h'.prev # h.prev /\ ~h'.prev.first
     => /\ h'.prev.scan = h.prev.scan
        /\ h'.prev.serial = (h.prev.serial + 1) % Serials]_vars

\* A device that scans is heard: wherever the noise fell, a scan is ready at the
\* latest two revolutions later, and one more for every byte that was hit.  Not so in
\* ultra capsules, whose rounding can lose the wrap between two of them.
ScansKeepComing ==
  kind # "ultra" /\ unp.enabled => unheard <= (2 + noise + alike) * (Turn \div Step) + 2
=============================================================================

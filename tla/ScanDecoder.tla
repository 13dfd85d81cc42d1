---------------------------- MODULE ScanDecoder ----------------------------
(***************************************************************************)
(* What the lidar SDK makes of the bytes of a scan, as operators on the    *)
(* records that hold its state: the six handlers of the data unpacker      *)
(* (dataunpacker/unpacker/*.cpp) and the scan holder of                    *)
(* sl_lidar_driver.cpp, which collects samples into revolutions.           *)
(*                                                                         *)
(* A capsule is a record: its start angle, whether it is the first of a    *)
(* scan (the sync bit), its serial number modulo Serials and the scan it   *)
(* belongs to.  A byte is a record: its capsule, its place in it, the      *)
(* sync pattern it happens to show, and whether it arrived as sent.        *)
(* Angles are counted in start-angle steps (q6 in the code); a sample is   *)
(* placed with Fine parts of a step (q16 over q6).                         *)
(***************************************************************************)
EXTENDS Integers, Sequences

CONSTANTS
  Turn,        \* start-angle steps of a revolution (360 << 6)
  Fine,        \* parts of a step                   (1 << 10)
  Step,        \* steps from one capsule to the next
  MaxDiff,     \* larger differences are discarded by the dense handlers
  CapsuleLen,  \* bytes of a capsule
  MaxSamples   \* _scan_node_buffer_size

ASSUME DecoderAssumption ==
  /\ Turn \in Nat /\ Step \in 1 .. Turn /\ Fine \in Nat \ {0}
  /\ MaxDiff \in Nat /\ CapsuleLen \in Nat /\ CapsuleLen >= 3
  /\ MaxSamples \in Nat \ {0}

Serials      == 4
NoCapsule    == [start |-> 0, first |-> FALSE, serial |-> 0, scan |-> 0]

\* The samples of a capsule: 32, 96, 40 and 64.  What matters is that 32 and 64
\* divide Fine and the other two do not.
Samples(k) == CASE k = "capsule" -> 2 [] k = "ultra" -> 3 [] k = "dense" -> 3
                [] k = "ultradense" -> 4 [] k = "hq" -> 2 [] OTHER -> 1

-----------------------------------------------------------------------------
(* From two capsules to samples.  The samples of a capsule are spread evenly *)
(* up to the start of the next; a sample carries the sync bit if it is the   *)
(* last before the angle wraps.                                              *)

Diff(prev, cur) == cur.start - prev.start + (IF prev.start > cur.start THEN Turn ELSE 0)
Inc(k, prev, cur) == (Diff(prev, cur) * Fine) \div Samples(k)
Raw(k, prev, cur, i) == prev.start * Fine + (i - 1) * Inc(k, prev, cur)
Wraps(k, prev, cur, i, width) ==
  (Raw(k, prev, cur, i) + Inc(k, prev, cur)) % (Turn * Fine) < width * Inc(k, prev, cur)

Sample(k, prev, cur, i, sync) ==
  [angle |-> Raw(k, prev, cur, i) % (Turn * Fine), sync |-> sync, scan |-> prev.scan]

\* _onScanNodeCapsuleData and _onScanNodeUltraCapsuleData: [h, out] with the new
\* state of the handler and the samples.
CapsuleData(h, cur) ==
  [h |-> [h EXCEPT !.prev = cur, !.rdy = TRUE],
   out |-> IF ~h.rdy THEN << >>
           ELSE [i \in 1 .. Samples("capsule") |->
                   Sample("capsule", h.prev, cur, i, Wraps("capsule", h.prev, cur, i, 1))]]

UltraCapsuleData(h, cur) ==
  [h |-> [h EXCEPT !.prev = cur, !.rdy = TRUE],
   out |-> IF ~h.rdy THEN << >>
           ELSE [i \in 1 .. Samples("ultra") |->
                   Sample("ultra", h.prev, cur, i, Wraps("ultra", h.prev, cur, i, 1))]]

\* Mutant: both samples of the window count.
WideBits(k, h, cur) ==
  [i \in 0 .. Samples(k) |-> i > 0 /\ Wraps(k, h.prev, cur, i, 2)]
\* The dense handlers look for the wrap in a window of two samples, of which the
\* first counts: `last' is the bit of the sample before.
DenseBits(k, h, cur) ==
  LET bit[i \in 0 .. Samples(k)] ==
        IF i = 0 THEN h.last ELSE Wraps(k, h.prev, cur, i, 2) /\ ~bit[i - 1]
  IN bit

DenseExpand(k, h, cur) ==
  LET bit == DenseBits(k, h, cur) IN
  [h |-> [h EXCEPT !.prev = cur, !.rdy = TRUE, !.last = bit[Samples(k)]],
   out |-> [i \in 1 .. Samples(k) |-> Sample(k, h.prev, cur, i, bit[i])]]

\* _onScanNodeDenseCapsuleData and _onScanNodeUltraDenseCapsuleData: a step that is
\* too large only replaces the previous capsule.
DenseCapsuleData(h, cur) ==
  IF ~h.rdy \/ Diff(h.prev, cur) > MaxDiff
  THEN [h |-> [h EXCEPT !.prev = cur, !.rdy = TRUE], out |-> << >>]
  ELSE DenseExpand("dense", h, cur)

UltraDenseCapsuleData(h, cur) ==
  IF ~h.rdy \/ Diff(h.prev, cur) > MaxDiff
  THEN [h |-> [h EXCEPT !.prev = cur, !.rdy = TRUE], out |-> << >>]
  ELSE DenseExpand("ultradense", h, cur)

-----------------------------------------------------------------------------
(* From bytes to capsules.  `pos' bytes of `part' are in the buffer; `whole' *)
(* is FALSE once a byte does not belong there, which the checksum finds out. *)

Pattern(k, pos) == IF pos = 0 THEN "s1" ELSE IF pos = 1 /\ k # "hq" THEN "s2" ELSE "any"
Mismatch(k, h, b) == Pattern(k, h.pos) \notin {"any", b.shows}

Fits(h, b) == /\ b.ok /\ b.place = h.pos
              /\ h.pos > 0 => h.whole /\ b.of = h.part

Store(h, b) == [h EXCEPT !.pos = @ + 1, !.whole = Fits(h, b),
                         !.part = IF h.pos = 0 THEN b.of ELSE @]

\* Mutant: what was received so far stays.
DropNothing(h) == [h EXCEPT !.whole = TRUE]
Drop(h) == [h EXCEPT !.pos = 0, !.whole = TRUE, !.part = NoCapsule]

\* Mutant: the previous capsule survives a gap.
KeepReady(h) == Drop(h)
Lost(h) == [Drop(h) EXCEPT !.rdy = FALSE]

Nothing(h) == [h |-> h, out |-> << >>, rewind |-> FALSE]

\* onData of a capsule handler, one byte: a byte out of place or a wrong checksum
\* forgets the previous capsule; the first capsule of a scan also rewinds the holder.
CapsuleByte(h, b, Data(_, _)) ==
  CASE Mismatch("capsule", h, b) -> Nothing(Lost(h))
    [] ~Mismatch("capsule", h, b) /\ h.pos < CapsuleLen - 1 -> Nothing(Store(h, b))
    [] OTHER ->
         IF ~Fits(h, b) THEN Nothing(Lost(h))
         ELSE LET res == Data([Drop(h) EXCEPT !.rdy = @ /\ ~b.of.first], b.of)
              IN [h |-> res.h, out |-> res.out, rewind |-> b.of.first]

CapsuleOnData(h, b)      == CapsuleByte(h, b, CapsuleData)
UltraOnData(h, b)        == CapsuleByte(h, b, UltraCapsuleData)
DenseOnData(h, b)        == CapsuleByte(h, b, DenseCapsuleData)
UltraDenseOnData(h, b)   == CapsuleByte(h, b, UltraDenseCapsuleData)

\* The device itself marks the first sample past the wrap in these two formats.
OwnSample(k, c, i) ==
  LET spacing == (Step * Fine) \div Samples(k)
      angle   == (c.start * Fine + (i - 1) * spacing) % (Turn * Fine)
  IN [angle |-> angle, sync |-> angle < spacing, scan |-> c.scan]

HQOnData(h, b) ==
  CASE Mismatch("hq", h, b) -> Nothing(h)
    [] ~Mismatch("hq", h, b) /\ h.pos < CapsuleLen - 1 -> Nothing(Store(h, b))
    [] OTHER -> [h |-> Drop(h), rewind |-> FALSE,
                 out |-> IF ~Fits(h, b) THEN << >>
                         ELSE [i \in 1 .. Samples("hq") |-> OwnSample("hq", b.of, i)]]

\* No checksum here: what is damaged is published, and may carry a sync bit.
NormalOnData(h, b) ==
  CASE Mismatch("normal", h, b) -> Nothing(Drop(h))
    [] ~Mismatch("normal", h, b) /\ h.pos < CapsuleLen - 1 -> Nothing(Store(h, b))
    [] OTHER -> [h |-> Drop(h), rewind |-> FALSE,
                 out |-> <<IF Fits(h, b) THEN OwnSample("normal", h.part, 1)
                           ELSE [OwnSample("normal", h.part, 1) EXCEPT !.sync = b.shows = "s1"]>>]

OnData(k, h, b) ==
  CASE k = "capsule" -> CapsuleOnData(h, b) [] k = "ultra" -> UltraOnData(h, b)
    [] k = "dense" -> DenseOnData(h, b) [] k = "ultradense" -> UltraDenseOnData(h, b)
    [] k = "hq" -> HQOnData(h, b) [] OTHER -> NormalOnData(h, b)

\* reset() of the handlers: the dense ones keep the previous capsule.
ResetCapsule(h)    == [Drop(h) EXCEPT !.rdy = FALSE]
ResetUltra(h)      == [Drop(h) EXCEPT !.rdy = FALSE]
ResetDense(h)      == Drop(h)
ResetUltraDense(h) == [Drop(h) EXCEPT !.last = FALSE]
ResetHQ(h)         == Drop(h)
ResetNormal(h)     == Drop(h)

ResetHandler(k, h) ==
  CASE k = "capsule" -> ResetCapsule(h) [] k = "ultra" -> ResetUltra(h)
    [] k = "dense" -> ResetDense(h) [] k = "ultradense" -> ResetUltraDense(h)
    [] k = "hq" -> ResetHQ(h) [] OTHER -> ResetNormal(h)

-----------------------------------------------------------------------------
(* ScanDataHolder: two buffers, of which one is being filled and the other,  *)
(* once there is a revolution, can be grabbed; `signal' is _data_waiter.     *)

EmptyHolder == [buf |-> [i \in {0, 1} |-> << >>], avail |-> -1, signal |-> FALSE]

Filling(H) == IF H.avail < 0 THEN 0 ELSE 1 - H.avail

Append1(H, n) ==
  LET s == H.buf[Filling(H)] IN
  [H EXCEPT !.buf[Filling(H)] =
     IF Len(s) >= MaxSamples THEN [s EXCEPT ![Len(s)] = n] ELSE Append(s, n)]

FinishAndSwap(H) == [H EXCEPT !.avail = Filling(H), !.buf[1 - Filling(H)] = << >>,
                              !.signal = TRUE]

PushScanNode(H, n) ==
  CASE n.sync /\ H.buf[Filling(H)] # << >>    -> Append1(FinishAndSwap(H), n)
    [] n.sync /\ H.buf[Filling(H)] = << >>    -> Append1(H, n)
    [] ~n.sync /\ H.buf[Filling(H)] = << >>   -> H
    [] OTHER                                  -> Append1(H, n)

RewindScan(H) == [H EXCEPT !.buf[Filling(H)] = << >>]
KeepScan(H) == [H EXCEPT !.avail = -1, !.signal = FALSE]
ResetHolder(H) == EmptyHolder
=============================================================================

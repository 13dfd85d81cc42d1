-------------------------------- MODULE Board --------------------------------
(***************************************************************************)
(* The serial line between the driver node and its expansion board         *)
(* (RosmasterBoard in physicar_driver_node.cpp): receive_loop finds frames *)
(* in a stream of bytes and hands their data to parse_data.                *)
(*                                                                         *)
(* A frame is head, device, length, type, data and checksum.  The board    *)
(* sends one frame after another; a fault inserts a byte, loses one, or    *)
(* makes a read fail, at most MaxFaults times.  A byte is a number below   *)
(* Radix, and a checksum is taken modulo Radix.                            *)
(***************************************************************************)
EXTENDS Integers, Sequences

CONSTANTS
  Radix,      \* 256
  HEAD, DEVICE,
  MaxData,    \* the most data bytes a frame may have, its checksum included (64)
  Reports,    \* what the board sends: a type and a payload
  MaxFaults

ASSUME BoardAssumption ==
  /\ Radix \in Nat \ {0} /\ {HEAD, DEVICE} \subseteq 0 .. Radix - 1
  /\ MaxData \in Nat /\ MaxData + 2 < Radix /\ MaxFaults \in Nat
  /\ \A r \in Reports :
       /\ r.type \in 0 .. Radix - 1
       /\ r.payload \in Seq(0 .. Radix - 1) /\ Len(r.payload) \in 1 .. MaxData - 1

VARIABLES
  report,   \* the report of the frame on its way
  wire,     \* the bytes of it that are still to come
  rx,       \* receive_loop: what it waits for, and what it has of the frame
  board,    \* the last data parse_data was given
  up,       \* the process runs
  faults,
  overdue   \* history: bytes since the last fault and since the last whole frame

boardVars == <<report, wire, rx, board, up, faults, overdue>>

Total(s) ==
  LET sum[i \in 0 .. Len(s)] == IF i = 0 THEN 0 ELSE sum[i - 1] + s[i] IN sum[Len(s)]
Checksum(length, type, payload) == (length + type + Total(payload)) % Radix

Frame(r) ==
  LET n == Len(r.payload) + 3 IN
  <<HEAD, DEVICE, n, r.type>> \o Append(r.payload, Checksum(n, r.type, r.payload))

Longest == MaxData + 4

Waiting == [at |-> "head", length |-> 0, type |-> 0, data |-> <<>>]

BoardInit ==
  /\ report \in Reports /\ wire = Frame(report)
  /\ rx = Waiting /\ board = <<>> /\ up = TRUE
  /\ faults = 0 /\ overdue = 0

-----------------------------------------------------------------------------
\* Mutant: a length is only refused when it is too short.
DataLengthUnbounded(n) == n >= 2
DataLength(n) == n >= 2 /\ n - 2 <= MaxData

\* What the thread knows after one more byte.  The byte after a head that is not the
\* device's is dropped, were it itself a head.
Received(b) ==
  CASE rx.at = "head"   -> IF b = HEAD THEN [rx EXCEPT !.at = "device"] ELSE rx
    [] rx.at = "device" -> IF b = DEVICE THEN [rx EXCEPT !.at = "length"] ELSE Waiting
    [] rx.at = "length" -> [rx EXCEPT !.at = "type", !.length = b]
    [] rx.at = "type"   -> IF DataLength(rx.length)
                           THEN [rx EXCEPT !.at = "data", !.type = b] ELSE Waiting
    [] rx.at = "data"   -> [rx EXCEPT !.data = Append(@, b)]

Complete(r) == r.at = "data" /\ Len(r.data) = r.length - 2

\* The checksum of a frame without data is read in front of an empty vector: it may
\* be there, and anything, or the process dies of it.
NoData(r) == Complete(r) /\ r.data = <<>>

Correct(r) ==
  LET n == Len(r.data) IN
  n > 0 /\ r.data[n] = Checksum(r.length, r.type, SubSeq(r.data, 1, n - 1))

\* parse_data, for the reports that are known and long enough.
Parsed(r) ==
  IF \E p \in Reports : p.type = r.type /\ Len(p.payload) < Len(r.data)
  THEN SubSeq(r.data, 1, Len(r.data) - 1) ELSE board

\* The frame the board sent has arrived as the board sent it.
Whole(r, rest) ==
  rest = <<>> /\ r.type = report.type /\ r.data = SubSeq(Frame(report), 5, Len(Frame(report)))

TakesByte(b) ==
  LET r == Received(b) IN
  /\ board' = IF Complete(r) /\ Correct(r) THEN Parsed(r) ELSE board
  /\ \/ rx' = (IF Complete(r) THEN Waiting ELSE r) /\ up' = up
     \/ NoData(r) /\ rx' = Waiting /\ up' = FALSE

Counts(b, rest) ==
  LET r == Received(b) IN
  overdue' = IF Complete(r) /\ Correct(r) /\ Whole(r, rest) THEN 0
             ELSE IF overdue <= 3 * Longest THEN overdue + 1 ELSE overdue

\* The next byte of the frame on its way; after its last one comes another frame.
Follows(rest) ==
  IF rest # <<>> THEN wire' = rest /\ report' = report
  ELSE \E r \in Reports : report' = r /\ wire' = Frame(r)

ByteArrives ==
  /\ up
  /\ TakesByte(Head(wire)) /\ Counts(Head(wire), Tail(wire)) /\ Follows(Tail(wire))
  /\ faults' = faults

-----------------------------------------------------------------------------
(* Faults.                                                                 *)

Fault == faults < MaxFaults /\ faults' = faults + 1

NoiseArrives ==
  /\ up /\ Fault
  /\ \E b \in 0 .. Radix - 1 : TakesByte(b)
  /\ overdue' = 0
  /\ UNCHANGED <<report, wire>>

ByteIsLost ==
  /\ Fault /\ Follows(Tail(wire))
  /\ overdue' = 0
  /\ UNCHANGED <<rx, board, up>>

\* read() returns nothing: what there is of the frame is forgotten.
ReadFails ==
  /\ up /\ Fault
  /\ rx' = Waiting /\ overdue' = 0
  /\ UNCHANGED <<report, wire, board, up>>

\* The launch file starts the process again; connect() flushes what has come.
BoardRespawns ==
  /\ ~up /\ up' = TRUE
  /\ rx' = Waiting /\ board' = <<>> /\ overdue' = 0
  /\ UNCHANGED <<report, wire, faults>>

BoardNext ==
  \/ ByteArrives \/ NoiseArrives \/ ByteIsLost \/ ReadFails \/ BoardRespawns

BoardSpec == BoardInit /\ [][BoardNext]_boardVars

-----------------------------------------------------------------------------
(* Reports that contain neither a head and device after their own nor end  *)
(* in a head: others may keep a thread that has lost its place from ever   *)
(* finding it again.                                                       *)
Unmistakable ==
  \A r \in Reports :
    LET f == Frame(r) IN
    /\ f[Len(f)] # HEAD
    /\ \A i \in 2 .. Len(f) - 1 : ~(f[i] = HEAD /\ f[i + 1] = DEVICE)

(* After whatever happened on the line, a frame gets through before the    *)
(* bytes of the longest false frame and of two real ones have passed       *)
(* (receive_loop).                                                         *)
ResyncsInTime == Unmistakable => overdue <= 3 * Longest
=============================================================================

----------------------------- MODULE Calibration -----------------------------
(***************************************************************************)
(* The calibration of the driver node (physicar_driver_node.cpp): the      *)
(* values in memory, what the servos use of them, calibration.json, the    *)
(* services that change them, and death and respawn of the process at any  *)
(* point of a save.  A save truncates the file when it opens it and writes *)
(* when it closes it.                                                      *)
(*                                                                         *)
(* Values are integers; Grain of them are what the two decimals of the     *)
(* file can tell apart.                                                    *)
(***************************************************************************)
EXTENDS Integers

CONSTANTS
  Channels,    \* of "steering", "pan", "tilt"
  Centers,     \* requested centers
  Gains,       \* requested speed gains
  MaxCenter,   \* a request's limit           (15 degrees)
  LoadCenter,  \* the limit of a loaded value (30 degrees)
  MinGain, MaxGain,
  UnitGain,    \* the default
  Grain

ASSUME CalibrationAssumption ==
  /\ Channels \subseteq {"steering", "pan", "tilt"}
  /\ Centers \subseteq Int /\ Gains \subseteq Int
  /\ {MaxCenter, LoadCenter, MinGain, MaxGain, UnitGain} \subseteq Nat
  /\ MaxCenter + Grain <= LoadCenter /\ MinGain <= UnitGain /\ UnitGain <= MaxGain
  /\ MinGain % Grain = 0 /\ MaxGain % Grain = 0 /\ UnitGain % Grain = 0
  /\ Grain \in Nat \ {0}

VARIABLES
  running,   \* the process
  cal,       \* cal_
  servo,     \* what apply_calibration handed to ServoController
  told,      \* the last calibration_status
  calFile,   \* calibration.json: whether there is one, and the values it has
  save,      \* "idle", or "open" or "close" in set_calibration_cb
  kept,      \* history: the values of the last save that was reported as one
  hurt       \* history: the file was truncated and then not written

calibrationVars == <<running, cal, servo, told, calFile, save, kept, hurt>>

Defaults == [center |-> [ch \in Channels |-> 0], reverse |-> FALSE, gain |-> UnitGain]
ValuesOf(c) == [center |-> c.center, reverse |-> c.reverse, gain |-> c.gain]
File(is, v) == [is |-> is, values |-> v]    \* is: "none", "empty" or "written"

\* The two decimals of to_json.
Rounded(v) == Grain * ((v + Grain \div 2) \div Grain)

Written(c) == [center |-> [ch \in Channels |-> Rounded(c.center[ch])],
               reverse |-> c.reverse, gain |-> Rounded(c.gain)]

Bounded(v, lo, hi) == IF v < lo THEN lo ELSE IF v > hi THEN hi ELSE v

\* load_json: what an empty file does not say has its default.
Loaded(v) ==
  [center |-> [ch \in Channels |-> Bounded(v.center[ch], -LoadCenter, LoadCenter)],
   reverse |-> v.reverse, gain |-> Bounded(v.gain, MinGain, MaxGain), saved |-> TRUE]

\* load_and_apply_calibration: without a file the values are the node's parameters,
\* which are the defaults, and is_saved stays as it is.
ReadBack(saved) ==
  IF calFile.is = "none" THEN [Loaded(Defaults) EXCEPT !.saved = saved]
  ELSE Loaded(calFile.values)

\* apply_calibration: the tilt servo is mounted the other way round.
Applied(c) ==
  [trim |-> [ch \in Channels |-> IF ch = "tilt" THEN -c.center[ch] ELSE c.center[ch]],
   inverted |-> c.reverse, gain |-> c.gain]

Adopt(c) == cal' = c /\ servo' = Applied(c)

CalibrationInit ==
  /\ running = TRUE
  /\ calFile = File("none", Defaults) /\ kept = Defaults
  /\ cal = ReadBack(FALSE) /\ servo = Applied(cal) /\ told = cal
  /\ save = "idle" /\ hurt = FALSE

-----------------------------------------------------------------------------
(* set_calibration_cb, up to the save at its end.                          *)

NoCall == running /\ save = "idle"

\* The values change, are applied and told; the save comes after.
Adjust(c) ==
  /\ NoCall
  /\ Adopt([c EXCEPT !.saved = FALSE]) /\ told' = [c EXCEPT !.saved = FALSE]
  /\ save' = "open"
  /\ UNCHANGED <<running, calFile, kept, hurt>>

SetReverse == \E b \in BOOLEAN : Adjust([cal EXCEPT !.reverse = b])

\* Out of range: answered with the values as they are.  The gains are numbers
\* here: the code's comparison lets a NaN pass, and it would be stored.
SetGain == \E g \in Gains :
  /\ g >= MinGain /\ g <= MaxGain
  /\ Adjust([cal EXCEPT !.gain = g])

\* A channel's own name or its name with "_center".
SetCenter == \E ch \in Channels, v \in Centers :
  /\ v >= -MaxCenter /\ v <= MaxCenter
  /\ Adjust([cal EXCEPT !.center[ch] = v])

\* "all" reads the file again, and then writes it like every other request.
Reload ==
  /\ NoCall
  /\ Adopt(ReadBack(cal.saved)) /\ told' = ReadBack(cal.saved)
  /\ save' = "open"
  /\ UNCHANGED <<running, calFile, kept, hurt>>

\* "speed" and the names with "_max" are refused, but the values are saved.
SetLimit ==
  /\ NoCall /\ save' = "open"
  /\ UNCHANGED <<running, cal, servo, told, calFile, kept, hurt>>

-----------------------------------------------------------------------------
(* CalibrationData::save.                                                  *)

\* No directory, no permission: nothing is written and is_saved stays.
SaveFails ==
  /\ running /\ save = "open" /\ save' = "idle"
  /\ UNCHANGED <<running, cal, servo, told, calFile, kept, hurt>>

SaveOpens ==
  /\ running /\ save = "open" /\ save' = "close"
  /\ calFile' = File("empty", Defaults)
  /\ UNCHANGED <<running, cal, servo, told, kept, hurt>>

\* is_saved is set when the text is in the stream's buffer.
SaveCloses ==
  /\ running /\ save = "close" /\ save' = "idle"
  /\ cal' = [cal EXCEPT !.saved = TRUE]
  /\ kept' = ValuesOf(cal)
  /\ \/ calFile' = File("written", Written(cal)) /\ hurt' = FALSE
     \/ calFile' = calFile /\ hurt' = TRUE      \* the disk is full
  /\ UNCHANGED <<running, servo, told>>

CalibrationDies ==
  /\ running /\ running' = FALSE
  /\ save' = "idle"
  /\ hurt' = (hurt \/ save = "close")
  /\ UNCHANGED <<cal, servo, told, calFile, kept>>

\* The constructor: the publisher exists when the status is first told.
CalibrationRespawns ==
  /\ ~running /\ running' = TRUE
  /\ Adopt(ReadBack(FALSE)) /\ told' = ReadBack(FALSE)
  /\ UNCHANGED <<calFile, save, kept, hurt>>

CalibrationNext ==
  \/ SetReverse \/ SetGain \/ SetCenter \/ Reload \/ SetLimit
  \/ SaveFails \/ SaveOpens \/ SaveCloses \/ CalibrationDies \/ CalibrationRespawns

CalibrationSpec == CalibrationInit /\ [][CalibrationNext]_calibrationVars

-----------------------------------------------------------------------------
(* Whatever was reported as saved is what the next process drives with, to *)
(* the last digit that the file holds, unless the process died or the disk *)
(* was full while the file was open (save, load_json).                     *)
RestartKeepsCalibration ==
  [][~running /\ running' /\ ~hurt =>
       /\ cal'.reverse = kept.reverse
       /\ \A ch \in Channels : 2 * (cal'.center[ch] - kept.center[ch]) \in -Grain .. Grain
       /\ 2 * (cal'.gain - kept.gain) \in -Grain .. Grain]_calibrationVars

(* A status that says so is right about the file: between requests it      *)
(* holds the values told, also when the last request tried to save them    *)
(* again, unless the process died or the disk was full over an open file   *)
(* (CalibrationStatus.msg:24, "true if current values are saved to file"). *)
(* The converse fails: values are told before they are saved, and not      *)
(* again.                                                                  *)
ToldSavedIsSaved ==
  NoCall /\ told.saved /\ ~hurt => calFile = File("written", ValuesOf(told))
=============================================================================

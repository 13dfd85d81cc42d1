------------------------------ MODULE JoyMapping ------------------------------
(***************************************************************************)
(* The controller mapping of the teleop node and joy_mapping.json          *)
(* (joy_teleop_node.cpp): the file is read when the process starts, an old *)
(* one with radians is migrated and saved, services change the mapping     *)
(* with or without saving it, the web server's reset removes the file, and *)
(* the process dies at any point.  A save writes another file and renames  *)
(* it.                                                                     *)
(*                                                                         *)
(* Of the mapping there are the limits that have a unit: one that tells    *)
(* degrees from radians, and one that does not.                            *)
(***************************************************************************)
EXTENDS Integers

CONSTANTS
  Limits,     \* degrees a service sets, or an old file holds
  OldLimits,  \* radians in an old file
  MaxSteering, MaxPan,   \* the defaults
  Telling,    \* a max_steering this large is degrees (2.0)
  Factor      \* degrees in a radian

ASSUME JoyMappingAssumption ==
  /\ Limits \subseteq Nat /\ OldLimits \subseteq 0 .. Telling - 1
  /\ Telling \in Nat \ {0} /\ Factor \in Nat \ {0}
  /\ MaxSteering \in Nat /\ MaxSteering >= Telling /\ MaxPan \in Nat

Both(S) == [steering : S, pan : S]
DefaultLimits == [steering |-> MaxSteering, pan |-> MaxPan]

\* is: "none", "torn" (does not parse), "refused" (a value is invalid) or "whole".
MappingFile(is, u, m) == [is |-> is, units |-> u, limits |-> m]
NoFile == MappingFile("none", "missing", DefaultLimits)
TornFile == MappingFile("torn", "missing", DefaultLimits)

\* Files of older versions do not say their unit; the limit that tells is then in its range.
OldFiles ==
  {MappingFile("whole", "missing", m) :
     m \in Both(OldLimits) \cup {l \in Both(Limits) : l.steering >= Telling}}
  \cup {MappingFile("refused", u, DefaultLimits) : u \in {"missing", "degrees"}}
  \cup {NoFile, TornFile}

VARIABLES
  teleop,      \* the process
  limits,      \* mapping_
  units,       \* mapping_units_
  source,      \* mapping_source_
  mapFile,     \* joy_mapping.json
  saving,      \* of the file beside it: "no", "opened" or "closed"
  tmpFile,     \* what that file has
  keptLimits,  \* history: the degrees that were last saved, or in the first file
  cutShort     \* history: a full disk cut the saved file short

mappingVars == <<teleop, limits, units, source, mapFile, saving, tmpFile,
                 keptLimits, cutShort>>

InDegrees(m) == [steering |-> m.steering * Factor, pan |-> m.pan * Factor]

MappingInit ==
  /\ teleop = FALSE
  /\ limits = DefaultLimits /\ units = "degrees" /\ source = "default"
  /\ mapFile \in OldFiles
  /\ saving = "no" /\ tmpFile = NoFile
  /\ keptLimits = (IF mapFile.limits.steering >= Telling THEN mapFile.limits
                   ELSE InDegrees(mapFile.limits))
  /\ cutShort = FALSE

-----------------------------------------------------------------------------
(* load_mapping_from_file; what cannot be parsed leaves the units alone, a *)
(* value that is refused does not.                                         *)

LoadedUnits ==
  IF mapFile.is \in {"none", "torn"} \/ mapFile.units = "degrees" THEN "degrees" ELSE "radians"
LoadedLimits == IF mapFile.is = "whole" THEN mapFile.limits ELSE DefaultLimits

\* The constructor: migrate_legacy_radians converts what is not degrees, and saves it.
TeleopStarts ==
  /\ ~teleop /\ teleop' = TRUE
  /\ units' = "degrees"
  /\ source' = IF mapFile.is = "whole" THEN "file" ELSE "default"
  /\ limits' = IF LoadedUnits = "degrees" \/ LoadedLimits.steering >= Telling
               THEN LoadedLimits ELSE InDegrees(LoadedLimits)
  /\ IF LoadedUnits = "degrees" THEN UNCHANGED <<saving, tmpFile>>
     ELSE saving' = "opened" /\ tmpFile' = TornFile
  /\ UNCHANGED <<mapFile, keptLimits, cutShort>>

\* Also where a file of the node's directory cannot be opened or renamed.
SaveGivesUp ==
  /\ saving # "no" /\ saving' = "no"
  /\ UNCHANGED <<teleop, limits, units, source, mapFile, tmpFile, keptLimits, cutShort>>

-----------------------------------------------------------------------------
(* srv_set, up to the save at its end.                                     *)

SetLimits == \E m \in Both(Limits), save_to_file \in BOOLEAN :
  /\ teleop /\ saving = "no"
  /\ limits' = m
  /\ IF save_to_file
     THEN saving' = "opened" /\ tmpFile' = TornFile /\ UNCHANGED source
     ELSE /\ source' = IF source = "file" THEN "file" ELSE "override"
          /\ UNCHANGED <<saving, tmpFile>>
  /\ UNCHANGED <<teleop, units, mapFile, keptLimits, cutShort>>

(* save_mapping_to_file: whether the text was written is not looked at.    *)
\* Mutant: the units are not written.
PayloadWithoutUnits == MappingFile("whole", "missing", limits)
Payload == MappingFile("whole", units, limits)

\* The other file is opened, and closed with the text in it or a part of it.
MappingCloses(payload) ==
  /\ saving = "opened" /\ saving' = "closed"
  /\ tmpFile' \in {payload, TornFile}
  /\ UNCHANGED <<teleop, limits, units, source, mapFile, keptLimits, cutShort>>
MappingIsRenamed ==
  /\ saving = "closed" /\ saving' = "no"
  /\ mapFile' = tmpFile /\ tmpFile' = NoFile
  /\ source' = "file"
  /\ keptLimits' = limits /\ cutShort' = (tmpFile.is = "torn")
  /\ UNCHANGED <<teleop, limits, units>>

\* reset_joy_mapping removes the file and then kills the node.
WebRemovesMapping ==
  /\ mapFile' = NoFile
  /\ keptLimits' = DefaultLimits /\ cutShort' = FALSE
  /\ UNCHANGED <<teleop, limits, units, source, saving, tmpFile>>

TeleopDies ==
  /\ teleop /\ teleop' = FALSE /\ saving' = "no"
  /\ UNCHANGED <<limits, units, source, mapFile, tmpFile, keptLimits, cutShort>>

MappingNext ==
  \/ TeleopStarts \/ SetLimits \/ SaveGivesUp \/ MappingCloses(Payload)
  \/ MappingIsRenamed \/ WebRemovesMapping \/ TeleopDies

MappingSpec == MappingInit /\ [][MappingNext]_mappingVars

-----------------------------------------------------------------------------
(* However often the process dies, in a save or between two, the next one  *)
(* drives with the limits in degrees that were saved last, or that the old *)
(* file meant, or with the defaults after a reset: migrated once, never    *)
(* twice, and never half a file, unless the disk was full                  *)
(* (save_mapping_to_file, migrate_legacy_radians).                         *)
RestartKeepsMapping ==
  [][~teleop /\ teleop' /\ ~cutShort => limits' = keptLimits]_mappingVars
=============================================================================

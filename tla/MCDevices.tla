------------------------------ MODULE MCDevices ------------------------------
(* The models of the car's devices for TLC: the two halves of the camera     *)
(* node, Calibration, Board, ScanGrid, ControlValues, JoyMapping, ScanShape  *)
(* and Servos.  They have no variable in common: in a behaviour one of them  *)
(* moves, and the others have not begun.                                     *)
(*                                                                           *)
(* Calibration: centers within the limit of a request, on both sides of what *)
(* the file's digits tell apart, and outside the limit.  Board: checksums    *)
(* and payloads contain a head, but never a head and a device.  ScanGrid:    *)
(* queries on all sides of the points.  JoyMapping: limits on both sides of  *)
(* what tells degrees from radians.  ScanShape: measurements at both ends    *)
(* and in the middle of the circle.  Servos: trims that go to the ends of a  *)
(* servo, commands beyond its reach, and a gain that goes to the ESC's ends. *)
EXTENDS CameraFrames, CameraControls, Calibration, Board, ScanGrid,
        ControlValues, JoyMapping, ScanShape, Servos

\* Requests are alike, and so are the controls' requests.
MCSymmetry == Permutations(Buffers) \cup Permutations(Requests)

MCPassOrder == <<"exposure", "auto", "gain">>
\* An exposure time or a gain, to a value, a value out of range or none; the mode, alone or
\* with an exposure time; and lists that name a control twice.
MCSetRequests ==
  {<<Is("exposure", v)>> : v \in {2, Unset, Wide}} \cup {<<Is("gain", v)>> : v \in {Unset, Wide}}
    \cup {<<Is("auto", v)>> : v \in {On, Off, Unset}}
    \cup {<<Is("auto", v), Is("exposure", 2)>> : v \in {On, Off}}
    \cup {<<Is("auto", Off), Is("auto", On), Is("exposure", 2)>>,
          <<Is("exposure", Unset), Is("auto", Off)>>, <<Is("gain", Unset), Is("gain", 1)>>}
MCCenters == {-5, 0, 3, 9}
MCReports == {[type |-> 1, payload |-> <<6>>], [type |-> 2, payload |-> <<4>>],
              [type |-> 4, payload |-> <<15, 5>>]}
MCCoordinates == {0, 2, 5}
MCNumbers == {-1, 0, 1}
MCRectangles == [x : {-1, 0, 1}, y : {-1, 0, 1}, width : {0, 2}, height : {0, 2}]
MCQueryCoordinates == {-4, -1, 0, 1, 3, 6, 7}
MCCommands == -5 .. 5
MCTrims == {-3, 0, 4}
MCReach == [ch \in ServoChannels |-> IF ch = "throttle" THEN 6 ELSE 4]
MCSlope == [m \in {"forward", "reversed"} |-> IF m = "forward" THEN 20 ELSE 18]
MCDeadBand == [m \in {"forward", "reversed"} |-> IF m = "forward" THEN 15 ELSE 20]

VARIABLE device

FramesBegin ==
  IF device = "frames" THEN FramesInit
  ELSE /\ node = [at |-> "failed", left |-> {}] /\ camera = [on |-> FALSE, queue |-> << >>]
       /\ status = << >> /\ thread = [b \in Buffers |-> "none"] /\ undistort = NoMaps
       /\ maps = [of |-> NoMaps, valid |-> FALSE, enabled |-> FALSE]
       /\ local = << >> /\ sets = 0 /\ missed = {} /\ overlap = FALSE
       /\ unasked = 0 /\ stray = {}

ControlsBegin ==
  IF device = "controls" THEN ControlsInit
  ELSE /\ params = [n \in Names |-> Unset]
       /\ ranged = {} /\ stored = Unset /\ tmpStore = Unset
       /\ control = Nothing /\ queued = << >>
       /\ turn = [b \in Requests |-> "camera"] /\ pass = [b \in Requests |-> 1]
       /\ carries = [b \in Requests |-> Nothing]
       /\ applied = Nothing /\ dead = TRUE /\ changes = 0
       /\ muddled = {} /\ latest = << >> /\ lost = {} /\ reused = FALSE

BoardBegins ==
  IF device = "board" THEN report \in Reports
  ELSE report = CHOOSE r \in Reports : TRUE
GridBegins ==
  IF device = "grid" THEN points \in Scans
  ELSE points = CHOOSE s \in Scans : TRUE

ValuesBegin ==
  IF device = "values" THEN ValuesInit
  ELSE info = [type |-> "Rectangle"] /\ value = Parameter("not_set", <<>>) /\ state = "set"

MappingBegins ==
  IF device = "mapping" THEN mapFile \in OldFiles ELSE mapFile = NoFile
ShapeBegins ==
  IF device = "shape" THEN mounted \in Mounts
  ELSE mounted = CHOOSE m \in Mounts : TRUE
ServosBegin ==
  IF device = "servos" THEN ServosInit
  ELSE /\ channel = "tilt" /\ settings = [trim |-> 0, mounting |-> "forward", gain |-> 2]
       /\ battery = FreshBattery /\ open = FALSE /\ pulse = 0 /\ last = Unknown

DevicesInit ==
  /\ device \in {"frames", "controls", "calibration", "board", "grid", "values",
                 "mapping", "shape", "servos"}
  /\ FramesBegin /\ ControlsBegin
  /\ CalibrationInit /\ BoardBegins /\ BoardInit
  /\ GridBegins /\ GridInit /\ ValuesBegin
  /\ MappingBegins /\ MappingInit /\ ShapeBegins /\ ShapeInit /\ ServosBegin

Moves(name, A) ==
  /\ device = name /\ A /\ UNCHANGED device
  /\ IF name = "frames" THEN TRUE ELSE UNCHANGED framesVars
  /\ IF name = "controls" THEN TRUE ELSE UNCHANGED controlsVars
  /\ IF name = "calibration" THEN TRUE ELSE UNCHANGED calibrationVars
  /\ IF name = "board" THEN TRUE ELSE UNCHANGED boardVars
  /\ IF name = "grid" THEN TRUE ELSE UNCHANGED gridVars
  /\ IF name = "values" THEN TRUE ELSE UNCHANGED valuesVars
  /\ IF name = "mapping" THEN TRUE ELSE UNCHANGED mappingVars
  /\ IF name = "shape" THEN TRUE ELSE UNCHANGED shapeVars
  /\ IF name = "servos" THEN TRUE ELSE UNCHANGED servosVars

DevicesNext ==
  \/ Moves("frames", FramesNext) \/ Moves("controls", ControlsNext)
  \/ Moves("calibration", CalibrationNext) \/ Moves("board", BoardNext)
  \/ Moves("grid", GridNext) \/ Moves("values", ValuesNext)
  \/ Moves("mapping", MappingNext) \/ Moves("shape", ShapeNext)
  \/ Moves("servos", ServosNext)

devicesVars == <<device, framesVars, controlsVars, calibrationVars, boardVars,
                 gridVars, valuesVars, mappingVars, shapeVars, servosVars>>

DevicesSpec == DevicesInit /\ [][DevicesNext]_devicesVars

-----------------------------------------------------------------------------
(* What the car was told to keep is kept: the calibration that is said to  *)
(* be saved is the file's (ToldSavedIsSaved), and after any deaths the     *)
(* driver drives with the calibration, and the teleop node with the        *)
(* mapping, that was saved last (save, load_json; save_mapping_to_file,    *)
(* load_mapping_from_file, migrate_legacy_radians).                        *)
SettingsAreKept ==
  []ToldSavedIsSaved /\ RestartKeepsCalibration /\ RestartKeepsMapping
=============================================================================

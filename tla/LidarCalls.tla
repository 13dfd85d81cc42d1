----------------------------- MODULE LidarCalls -----------------------------
(***************************************************************************)
(* The calls of sl_lidar_driver.cpp as sequences of steps.  A step asks    *)
(* the device and waits for the answer, tells it something, drives the DTR *)
(* line, or arms the scan holder.  If it fails, `drops' of the steps after *)
(* it are left out, all of them and the call with them if it is `fatal'.   *)
(* `decides' is what an answer says of the motor control.                  *)
(*                                                                         *)
(* A model is a record: the motor control it has (none, pwm or rpm),       *)
(* whether it is asked for its accessory board, for its configuration and  *)
(* for its MAC address.                                                    *)
(***************************************************************************)
EXTENDS Naturals, Sequences

CONSTANT Modes   \* scan modes of a lidar

ModelSet == [motor : {"none", "pwm", "rpm"}, board : BOOLEAN, conf : BOOLEAN, mac : BOOLEAN]
ASSUME CallAssumption == Modes \in Nat

Take(do, what) == [do |-> do, what |-> what, fatal |-> TRUE, drops |-> 0, decides |-> "none"]
Ask(t)   == Take("ask", t)
Order(c) == Take("tell", c)

\* The steps of a call whose result its caller ignores.
Tolerated(s) ==
  [i \in DOMAIN s |-> IF s[i].fatal THEN [s[i] EXCEPT !.fatal = FALSE, !.drops = Len(s) - i]
                      ELSE s[i]]

GetDeviceInfo == <<Ask("devinfo")>>
GetHealth     == <<Ask("health")>>
GetLidarConf  == <<Ask("conf")>>

\* Whether the device can be asked for its configuration is read off its version.
CheckSupportConfigCommands == GetDeviceInfo

CheckMotorCtrlSupport(m) ==
  IF m.board THEN GetDeviceInfo \o <<[Ask("flag") EXCEPT !.decides = m.motor]>>
  ELSE <<[Ask("devinfo") EXCEPT !.decides = m.motor]>>

\* The default speed is the one the device says it wants, or a dummy.
SetMotorSpeed(support, speed) ==
  (IF speed = "default" THEN Tolerated(GetLidarConf) ELSE << >>)
    \o <<IF support = "none" THEN Take("dtr", speed) ELSE Order(speed)>>

StopCall(support) ==
  <<Order("stop")>> \o (IF support = "pwm" THEN Tolerated(SetMotorSpeed(support, "off"))
                        ELSE << >>)

\* Sample duration, distance, answer type and name of a scan mode.
ScanModeInfo == GetLidarConf \o GetLidarConf \o GetLidarConf \o GetLidarConf

InfoOfModes[n \in 0 .. Modes] == IF n = 0 THEN << >> ELSE ScanModeInfo \o InfoOfModes[n - 1]

GetAllSupportedScanModes(m) ==
  CheckSupportConfigCommands
    \o (IF m.conf THEN GetLidarConf \o InfoOfModes[Modes] ELSE << >>)

GetTypicalScanMode(m) ==
  CheckSupportConfigCommands \o (IF m.conf THEN GetLidarConf ELSE << >>)

GetLegacySampleDuration == GetDeviceInfo \o <<Ask("rate")>>

\* An S-series lidar with a MAC address is on a network.
UpdateTimingDesc(m) == IF m.mac THEN Tolerated(GetLidarConf) ELSE << >>

\* Mutant: the motor is started when the holder is already armed.
EnableFirst(m, support) ==
  <<Take("enable", "holder")>> \o UpdateTimingDesc(m)
    \o Tolerated(SetMotorSpeed(support, "default")) \o <<Order("scan")>>
\* The end of both ways to start: the motor, the holder, then the command.
Launch(m, support) ==
  UpdateTimingDesc(m) \o Tolerated(SetMotorSpeed(support, "default"))
    \o <<Take("enable", "holder"), Order("scan")>>

StartScanNormalCommonPath(m, support) ==
  (IF m.conf THEN ScanModeInfo ELSE GetLegacySampleDuration) \o Launch(m, support)

StartScanNormal(m, support) ==
  Tolerated(StopCall(support)) \o CheckSupportConfigCommands
    \o StartScanNormalCommonPath(m, support)

\* A mode that answers with plain measurements is handed to the other call.
StartScanExpress(m, support, plain) ==
  Tolerated(StopCall(support)) \o CheckSupportConfigCommands
    \o (IF m.conf THEN ScanModeInfo ELSE GetLegacySampleDuration)
    \o (IF plain THEN StartScanNormal(m, support) ELSE Launch(m, support))

StartScan(m, support, plain) ==
  Tolerated(StopCall(support)) \o CheckSupportConfigCommands \o GetTypicalScanMode(m)
    \o StartScanExpress(m, support, plain)

ConnectCall(m) == <<Take("connect", "channel")>> \o Tolerated(CheckMotorCtrlSupport(m))

DisconnectCall == <<Take("disconnect", "channel")>>
=============================================================================

------------------------ MODULE TeleopDrive_proofs ------------------------
(***************************************************************************)
(* The drive: the speed loop, the whole driver node, the joystick node and *)
(* both nodes together, for every speed scale, window, mapping, report,    *)
(* time-out, queue depth and set of commands (NaN included).               *)
(*                                                                         *)
(* The safety properties of the loop are not inductive: what links them is *)
(* that a non-idle target always sits on the ESC as its adjusted value,    *)
(* and that a dead process has no target.                                  *)
(*                                                                         *)
(* The arbitration of Driver adds nothing to what the speed loop can do:   *)
(* every step of the node is a step of DriveLoop or leaves it alone.  So   *)
(* the theorems about the loop hold of the node, whoever commands it.      *)
(*                                                                         *)
(* What links the two nodes is the claim on its way from one to the other  *)
(* (ClaimPath) and the silence of the controller, which both measure: the  *)
(* age of the report on one side and of the command on the other.          *)
(***************************************************************************)
EXTENDS TeleopDrive, SequenceTheorems, TLAPS

-----------------------------------------------------------------------------
(* The speed loop.                                                         *)

EscIsAdjusted ==
  alive /\ ~Idle(target) => esc = Adjusted(target, adjust)

DeadIsFresh == ~alive => target = 0 /\ brake = FALSE

IInv ==
  /\ DriveTypeOK
  /\ DeadIsFresh
  /\ EscIsAdjusted
  /\ StopIsNeutralOrBraking
  /\ CommandsExpire
  /\ StaleCorrectionDropped

-----------------------------------------------------------------------------
\* Clamping an integer keeps it an integer within the limit.
LEMMA ClampInRange ==
  ASSUME NEW x \in Int, NEW lim \in Nat
  PROVE  Clamp(x, lim) \in -lim .. lim
  BY DEF Clamp

\* The target a command leaves is a speed or NaN.
LEMMA ClampCommandType ==
  ASSUME NEW v \in Commands
  PROVE  ClampCommand(v) \in Targets
  BY ClampInRange, CommandAssumption, SpeedAssumption
     DEF ClampCommand, Targets, Speeds

\* The duty is an integer.
LEMMA AdjustedType ==
  ASSUME NEW t \in Targets, NEW a \in Int \cup {NaN}
  PROVE  Adjusted(t, a) \in Int
  BY SpeedAssumption, CommandAssumption DEF Adjusted, Targets, Speeds

\* The correction is within its limit, or NaN for a NaN target.
LEMMA CorrectionType ==
  ASSUME NEW t \in Targets, NEW p \in Speeds
  PROVE  Correction(t, p) \in (-MaxAdjust .. MaxAdjust) \cup {NaN}
<1>1. CASE t = NaN
  BY <1>1 DEF Correction
<1>2. CASE t # NaN
  <2>1. t - p \in Int
    BY <1>2, SpeedAssumption DEF Targets, Speeds
  <2>2. PGain * (t - p) \in Int
    BY <2>1, SpeedAssumption
  <2>3. QED
    BY <1>2, <2>2, ClampInRange, SpeedAssumption DEF Correction
<1>3. QED
  BY <1>1, <1>2

\* An uncorrected moving target reaches the ESC unchanged.
LEMMA AdjustedOpenLoop ==
  ASSUME NEW t \in Targets, Moving(t)
  PROVE  Adjusted(t, 0) = t
  BY SpeedAssumption, CommandAssumption
     DEF Adjusted, Moving, Abs, Targets, Speeds

\* A target does not both move and idle.
LEMMA MovingIsNotIdle ==
  ASSUME NEW t \in Targets, Moving(t)
  PROVE  ~Idle(t)
  BY SpeedAssumption, CommandAssumption
     DEF Moving, Idle, Abs, Targets, Speeds

\* The stop command is idle.
LEMMA ZeroIsIdle == Idle(0) /\ ~Moving(0) /\ ClampCommand(0) = 0 /\ 0 \in Targets
  BY SpeedAssumption, CommandAssumption
     DEF Idle, Moving, Abs, ClampCommand, Clamp, Targets, Speeds

-----------------------------------------------------------------------------
\* set_speed preserves the invariant in a live process, whoever calls it.
LEMMA SetSpeedInv ==
  ASSUME IInv, alive, NEW v, ClampCommand(v) \in Targets, SetSpeed(v),
         alive' = alive, watchdogDue' \in BOOLEAN
  PROVE  IInv'
<1> DEFINE s == ClampCommand(v)
<1> USE SpeedAssumption, TimeAssumption, CommandAssumption
<1>1. /\ target' = s /\ s \in Targets /\ cmdAge' = 0
      /\ actual' = actual /\ fbAge' = fbAge
  BY DEF SetSpeed, StampCommand
<1>2. DriveTypeOK'
  <2>1. CASE Idle(s)
    <3>1. \/ esc' = 0 /\ adjust' = 0 /\ brake' = FALSE
          \/ esc' = esc /\ adjust' = adjust /\ brake' = TRUE
      BY <2>1 DEF SetSpeed, Neutral, StartBraking
    <3>2. esc' \in Int /\ adjust' \in (-MaxAdjust .. MaxAdjust) \cup {NaN}
      BY <3>1 DEF IInv, DriveTypeOK
    <3>3. brake' \in BOOLEAN
      BY <3>1
    <3>4. QED
      BY <1>1, <3>2, <3>3 DEF IInv, DriveTypeOK, CmdCap
  <2>2. CASE ~Idle(s)
    <3>1. /\ brake' = FALSE
          /\ adjust' = IF Stale THEN 0 ELSE adjust
          /\ esc' = Adjusted(s, adjust')
      BY <2>2 DEF SetSpeed
    <3>2. adjust' \in (-MaxAdjust .. MaxAdjust) \cup {NaN}
      <4>1. adjust \in (-MaxAdjust .. MaxAdjust) \cup {NaN}
        BY DEF IInv, DriveTypeOK
      <4>2. 0 \in -MaxAdjust .. MaxAdjust
        OBVIOUS
      <4>3. QED
        BY <3>1, <4>1, <4>2
    <3>3. esc' \in Int
      BY <1>1, <3>1, <3>2, AdjustedType
    <3>4. QED
      <4>1. alive' \in BOOLEAN /\ watchdogDue' \in BOOLEAN /\ brake' \in BOOLEAN
        BY <3>1
      <4>2. QED
        BY <1>1, <3>2, <3>3, <4>1 DEF IInv, DriveTypeOK, CmdCap
  <2>3. QED
    BY <2>1, <2>2
<1>3. DeadIsFresh'
  BY DEF DeadIsFresh
<1>4. EscIsAdjusted'
  BY <1>1 DEF EscIsAdjusted, SetSpeed
<1>5. StopIsNeutralOrBraking'
  BY <1>1 DEF StopIsNeutralOrBraking, SetSpeed, Neutral, StartBraking, Slow
<1>6. CommandsExpire'
  BY <1>1 DEF CommandsExpire
<1>7. StaleCorrectionDropped'
  <2>0. fbAge - 0 = fbAge
    BY DEF IInv, DriveTypeOK
  <2>1. SUFFICES ASSUME Moving(s), fbAge > FeedbackTimeout
                 PROVE  esc' = s /\ adjust' = 0
    BY <1>1, <2>0 DEF StaleCorrectionDropped
  <2>2. ~Idle(s) /\ Stale
    BY <2>1, <1>1, MovingIsNotIdle DEF Stale
  <2>3. adjust' = 0 /\ esc' = Adjusted(s, 0)
    BY <2>2 DEF SetSpeed
  <2>4. QED
    BY <2>1, <2>3, <1>1, AdjustedOpenLoop
<1>8. QED
  BY <1>2, <1>3, <1>4, <1>5, <1>6, <1>7 DEF IInv

\* odom_callback preserves it.
LEMMA OdomInv ==
  ASSUME IInv, NEW v \in Speeds, NEW p \in Speeds, Odom(v, p)
  PROVE  IInv'
<1> USE SpeedAssumption, TimeAssumption, CommandAssumption
<1>1. /\ alive /\ alive' = alive /\ target' = target /\ cmdAge' = cmdAge
      /\ watchdogDue' = watchdogDue /\ actual' = v /\ fbAge' = 0
  BY DEF Odom
<1>2. DriveTypeOK'
  <2>1. CASE Idle(target)
    <3>1. \/ esc' = 0 /\ adjust' = 0 /\ brake' = FALSE
          \/ esc' \in {esc, -BrakeSpeed, BrakeSpeed}
             /\ adjust' = adjust /\ brake' = brake
      BY <2>1 DEF Odom, Neutral
    <3>2. esc' \in Int /\ adjust' \in (-MaxAdjust .. MaxAdjust) \cup {NaN}
      BY <3>1 DEF IInv, DriveTypeOK
    <3>3. brake' \in BOOLEAN
      BY <3>1 DEF IInv, DriveTypeOK
    <3>4. QED
      BY <1>1, <3>2, <3>3 DEF IInv, DriveTypeOK, FbCap
  <2>2. CASE ~Idle(target)
    <3>1. /\ adjust' = Correction(target, p)
          /\ esc' = Adjusted(target, adjust')
          /\ brake' = brake
      BY <2>2 DEF Odom
    <3>2. adjust' \in (-MaxAdjust .. MaxAdjust) \cup {NaN}
      BY <3>1, CorrectionType DEF IInv, DriveTypeOK
    <3>3. esc' \in Int
      BY <3>1, <3>2, AdjustedType DEF IInv, DriveTypeOK
    <3>4. QED
      BY <1>1, <3>1, <3>2, <3>3 DEF IInv, DriveTypeOK, FbCap
  <2>3. QED
    BY <2>1, <2>2
<1>3. DeadIsFresh'
  BY <1>1 DEF DeadIsFresh
<1>4. EscIsAdjusted'
  BY <1>1 DEF EscIsAdjusted, Odom
<1>5. StopIsNeutralOrBraking'
  BY <1>1 DEF StopIsNeutralOrBraking, IInv, Odom, Neutral, Slow
<1>6. CommandsExpire'
  BY <1>1 DEF CommandsExpire, IInv
<1>7. StaleCorrectionDropped'
  BY <1>1 DEF StaleCorrectionDropped, IInv, DriveTypeOK
<1>8. QED
  BY <1>2, <1>3, <1>4, <1>5, <1>6, <1>7 DEF IInv

\* The watchdog timer preserves it: if it fires it stops the car, and if it
\* does not, a moving target is young enough.
LEMMA CmdWatchdogInv ==
  ASSUME IInv, CmdWatchdog
  PROVE  IInv'
<1> USE SpeedAssumption, TimeAssumption, CommandAssumption
<1>1. /\ watchdogDue' = FALSE /\ alive' = alive
  BY DEF CmdWatchdog
<1>2. CASE CommandStale
  <2>1. SetSpeed(0)
    BY <1>2 DEF CmdWatchdog
  <2>2. alive
    BY <1>2, ZeroIsIdle DEF IInv, DeadIsFresh, CommandStale
  <2>3. QED
    BY <1>1, <2>1, <2>2, ZeroIsIdle, SetSpeedInv
<1>3. CASE ~CommandStale
  <2>1. UNCHANGED <<target, esc, adjust, actual, brake, cmdAge, fbAge>>
    BY <1>3 DEF CmdWatchdog
  <2>2. CommandsExpire'
    BY <1>1, <1>3, <2>1 DEF CommandsExpire, CommandStale, IInv, DriveTypeOK
  <2>3. QED
    BY <1>1, <2>1, <2>2
       DEF IInv, DriveTypeOK, DeadIsFresh, EscIsAdjusted,
           StopIsNeutralOrBraking, StaleCorrectionDropped, Slow
<1>4. QED
  BY <1>2, <1>3

\* Time preserves it: the ages grow together, so their difference only grows
\* where the younger one is saturated, which a moving target excludes.
LEMMA TickInv ==
  ASSUME IInv, Tick
  PROVE  IInv'
<1> USE SpeedAssumption, TimeAssumption, CommandAssumption
<1>1. /\ ~watchdogDue /\ watchdogDue' = (alive /\ CmdTimeout > 0)
      /\ UNCHANGED <<alive, target, esc, adjust, actual, brake>>
      /\ cmdAge' = OneOlder(cmdAge, CmdCap)
      /\ fbAge' = OneOlder(fbAge, FbCap)
  BY DEF Tick
<1>2. cmdAge \in 0 .. CmdCap /\ fbAge \in 0 .. FbCap
  BY DEF IInv, DriveTypeOK
<1>3. cmdAge' \in 0 .. CmdCap /\ fbAge' \in 0 .. FbCap
  BY <1>1, <1>2 DEF OneOlder, CmdCap, FbCap
<1>4. watchdogDue' \in BOOLEAN
  BY <1>1
<1>5. DriveTypeOK'
  BY <1>1, <1>3, <1>4 DEF IInv, DriveTypeOK
<1>6. /\ DeadIsFresh' /\ EscIsAdjusted' /\ StopIsNeutralOrBraking'
  BY <1>1 DEF IInv, DeadIsFresh, EscIsAdjusted, StopIsNeutralOrBraking, Slow
<1>7. CmdTimeout > 0 /\ Moving(target) => alive /\ cmdAge <= CmdTimeout
  BY <1>1, ZeroIsIdle DEF IInv, CommandsExpire, DeadIsFresh
<1>8. CommandsExpire'
  <2>1. SUFFICES ASSUME CmdTimeout > 0, Moving(target)
                 PROVE  watchdogDue' /\ cmdAge' <= CmdTimeout + 1
    BY <1>1 DEF CommandsExpire
  <2>2. QED
    <3>1. watchdogDue'
      BY <1>1, <1>7, <2>1
    <3>2. cmdAge' <= CmdTimeout + 1
      BY <1>1, <1>2, <1>7, <2>1 DEF OneOlder, CmdCap
    <3>3. QED
      BY <3>1, <3>2
<1>9. StaleCorrectionDropped'
  BY <1>1, <1>2, <1>7
     DEF StaleCorrectionDropped, IInv, OneOlder, CmdCap, FbCap
<1>10. QED
  BY <1>5, <1>6, <1>8, <1>9 DEF IInv

\* A death or a respawn leaves a process without a target.
LEMMA LifeCycleInv ==
  ASSUME IInv, (\E graceful \in BOOLEAN : Die(graceful)) \/ Respawn
  PROVE  IInv'
<1> USE SpeedAssumption, TimeAssumption, CommandAssumption
<1>1. CASE \E graceful \in BOOLEAN : Die(graceful)
  <2>1. PICK graceful \in BOOLEAN : Die(graceful)
    BY <1>1
  <2>2. /\ alive' = FALSE /\ target' = 0 /\ adjust' = 0 /\ actual' = 0
        /\ brake' = FALSE /\ cmdAge' = CmdCap /\ fbAge' = FbCap
        /\ watchdogDue' = FALSE /\ esc' \in Int
    BY <2>1 DEF Die, IInv, DriveTypeOK
  <2>a. alive' \in BOOLEAN /\ brake' \in BOOLEAN /\ watchdogDue' \in BOOLEAN
    BY <2>2
  <2>b. /\ target' \in Targets /\ actual' \in Speeds
        /\ adjust' \in (-MaxAdjust .. MaxAdjust) \cup {NaN}
        /\ cmdAge' \in 0 .. CmdCap /\ fbAge' \in 0 .. FbCap
    BY <2>2, ZeroIsIdle DEF Speeds, CmdCap, FbCap
  <2>3. DriveTypeOK'
    BY <2>2, <2>a, <2>b DEF DriveTypeOK
  <2>4. QED
    BY <2>2, <2>3, ZeroIsIdle
       DEF IInv, DeadIsFresh, EscIsAdjusted, StopIsNeutralOrBraking,
           CommandsExpire, StaleCorrectionDropped
<1>2. CASE Respawn
  <2>1. /\ ~alive /\ alive' = TRUE /\ esc' = 0 /\ target' = 0 /\ brake' = FALSE
        /\ UNCHANGED <<adjust, actual, cmdAge, fbAge, watchdogDue>>
    BY <1>2 DEF Respawn, IInv, DeadIsFresh
  <2>a. alive' \in BOOLEAN /\ brake' \in BOOLEAN
    BY <2>1
  <2>2. DriveTypeOK'
    BY <2>1, <2>a, ZeroIsIdle DEF IInv, DriveTypeOK
  <2>3. QED
    BY <2>1, <2>2, ZeroIsIdle
       DEF IInv, DeadIsFresh, EscIsAdjusted, StopIsNeutralOrBraking,
           CommandsExpire, StaleCorrectionDropped
<1>3. QED
  BY <1>1, <1>2

LEMMA InitInv == DriveInit => IInv
<1> USE SpeedAssumption, TimeAssumption, CommandAssumption
<1> SUFFICES ASSUME DriveInit PROVE IInv
  OBVIOUS
<1>1. alive \in BOOLEAN /\ brake \in BOOLEAN /\ watchdogDue \in BOOLEAN
  BY DEF DriveInit
<1>2. DriveTypeOK
  BY <1>1, ZeroIsIdle DEF DriveInit, DriveTypeOK, Speeds, CmdCap, FbCap
<1>3. QED
  BY <1>2, ZeroIsIdle
     DEF DriveInit, IInv, DeadIsFresh, EscIsAdjusted, StopIsNeutralOrBraking,
         CommandsExpire, StaleCorrectionDropped

\* Every step preserves the invariant.
LEMMA NextInv ==
  ASSUME IInv, [DriveNext]_driveVars
  PROVE  IInv'
<1>1. CASE \E v \in Commands : Command(v)
  <2>1. PICK v \in Commands : Command(v)
    BY <1>1
  <2>2. /\ alive /\ SetSpeed(v) /\ alive' = alive /\ watchdogDue' = watchdogDue
    BY <2>1 DEF Command
  <2>3. watchdogDue' \in BOOLEAN
    BY <2>2 DEF IInv, DriveTypeOK
  <2>4. QED
    BY <2>2, <2>3, ClampCommandType, SetSpeedInv
<1>2. CASE \E v, p \in Speeds : Odom(v, p)
  BY <1>2, OdomInv
<1>3. CASE CmdWatchdog
  BY <1>3, CmdWatchdogInv
<1>4. CASE Tick
  BY <1>4, TickInv
<1>5. CASE (\E graceful \in BOOLEAN : Die(graceful)) \/ Respawn
  BY <1>5, LifeCycleInv
<1>6. CASE UNCHANGED driveVars
  BY <1>6 DEF driveVars, IInv, DriveTypeOK, DeadIsFresh, EscIsAdjusted, Slow,
              StopIsNeutralOrBraking, CommandsExpire, StaleCorrectionDropped
<1>7. QED
  BY <1>1, <1>2, <1>3, <1>4, <1>5, <1>6 DEF DriveNext

\* The inductive invariant holds throughout, whatever commands, odometry,
\* deaths and timer runs the node meets.
THEOREM SpecInv == DriveSpec => []IInv
<1>1. IInv /\ [DriveNext]_driveVars => IInv'
  BY NextInv
<1>2. QED
  BY InitInv, <1>1, PTL DEF DriveSpec

\* The state of the speed loop is well typed.
THEOREM DriveTypeCorrect == DriveSpec => []DriveTypeOK
<1>1. IInv => DriveTypeOK
  BY DEF IInv
<1>2. QED
  BY SpecInv, <1>1, PTL

\* cmd_timeout: a moving target is never older than the command window.
THEOREM CommandsAlwaysExpire == DriveSpec => []CommandsExpire
<1>1. IInv => CommandsExpire
  BY DEF IInv
<1>2. QED
  BY SpecInv, <1>1, PTL

\* get_adjusted_speed: the corrected duty keeps the commanded direction and
\* stays near the command.
THEOREM EscAlwaysFollowsTarget == DriveSpec => []EscFollowsTarget
<1>1. ASSUME IInv
      PROVE  EscFollowsTarget
  <2> USE SpeedAssumption, CommandAssumption
  <2>1. SUFFICES ASSUME alive, Moving(target)
                 PROVE  /\ (esc > 0) <=> (target > 0)
                        /\ Abs(esc) >= Deadzone
                        /\ adjust # NaN => Abs(esc - target) <= MaxAdjust
    BY DEF EscFollowsTarget
  <2>2. /\ target \in Int /\ target # NaN /\ Abs(target) >= Deadzone
    BY <1>1, <2>1 DEF IInv, DriveTypeOK, Moving, Targets, Speeds
  <2>3. esc = Adjusted(target, adjust)
    BY <1>1, <2>1, <2>2, MovingIsNotIdle DEF IInv, EscIsAdjusted, DriveTypeOK
  <2>4. adjust \in (-MaxAdjust .. MaxAdjust) \cup {NaN}
    BY <1>1 DEF IInv, DriveTypeOK
  <2>5. CASE adjust = NaN
    BY <2>2, <2>3, <2>5 DEF Adjusted, Abs
  <2>6. CASE adjust # NaN
    BY <2>2, <2>3, <2>4, <2>6 DEF Adjusted, Abs
  <2>7. QED
    BY <2>5, <2>6
<1>2. IInv => EscFollowsTarget
  BY <1>1
<1>3. QED
  BY SpecInv, <1>2, PTL

\* set_speed and odom_callback: a stopped car is neutral or being braked.
THEOREM StopIsAlwaysNeutralOrBraking == DriveSpec => []StopIsNeutralOrBraking
<1>1. IInv => StopIsNeutralOrBraking
  BY DEF IInv
<1>2. QED
  BY SpecInv, <1>1, PTL

\* Both halves of what set_speed, get_adjusted_speed and odom_callback owe the
\* command.
THEOREM EscAlwaysObeys == DriveSpec => []EscObeys
<1>1. EscFollowsTarget /\ StopIsNeutralOrBraking => EscObeys
  BY DEF EscObeys
<1>2. QED
  BY EscAlwaysFollowsTarget, StopIsAlwaysNeutralOrBraking, <1>1, PTL

\* FEEDBACK_TIMEOUT and cmd_timeout together: a correction never outlives the
\* command it was computed for.
THEOREM StaleCorrectionAlwaysDropped == DriveSpec => []StaleCorrectionDropped
<1>1. IInv => StaleCorrectionDropped
  BY DEF IInv
<1>2. QED
  BY SpecInv, <1>1, PTL

-----------------------------------------------------------------------------
\* Without a command the set_speed of the watchdog is a renewal of the lease
\* that grants nothing; every other step but a command's lets it run or
\* revokes it.
LEMMA StepImplementsLease ==
  ASSUME CmdTimeout > 0, IInv, [DriveNext]_driveVars
  PROVE  [Lease!LeaseNext]_(Lease!leaseVars)
<1> USE SpeedAssumption, TimeAssumption, CommandAssumption
<1> USE DEF Lease!LeaseNext, Lease!leaseVars
<1>1. ASSUME NEW v, SetSpeed(v)
      PROVE  Lease!Renew
  <2>1. cmdAge' = 0
    BY <1>1 DEF SetSpeed, StampCommand
  <2>2. Moving(target)' \in BOOLEAN
    BY DEF Moving
  <2>3. QED
    BY <2>1, <2>2 DEF Lease!Renew
<1>2. CASE \E v \in Commands : Command(v)
  BY <1>1, <1>2 DEF Command
<1>3. CASE \E v, p \in Speeds : Odom(v, p)
  <2>1. target' = target /\ cmdAge' = cmdAge
    BY <1>3 DEF Odom
  <2>2. QED
    BY <2>1 DEF Moving
<1>4. CASE CmdWatchdog
  <2>1. CASE CommandStale
    BY <1>1, <1>4, <2>1 DEF CmdWatchdog
  <2>2. CASE ~CommandStale
    <3>1. target' = target /\ cmdAge' = cmdAge
      BY <1>4, <2>2 DEF CmdWatchdog
    <3>2. QED
      BY <3>1 DEF Moving
  <2>3. QED
    BY <2>1, <2>2
<1>5. CASE Tick
  <2>1. /\ ~watchdogDue /\ target' = target
        /\ cmdAge' = IF cmdAge < CmdTimeout + 1 THEN cmdAge + 1 ELSE CmdTimeout + 1
    BY <1>5 DEF Tick, OneOlder, CmdCap
  <2>2. cmdAge \in 0 .. CmdTimeout + 1
    BY DEF IInv, DriveTypeOK, CmdCap
  <2>3. cmdAge' = IF cmdAge < CmdTimeout + 1 THEN cmdAge + 1 ELSE cmdAge
    BY <2>1, <2>2
  <2>4. Moving(target) => cmdAge <= CmdTimeout
    BY <2>1 DEF IInv, CommandsExpire
  <2>5. Moving(target)' = Moving(target)
    BY <2>1 DEF Moving
  <2>6. Lease!Elapse
    BY <2>3, <2>4, <2>5 DEF Lease!Elapse, Lease!LeaseCap
  <2>7. QED
    BY <2>6
<1>6. CASE \E graceful \in BOOLEAN : Die(graceful)
  <2>1. target' = 0 /\ cmdAge' = CmdTimeout + 1
    BY <1>6 DEF Die, CmdCap
  <2>2. ~Moving(target)'
    BY <2>1, ZeroIsIdle DEF Moving
  <2>3. Moving(target)' = FALSE
    BY <2>2 DEF Moving
  <2>4. QED
    BY <2>1, <2>3 DEF Lease!Revoke, Lease!LeaseCap
<1>7. CASE Respawn
  <2>1. target' = target /\ cmdAge' = cmdAge
    BY <1>7 DEF Respawn
  <2>2. QED
    BY <2>1 DEF Moving
<1>8. CASE UNCHANGED driveVars
  <2>1. target' = target /\ cmdAge' = cmdAge
    BY <1>8 DEF driveVars
  <2>2. QED
    BY <2>1 DEF Moving
<1>9. QED
  BY <1>2, <1>3, <1>4, <1>5, <1>6, <1>7, <1>8 DEF DriveNext

\* With the watchdog on, the speed loop implements the command lease: motion
\* is granted by commands only and expires with the window.
THEOREM DriveImplementsLease ==
  ASSUME CmdTimeout > 0
  PROVE  DriveSpec => ImplementsLease
<1>1. DriveInit => Lease!LeaseInit
  <2>1. SUFFICES ASSUME DriveInit PROVE Lease!LeaseInit
    OBVIOUS
  <2>2. target = 0 /\ cmdAge = CmdTimeout + 1
    BY <2>1 DEF DriveInit, CmdCap
  <2>3. Moving(target) = FALSE
    BY <2>2, ZeroIsIdle DEF Moving
  <2>4. QED
    BY <2>2, <2>3 DEF Lease!LeaseInit, Lease!LeaseCap
<1>2. IInv /\ [DriveNext]_driveVars => [Lease!LeaseNext]_(Lease!leaseVars)
  BY StepImplementsLease
<1>3. QED
  BY SpecInv, <1>1, <1>2, PTL DEF DriveSpec, ImplementsLease, Lease!LeaseSpec

-----------------------------------------------------------------------------
(* The node.                                                               *)

\* A step of the node is a step of the loop or a stutter.
LEMMA DriverStepIsDriveStep ==
  ASSUME [DriverNext]_driverVars
  PROVE  [DriveNext]_driveVars
<1>1. CASE UNCHANGED driverVars
  BY <1>1 DEF driverVars, driveVars
<1>2. ASSUME NEW v \in Commands, SpeedMsg(v) \/ TeleopSpeed(v)
      PROVE  DriveNext
  BY <1>2 DEF SpeedMsg, TeleopSpeed, DriveNext
<1>3. ASSUME NEW v \in Commands, NEW a \in Angles, CmdVel(v, a)
      PROVE  DriveNext
  BY <1>3 DEF CmdVel, DriveNext
<1>4. ASSUME NEW a \in Angles,
             \/ SteeringMsg(a) \/ TeleopSteering(a)
             \/ CameraMsg(a) \/ TeleopCamera(a) \/ ServoCommands(a)
      PROVE  UNCHANGED driveVars
  BY <1>4 DEF SteeringMsg, TeleopSteering, CameraMsg, TeleopCamera, ServoCommands
<1>5. ASSUME NEW s \in Sources, NEW st \in Statuses, TeleopStatus(s, st)
      PROVE  UNCHANGED driveVars
  BY <1>5 DEF TeleopStatus
<1>6. CASE DriverOdom
  BY <1>6 DEF DriverOdom, DriveNext
<1>7. CASE DriverWatchdog
  BY <1>7 DEF DriverWatchdog, DriveNext
<1>8. CASE DriverTick
  BY <1>8 DEF DriverTick, DriveNext
<1>9. ASSUME NEW graceful \in BOOLEAN, DriverDie(graceful)
      PROVE  DriveNext
  BY <1>9 DEF DriverDie, DriveNext
<1>10. CASE DriverRespawn
  BY <1>10 DEF DriverRespawn, DriveNext
<1> QED
  BY <1>1, <1>2, <1>3, <1>4, <1>5, <1>6, <1>7, <1>8, <1>9, <1>10 DEF DriverNext

\* The node implements the speed loop.
THEOREM DriverImplementsDrive == DriverSpec => DriveSpec
<1>1. DriverInit => DriveInit
  BY DEF DriverInit
<1>2. [DriverNext]_driverVars => [DriveNext]_driveVars
  BY DriverStepIsDriveStep
<1> QED
  BY <1>1, <1>2, PTL DEF DriverSpec, DriveSpec

\* Whoever publishes, through whichever topic, claim or hand-over: the node
\* moves the car only under a command younger than the window.
THEOREM DriverCommandsExpire == DriverSpec => []CommandsExpire
  BY DriverImplementsDrive, CommandsAlwaysExpire, PTL

\* Whichever topic moves or stops the car, the ESC follows the command, and a
\* stopped car is neutral or being braked.
THEOREM DriverEscObeys == DriverSpec => []EscObeys
  BY DriverImplementsDrive, EscAlwaysObeys, PTL

-----------------------------------------------------------------------------
(* The claim.  What an autonomous publisher set in motion is at least as   *)
(* old as the claim, because the claim has kept its renewals out; and the  *)
(* window ends it.                                                         *)

EvictInv ==
  /\ lockedFor \in Nat
  /\ ~DriveEngaged => lockedFor = 0
  /\ CmdTimeout > 0 /\ owner = "auto" /\ Moving(target) => lockedFor <= cmdAge

LEMMA EvictInvInit == DriverInit => EvictInv
  BY DEF DriverInit, EvictInv

LEMMA EvictInvNext ==
  ASSUME IInv, EvictInv, [DriverNext]_driverVars
  PROVE  EvictInv'
<1> USE DEF EvictInv
<1>1. cmdAge \in 0 .. CmdCap /\ CmdTimeout \in Nat
  BY TimeAssumption DEF IInv, DriveTypeOK
<1>2. ASSUME UNCHANGED teleop PROVE DriveEngaged' = DriveEngaged
  BY <1>2 DEF DriveEngaged
<1>3. CASE UNCHANGED driverVars
  BY <1>2, <1>3 DEF driverVars, driveVars, arbiterVars
<1>4. ASSUME NEW v \in Commands, SpeedMsg(v) \/ \E a \in Angles : CmdVel(v, a)
      PROVE  EvictInv'
  <2>1. lockedFor = 0 /\ UNCHANGED <<lockedFor, teleop>>
    BY <1>4 DEF SpeedMsg, CmdVel, AutonomyMayDrive
  <2>2. cmdAge' = 0
    BY <1>4 DEF SpeedMsg, CmdVel, Command, SetSpeed, StampCommand
  <2> QED BY <1>2, <2>1, <2>2
<1>5. ASSUME NEW v \in Commands, TeleopSpeed(v)
      PROVE  EvictInv'
  BY <1>2, <1>5 DEF TeleopSpeed
<1>6. ASSUME NEW a \in Angles,
             \/ SteeringMsg(a) \/ TeleopSteering(a)
             \/ CameraMsg(a) \/ TeleopCamera(a) \/ ServoCommands(a)
      PROVE  EvictInv'
  BY <1>2, <1>6
     DEF SteeringMsg, TeleopSteering, CameraMsg, TeleopCamera, ServoCommands, driveVars
<1>7. ASSUME NEW s \in Sources, NEW st \in Statuses, TeleopStatus(s, st)
      PROVE  EvictInv'
  <2>1. /\ lockedFor' = IF DriveEngaged' THEN lockedFor ELSE 0
        /\ UNCHANGED <<target, cmdAge, owner>>
    BY <1>7 DEF TeleopStatus, TrackLock, driveVars
  <2> QED BY <1>1, <2>1
<1>8. CASE DriverOdom
  BY <1>2, <1>8 DEF DriverOdom, Odom, arbiterVars
<1>9. CASE DriverWatchdog
  <2>1. UNCHANGED <<teleop, lockedFor>>
    BY <1>9 DEF DriverWatchdog
  <2>2. CASE CommandStale
    BY <1>2, <1>9, <2>1, <2>2 DEF DriverWatchdog
  <2>3. CASE ~CommandStale
    BY <1>2, <1>9, <2>1, <2>3 DEF DriverWatchdog, CmdWatchdog
  <2> QED BY <2>2, <2>3
<1>10. CASE DriverTick
  <2>1. /\ lockedFor' = IF DriveEngaged' THEN OneOlder(lockedFor, LockCap) ELSE 0
        /\ cmdAge' = OneOlder(cmdAge, CmdCap) /\ ~watchdogDue
        /\ UNCHANGED <<target, owner>>
    BY <1>10 DEF DriverTick, Tick
  <2>2. lockedFor' \in Nat /\ lockedFor' <= lockedFor + 1
    BY <1>1, <2>1 DEF OneOlder, LockCap
  <2>3. ASSUME CmdTimeout > 0, Moving(target) PROVE cmdAge' = cmdAge + 1
    BY <1>1, <2>1, <2>3 DEF IInv, CommandsExpire, OneOlder, CmdCap
  <2>4. CmdTimeout > 0 /\ owner' = "auto" /\ Moving(target') => lockedFor' <= cmdAge'
    BY <1>1, <2>1, <2>2, <2>3
  <2> QED BY <2>1, <2>2, <2>4
<1>11. ASSUME NEW graceful \in BOOLEAN, DriverDie(graceful)
       PROVE  EvictInv'
  BY <1>11 DEF DriverDie
<1>12. CASE DriverRespawn
  BY <1>2, <1>12 DEF DriverRespawn, Respawn
<1> QED
  BY <1>3, <1>4, <1>5, <1>6, <1>7, <1>8, <1>9, <1>10, <1>11, <1>12 DEF DriverNext

\* teleop_status_callback and the guards of /speed and /cmd_vel: for any sources,
\* statuses and timeouts, a claim that lasts as long as the window leaves no
\* autonomous motion.
THEOREM ClaimAlwaysEvictsAutonomy == DriverSpec => []ClaimEvictsAutonomy
<1>1. IInv /\ EvictInv => ClaimEvictsAutonomy
  BY TimeAssumption DEF IInv, DriveTypeOK, EvictInv, ClaimEvictsAutonomy, CmdCap
<1>2. IInv /\ EvictInv /\ [DriverNext]_driverVars => EvictInv'
  BY EvictInvNext
<1>3. DriverSpec => []IInv
  BY DriverImplementsDrive, SpecInv, PTL
<1> QED BY <1>1, <1>2, <1>3, EvictInvInit, PTL DEF DriverSpec

-----------------------------------------------------------------------------
(* The joystick node.                                                      *)

\* What the node leaves behind.  ReleaseLeavesZero is inductive as it stands.
LEMMA ReleaseStep ==
  ASSUME ReleaseLeavesZero, [JoyNext]_joyVars
  PROVE  ReleaseLeavesZero'
<1>1. CASE UNCHANGED joyVars
  BY <1>1 DEF joyVars, claimVars, topicVars, ReleaseLeavesZero
<1>2. ASSUME NEW r \in Reports, OnJoy(r)
      PROVE  ReleaseLeavesZero'
  BY <1>2 DEF OnJoy, claimVars, topicVars, ReleaseLeavesZero
<1>3. CASE TickUnattended
  BY <1>3 DEF TickUnattended, SilentSpeed, ReleaseLeavesZero
<1>4. CASE TickAttended
  <2>1. enabled /\ enabled' = enabled
    BY <1>4 DEF TickAttended, Unattended
  <2>2. CASE driving' \/ standing' = 0
    BY <2>1, <2>2 DEF ReleaseLeavesZero
  <2>3. CASE ~driving' /\ standing' # 0
    <3>1. ~driving /\ standing' = standing
      BY <1>4, <2>3 DEF TickAttended, DriveOutput, PublishSpeed, SilentSpeed
    <3>2. dropped
      BY <2>3, <3>1 DEF ReleaseLeavesZero
    <3> QED
      BY <1>4, <2>3, <3>1, <3>2 DEF TickAttended, ReleaseLeavesZero
  <2> QED
    BY <2>2, <2>3
<1>5. ASSUME NEW on \in BOOLEAN, SetEnabled(on)
      PROVE  ReleaseLeavesZero'
  <2>1. driving' = driving /\ enabled' = on
    BY <1>5 DEF SetEnabled, claimVars
  <2>2. CASE enabled /\ ~on
    BY <1>5, <2>2 DEF SetEnabled, PublishSpeed, ReleaseLeavesZero
  <2>3. CASE ~(enabled /\ ~on)
    BY <1>5, <2>1, <2>3 DEF SetEnabled, SilentSpeed, ReleaseLeavesZero
  <2> QED
    BY <2>2, <2>3
<1>6. ASSUME NEW m \in Mappings, NEW namesRate \in BOOLEAN, SetMapping(m, namesRate)
      PROVE  ReleaseLeavesZero'
  BY <1>6 DEF SetMapping, claimVars, topicVars, ReleaseLeavesZero
<1>7. CASE JoyDie
  BY <1>7 DEF JoyDie, ReleaseLeavesZero
<1>8. CASE JoyRespawn
  BY <1>8 DEF JoyRespawn, SilentSpeed, claimVars, ReleaseLeavesZero
<1>9. CASE JoyElapse
  BY <1>9 DEF JoyElapse, topicVars, ReleaseLeavesZero
<1>10. CASE Deliver
  BY <1>10 DEF Deliver, claimVars, ReleaseLeavesZero
<1> QED
  BY <1>1, <1>2, <1>3, <1>4, <1>5, <1>6, <1>7, <1>8, <1>9, <1>10
     DEF JoyNext, JoyCallback

\* However the operator lets go, the last speed published is zero, unless the
\* controller or the node dropped out.
THEOREM ReleaseAlwaysLeavesZero == JoySpec => []ReleaseLeavesZero
<1>1. JoyInit => ReleaseLeavesZero
  BY DEF JoyInit, ReleaseLeavesZero
<1> QED
  BY <1>1, ReleaseStep, PTL DEF JoySpec

-----------------------------------------------------------------------------
(* The claim.  on_param_set may publish a claim between two ticks from      *)
(* drive_engaged_ alone, without looking at the age of the report: so it is *)
(* the flag, not only the claim, that has to be bounded.                    *)
ClaimInv ==
  /\ joyAge \in 0 .. JoyCap /\ timerAge \in 0 .. TimerCap
  /\ up /\ driving => joyAge <= JoyTimeout + timerAge
  /\ up /\ claim => driving /\ enabled
  /\ ~up => ~driving

LEMMA ClaimStep ==
  ASSUME ClaimInv, [JoyNext]_joyVars
  PROVE  ClaimInv'
<1> USE WindowAssumption DEF JoyCap, TimerCap
<1>1. CASE UNCHANGED joyVars
  BY <1>1 DEF joyVars, inputVars, claimVars, topicVars, ClaimInv
<1>2. ASSUME NEW r \in Reports, OnJoy(r)
      PROVE  ClaimInv'
  BY <1>2 DEF OnJoy, claimVars, topicVars, ClaimInv
<1>3. CASE TickUnattended
  BY <1>3 DEF TickUnattended, TimerFires, PublishStatus, inputVars, ClaimInv
<1>4. CASE TickAttended
  <2>1. joyAge \in 0 .. JoyCap /\ joyAge <= JoyTimeout /\ enabled
    BY <1>4 DEF TickAttended, Unattended, ClaimInv
  <2>2. claim' = driving' /\ timerAge' = 0 /\ UNCHANGED <<up, enabled, joyAge>>
    BY <1>4 DEF TickAttended, TimerFires, PublishStatus, inputVars
  <2>3. up
    BY <1>4 DEF TickAttended
  <2> QED
    BY <2>1, <2>2, <2>3 DEF ClaimInv
<1>5. ASSUME NEW on \in BOOLEAN, SetEnabled(on)
      PROVE  ClaimInv'
  <2>1. claim' = (on /\ driving) /\ enabled' = on
    BY <1>5 DEF SetEnabled, PublishStatus
  <2>2. UNCHANGED <<up, joyAge, timerAge, driving>>
    BY <1>5 DEF SetEnabled, inputVars, claimVars
  <2> QED
    BY <2>1, <2>2 DEF ClaimInv
<1>6. ASSUME NEW m \in Mappings, NEW namesRate \in BOOLEAN, SetMapping(m, namesRate)
      PROVE  ClaimInv'
  BY <1>6 DEF SetMapping, inputVars, claimVars, topicVars, ClaimInv
<1>7. CASE JoyDie
  BY <1>7 DEF JoyDie, topicVars, ClaimInv
<1>8. CASE JoyRespawn
  BY <1>8 DEF JoyRespawn, PublishStatus, inputVars, claimVars, ClaimInv
<1>9. CASE JoyElapse
  BY <1>9 DEF JoyElapse, OneOlder, topicVars, ClaimInv
<1>10. CASE Deliver
  BY <1>10 DEF Deliver, inputVars, claimVars, ClaimInv
<1> QED
  BY <1>1, <1>2, <1>3, <1>4, <1>5, <1>6, <1>7, <1>8, <1>9, <1>10
     DEF JoyNext, JoyCallback

\* The node claims the drive for a silent controller no longer than the
\* stale-joy guard plus the lateness of its own timer.
THEOREM ClaimAlwaysNeedsLiveController == JoySpec => []ClaimNeedsLiveController
<1>1. JoyInit => ClaimInv
  BY WindowAssumption DEF JoyInit, FreshNode, ClaimInv, JoyCap, TimerCap
<1>2. ClaimInv => ClaimNeedsLiveController
  BY DEF ClaimInv, ClaimNeedsLiveController
<1> QED
  BY <1>1, <1>2, ClaimStep, PTL DEF JoySpec

-----------------------------------------------------------------------------
(* A topic as the queue of its undelivered messages.                        *)

Newest(q) == q[Len(q)]
Among(q) == {q[i] : i \in DOMAIN q}

\* Publishing on a topic: the message is the newest and nothing else is new.
LEMMA QueuedKeeps ==
  ASSUME NEW S, NEW q \in Seq(S), NEW m \in S
  PROVE  /\ Queued(q, m) \in Seq(S) /\ Queued(q, m) # << >>
         /\ Newest(Queued(q, m)) = m
         /\ Among(Queued(q, m)) \subseteq Among(q) \cup {m}
<1> DEFINE all == Append(q, m)
<1>1. /\ all \in Seq(S) /\ Len(all) = Len(q) + 1 /\ Len(q) \in Nat
      /\ \A i \in 1 .. Len(q) : all[i] = q[i]
      /\ all[Len(q) + 1] = m
  BY AppendProperties, LenProperties
<1>2. DOMAIN q = 1 .. Len(q) /\ DOMAIN all = 1 .. Len(q) + 1
  BY <1>1, LenProperties
<1>3. Newest(all) = m /\ Among(all) \subseteq Among(q) \cup {m} /\ all # << >>
  BY <1>1, <1>2, EmptySeq DEF Newest, Among
<1>4. CASE Len(all) <= Depth
  <2>1. Queued(q, m) = all
    BY <1>1, <1>4, WindowAssumption DEF Queued
  <2> QED BY <1>1, <1>3, <2>1
<1>5. CASE ~(Len(all) <= Depth)
  <2>1. Queued(q, m) = Tail(all) /\ Len(all) > 1
    BY <1>1, <1>5, WindowAssumption DEF Queued
  <2>2. /\ Tail(all) \in Seq(S) /\ Len(Tail(all)) = Len(all) - 1
        /\ \A i \in 1 .. Len(Tail(all)) : Tail(all)[i] = all[i + 1]
    BY <1>1, <1>3, HeadTailProperties
  <2>3. DOMAIN Tail(all) = 1 .. Len(all) - 1
    BY <2>2, LenProperties
  <2>4. Newest(Tail(all)) = Newest(all) /\ Tail(all) # << >>
    BY <1>1, <2>1, <2>2, EmptySeq DEF Newest
  <2>5. Among(Tail(all)) \subseteq Among(all)
    BY <1>1, <1>2, <2>2, <2>3 DEF Among
  <2> QED BY <1>3, <2>1, <2>2, <2>4, <2>5
<1> QED BY <1>4, <1>5

\* Taking the oldest message of a topic.
LEMMA TailKeeps ==
  ASSUME NEW S, NEW q \in Seq(S), q # << >>
  PROVE  /\ Tail(q) \in Seq(S) /\ Head(q) \in S /\ Head(q) \in Among(q)
         /\ Tail(q) = << >> => Head(q) = Newest(q)
         /\ Tail(q) # << >> => Newest(Tail(q)) = Newest(q)
         /\ Among(Tail(q)) \subseteq Among(q)
<1>1. /\ Tail(q) \in Seq(S) /\ Head(q) \in S /\ Head(q) = q[1]
      /\ Len(Tail(q)) = Len(q) - 1
      /\ \A i \in 1 .. Len(Tail(q)) : Tail(q)[i] = q[i + 1]
  BY HeadTailProperties
<1>2. /\ DOMAIN q = 1 .. Len(q) /\ DOMAIN Tail(q) = 1 .. Len(q) - 1 /\ Len(q) \in Nat
      /\ Len(q) > 0 /\ Len(<< >>) = 0
  BY <1>1, LenProperties, EmptySeq
<1>3. Head(q) \in Among(q) /\ Among(Tail(q)) \subseteq Among(q)
  BY <1>1, <1>2 DEF Among
<1>4. Tail(q) = << >> => Head(q) = Newest(q)
  <2>1. Tail(q) = << >> => Len(Tail(q)) = 0
    BY <1>2
  <2>2. Tail(q) = << >> => Len(q) = 1
    BY <1>1, <1>2, <2>1
  <2> QED BY <1>1, <2>2 DEF Newest
<1>5. Tail(q) # << >> => Newest(Tail(q)) = Newest(q)
  BY <1>1, <1>2, EmptySeq DEF Newest
<1> QED BY <1>1, <1>3, <1>4, <1>5

LEMMA AmongType ==
  ASSUME NEW S, NEW q \in Seq(S)
  PROVE  Among(q) \subseteq S /\ (q = << >> => Among(q) = {})
  BY DEF Among

\* The cap of a status' age is above every time-out the node sends.
LEMMA AgeCapIsHigh ==
  /\ AgeCap \in Nat /\ StatusTimeout < AgeCap
  /\ Timeout(StatusTimeout) = StatusTimeout /\ Timeout(0) = DefaultTimeout
<1> DEFINE longest == CHOOSE longest \in Timeouts : \A t \in Timeouts : longest >= t
<1>1. Timeout(StatusTimeout) = StatusTimeout /\ Timeout(0) = DefaultTimeout
  BY TeleopAssumption, WindowAssumption DEF Timeout
<1>2. \E st \in Statuses : st.timeout = StatusTimeout
  <2>1. [drive |-> TRUE, camera |-> TRUE, estop |-> TRUE, timeout |-> StatusTimeout]
          \in Statuses
    BY TeleopAssumption
  <2> QED BY <2>1
<1>3. StatusTimeout \in Timeouts
  BY <1>1, <1>2 DEF Timeouts
<1>4. Timeouts \subseteq Nat
  BY StatusAssumption DEF Timeouts, Timeout
<1>5. longest \in Timeouts /\ longest >= StatusTimeout
  BY <1>3, StatusAssumption
<1>6. AgeCap = 1 + longest
  BY DEF AgeCap
<1> HIDE DEF longest
<1>7. longest \in Nat /\ StatusTimeout \in Nat
  BY <1>4, <1>5, WindowAssumption
<1> QED BY <1>1, <1>5, <1>6, <1>7

-----------------------------------------------------------------------------
NodeStatuses == [drive : BOOLEAN, camera : BOOLEAN, estop : BOOLEAN,
                 timeout : {StatusTimeout}]
Entries == [drive : BOOLEAN, camera : BOOLEAN, estop : BOOLEAN, timeout : Nat,
            age : 0 .. AgeCap]

TeleopTypes ==
  /\ driving \in BOOLEAN /\ aiming \in BOOLEAN /\ estop \in BOOLEAN /\ claim \in BOOLEAN
  /\ mapping \in Mappings /\ report \in Reports \cup {NoReport}
  /\ driveQuiet \in Nat /\ cameraQuiet \in Nat
  /\ speedTopic \in Seq(Commands) /\ statusTopic \in Seq(NodeStatuses)
  /\ teleop \in [Sources -> Entries]
  /\ estopFor \in 0 .. EstopCap /\ silence \in 0 .. SilenceCap

LEMMA CapsAreNat ==
  /\ EstopCap \in Nat /\ SilenceCap \in Nat /\ QuietCap \in Nat /\ JoyCap \in Nat
  /\ JoyTimeout + StatusTimeout + 1 = JoyCap /\ JoyCap < SilenceCap
  /\ 2 * StatusTimeout < EstopCap
  BY WindowAssumption, TimeAssumption
     DEF EstopCap, SilenceCap, QuietCap, JoyCap

\* What the node sends.
LEMMA StatusSent ==
  ASSUME NEW d \in BOOLEAN, NEW c \in BOOLEAN, NEW e \in BOOLEAN,
         statusTopic \in Seq(NodeStatuses), PublishStatus(d, c, e)
  PROVE  /\ claim' = d /\ statusTopic' \in Seq(NodeStatuses)
         /\ statusTopic' # << >> /\ Newest(statusTopic').drive = d
         /\ \A st \in Among(statusTopic') : st \in Among(statusTopic) \/ st.drive = d
<1> DEFINE st == [drive |-> d, camera |-> c, estop |-> e, timeout |-> StatusTimeout]
<1>1. st \in NodeStatuses /\ st.drive = d
  BY DEF NodeStatuses
<1>2. claim' = d /\ statusTopic' = Queued(statusTopic, st)
  BY DEF PublishStatus
<1> HIDE DEF st
<1>3. /\ Queued(statusTopic, st) \in Seq(NodeStatuses) /\ Queued(statusTopic, st) # << >>
      /\ Newest(Queued(statusTopic, st)) = st
      /\ Among(Queued(statusTopic, st)) \subseteq Among(statusTopic) \cup {st}
  BY <1>1, QueuedKeeps
<1> QED BY <1>1, <1>2, <1>3

LEMMA SpeedSent ==
  ASSUME NEW v \in Commands, speedTopic \in Seq(Commands), PublishSpeed(v)
  PROVE  /\ speedTopic' \in Seq(Commands) /\ speedTopic' # << >>
         /\ Among(speedTopic') \subseteq Among(speedTopic) \cup {v}
  BY QueuedKeeps DEF PublishSpeed

LEMMA ReportIsCommand ==
  /\ 0 \in Commands
  /\ \A r \in Reports : /\ r.speed \in Commands
                        /\ {r.deadman, r.assist, r.estop, r.recenter} \subseteq BOOLEAN
  /\ \A m \in Mappings : /\ {m.deadman, m.assist, m.estop, m.recenter} \subseteq BOOLEAN
                         /\ m.period \in Nat \ {0}
<1>1. \A r \in Reports : r \in ReportSet
  BY ReportAssumption
<1>2. \A m \in Mappings : m \in MappingSet
  BY MappingAssumption
<1> QED BY <1>1, <1>2, TeleopAssumption DEF ReportSet, MappingSet

\* What a tick of the timer with a live controller does.
LEMMA AttendedTick ==
  ASSUME TeleopTypes, TickAttended
  PROVE  /\ driving' \in BOOLEAN /\ aiming' \in BOOLEAN
         /\ driveQuiet' \in Nat /\ cameraQuiet' \in Nat
         /\ claim' = driving' /\ statusTopic' \in Seq(NodeStatuses)
         /\ statusTopic' # << >> /\ Newest(statusTopic').drive = driving'
         /\ \A st \in Among(statusTopic') :
              st \in Among(statusTopic) \/ st.drive = driving'
         /\ speedTopic' \in Seq(Commands)
         /\ \A v \in Among(speedTopic') : v \in Among(speedTopic) \/ ~estop \/ v = 0
         /\ driving' /\ estop => speedTopic' # << >>
         /\ estop /\ ~mapping.deadman => driving'
<1>0. report \in Reports
  BY DEF TickAttended, Unattended, TeleopTypes
<1>1. /\ report.speed \in Commands /\ 0 \in Commands
      /\ report.deadman \in BOOLEAN /\ report.assist \in BOOLEAN
  BY <1>0, ReportIsCommand
<1>m. mapping.deadman \in BOOLEAN /\ mapping.assist \in BOOLEAN
  BY ReportIsCommand DEF TeleopTypes
<1>h. Hold \in Nat /\ driveQuiet \in Nat /\ cameraQuiet \in Nat
  BY WindowAssumption DEF TeleopTypes
<1>2. driveQuiet' \in Nat /\ driving' \in BOOLEAN /\ (estop /\ ~mapping.deadman => driving')
  <2>1. /\ driveQuiet' = IF ~mapping.deadman /\ (report.driving \/ estop)
                         THEN 0 ELSE driveQuiet
        /\ driving' = IF mapping.deadman THEN report.deadman ELSE driveQuiet' <= Hold
    BY DEF TickAttended, EngageDrive, EngagedByInput
  <2>2. driveQuiet' \in Nat
    BY <1>h, <2>1
  <2>3. CASE mapping.deadman
    BY <1>1, <2>1, <2>2, <2>3
  <2>4. CASE ~mapping.deadman
    <3>1. driving' = (driveQuiet' <= Hold)
      BY <2>1, <2>4
    <3>2. estop => driveQuiet' = 0
      BY <2>1, <2>4
    <3>3. ASSUME estop PROVE driving'
      <4>1. driveQuiet' <= Hold
        BY <1>h, <3>2, <3>3
      <4> QED BY <3>1, <4>1
    <3> QED BY <2>2, <3>1, <3>3
  <2> QED BY <2>3, <2>4
<1>3. cameraQuiet' \in Nat /\ aiming' \in BOOLEAN
  <2>1. /\ cameraQuiet' = IF ~mapping.assist /\ (report.aiming \/ recenter)
                          THEN 0 ELSE cameraQuiet
        /\ aiming' = IF mapping.assist THEN report.assist ELSE cameraQuiet' <= Hold
    BY DEF TickAttended, EngageCamera, EngagedByInput
  <2>2. cameraQuiet' \in Nat
    BY <1>h, <2>1
  <2>3. CASE mapping.assist
    BY <1>1, <2>1, <2>2, <2>3
  <2>4. CASE ~mapping.assist
    BY <2>1, <2>2, <2>4
  <2> QED BY <2>3, <2>4
<1>4. PublishStatus(driving', aiming', estop)
  BY DEF TickAttended
<1>5. /\ claim' = driving' /\ statusTopic' \in Seq(NodeStatuses)
      /\ statusTopic' # << >> /\ Newest(statusTopic').drive = driving'
      /\ \A st \in Among(statusTopic') : st \in Among(statusTopic) \/ st.drive = driving'
  BY <1>2, <1>3, <1>4, StatusSent DEF TeleopTypes
<1>6. \/ ~estop /\ \E v \in Commands : PublishSpeed(v)
      \/ PublishSpeed(0)
      \/ ~driving' /\ speedTopic' = speedTopic
  BY <1>1 DEF TickAttended, DriveOutput, SilentSpeed
<1>7. /\ speedTopic' \in Seq(Commands)
      /\ \A v \in Among(speedTopic') : v \in Among(speedTopic) \/ ~estop \/ v = 0
      /\ driving' /\ estop => speedTopic' # << >>
  BY <1>1, <1>6, SpeedSent DEF TeleopTypes
<1> QED BY <1>2, <1>3, <1>5, <1>7

\* What the driver keeps of a status, at the start, and one tick later.
LEMMA EntriesKept ==
  /\ \A st \in NodeStatuses :
       /\ Entry(st, 0) \in Entries /\ Entry(st, 0).age = 0
       /\ Entry(st, 0).drive = st.drive /\ Entry(st, 0).timeout = StatusTimeout
  /\ NoSources \in [Sources -> Entries] /\ \A s \in Sources : ~NoSources[s].drive
  /\ \A e \in Entries : LET f == [e EXCEPT !.age = OneOlder(@, AgeCap)] IN
       /\ f \in Entries /\ f.drive = e.drive /\ f.timeout = e.timeout
       /\ f.age = IF e.age < AgeCap THEN e.age + 1 ELSE AgeCap
<1>0. AgeCap \in Nat /\ DefaultTimeout \in Nat /\ StatusTimeout \in Nat
  BY AgeCapIsHigh, StatusAssumption, WindowAssumption
<1>1. ASSUME NEW st \in NodeStatuses
      PROVE  /\ Entry(st, 0) \in Entries /\ Entry(st, 0).age = 0
             /\ Entry(st, 0).drive = st.drive /\ Entry(st, 0).timeout = StatusTimeout
  BY <1>0, AgeCapIsHigh DEF Entry, NodeStatuses, Entries
<1>2. Entry(NoStatus, AgeCap) \in Entries /\ Entry(NoStatus, AgeCap).drive = FALSE
  BY <1>0, AgeCapIsHigh DEF Entry, NoStatus, Entries
<1>3. NoSources \in [Sources -> Entries] /\ \A s \in Sources : ~NoSources[s].drive
  BY <1>2 DEF NoSources
<1>4. ASSUME NEW e \in Entries
      PROVE  LET f == [e EXCEPT !.age = OneOlder(@, AgeCap)] IN
               /\ f \in Entries /\ f.drive = e.drive /\ f.timeout = e.timeout
               /\ f.age = IF e.age < AgeCap THEN e.age + 1 ELSE AgeCap
  BY <1>0, <1>4 DEF Entries, OneOlder
<1> QED BY <1>1, <1>3, <1>4

\* The histories keep their ranges.
LEMMA HistoryStep ==
  ASSUME TeleopTypes, TeleopDriveNext
  PROVE  estopFor' \in 0 .. EstopCap /\ silence' \in 0 .. SilenceCap
<1> USE CapsAreNat DEF TeleopTypes
<1>1. CASE JoyStep
  BY <1>1 DEF JoyStep
<1>2. CASE TakeSpeed \/ TakeStatus \/ DriverStep
  BY <1>2 DEF TakeSpeed, TakeStatus, DriverStep, KeepHistory
<1>3. CASE TeleopElapse
  BY <1>3 DEF TeleopElapse, OneOlder
<1> QED BY <1>1, <1>2, <1>3 DEF TeleopDriveNext

LEMMA TypesJoy ==
  ASSUME TeleopTypes, JoyCallback, UNCHANGED driverVars,
         estopFor' \in 0 .. EstopCap /\ silence' \in 0 .. SilenceCap
  PROVE  TeleopTypes'
<1>0. teleop' = teleop
  BY DEF driverVars, arbiterVars
<1> USE <1>0 DEF inputVars, claimVars, topicVars
<1>1. ASSUME NEW r \in Reports, OnJoy(r) PROVE TeleopTypes'
  <2>1. estop' \in BOOLEAN
    BY <1>1, ReportIsCommand DEF OnJoy, TeleopTypes
  <2> QED BY <1>1, <2>1 DEF OnJoy, TeleopTypes
<1>2. CASE TickUnattended
  <2>1. statusTopic' \in Seq(NodeStatuses) /\ claim' = FALSE
    BY <1>2, StatusSent DEF TickUnattended, TeleopTypes
  <2> QED BY <1>2, <2>1 DEF TickUnattended, SilentSpeed, TeleopTypes
<1>3. CASE TickAttended
  BY <1>3, AttendedTick DEF TickAttended, TeleopTypes
<1>4. ASSUME NEW on \in BOOLEAN, SetEnabled(on) PROVE TeleopTypes'
  <2>1. (on /\ driving) \in BOOLEAN /\ (on /\ aiming) \in BOOLEAN
    BY DEF TeleopTypes
  <2>2. statusTopic' \in Seq(NodeStatuses) /\ claim' \in BOOLEAN
    BY <1>4, <2>1, StatusSent DEF SetEnabled, TeleopTypes
  <2>3. speedTopic' \in Seq(Commands)
    BY <1>4, SpeedSent, ReportIsCommand DEF SetEnabled, SilentSpeed, TeleopTypes
  <2> QED BY <1>4, <2>2, <2>3 DEF SetEnabled, TeleopTypes
<1>5. ASSUME NEW m \in Mappings, NEW namesRate \in BOOLEAN, SetMapping(m, namesRate)
      PROVE  TeleopTypes'
  BY <1>5 DEF SetMapping, TeleopTypes
<1>6. CASE JoyDie
  BY <1>6, MappingAssumption, CapsAreNat DEF JoyDie, TeleopTypes
<1>7. CASE JoyRespawn
  <2>1. statusTopic' \in Seq(NodeStatuses) /\ claim' = FALSE
    BY <1>7, StatusSent DEF JoyRespawn, TeleopTypes
  <2> QED BY <1>7, <2>1 DEF JoyRespawn, SilentSpeed, TeleopTypes
<1> QED BY <1>1, <1>2, <1>3, <1>4, <1>5, <1>6, <1>7 DEF JoyCallback

LEMMA TypesStep ==
  ASSUME TeleopTypes, [TeleopDriveNext]_teleopDriveVars
  PROVE  TeleopTypes'
<1>0. CASE UNCHANGED teleopDriveVars
  BY <1>0 DEF teleopDriveVars, driverVars, arbiterVars, joyVars, inputVars, claimVars,
              topicVars, TeleopTypes
<1> SUFFICES ASSUME TeleopDriveNext PROVE TeleopTypes'
  BY <1>0
<1>h. estopFor' \in 0 .. EstopCap /\ silence' \in 0 .. SilenceCap
  BY HistoryStep
<1>1. CASE JoyStep
  BY <1>1, <1>h, TypesJoy DEF JoyStep
<1>2. CASE TakeSpeed
  BY <1>2, <1>h, TailKeeps
     DEF TakeSpeed, TeleopSpeed, inputVars, claimVars, TeleopTypes
<1>3. CASE TakeStatus
  <2>1. /\ Head(statusTopic) \in NodeStatuses /\ statusTopic' \in Seq(NodeStatuses)
    BY <1>3, TailKeeps DEF TakeStatus, TeleopTypes
  <2>2. Entry(Head(statusTopic), 0) \in Entries
    BY <2>1, EntriesKept
  <2>3. teleop' = [teleop EXCEPT ![Joy] = Entry(Head(statusTopic), 0)]
    BY <1>3 DEF TakeStatus, TeleopStatus
  <2>4. teleop' \in [Sources -> Entries]
    BY <2>2, <2>3 DEF TeleopTypes
  <2> QED BY <1>3, <1>h, <2>1, <2>4 DEF TakeStatus, inputVars, claimVars, TeleopTypes
<1>4. CASE DriverStep
  <2>1. /\ speedTopic' \in Seq(Commands) /\ statusTopic' \in Seq(NodeStatuses)
        /\ UNCHANGED <<mapping, inputVars, claimVars, claim>>
    BY <1>4, EmptySeq DEF DriverStep, joyVars, topicVars, TeleopTypes
  <2>2. teleop' \in [Sources -> Entries]
    BY <1>4, EntriesKept
       DEF DriverStep, SpeedMsg, DriverWatchdog, DriverDie, DriverRespawn, TeleopTypes
  <2> QED BY <1>h, <2>1, <2>2 DEF inputVars, claimVars, TeleopTypes
<1>5. CASE TeleopElapse
  <2>1. teleop' = [s \in Sources |-> [teleop[s] EXCEPT !.age = OneOlder(@, AgeCap)]]
    BY <1>5 DEF TeleopElapse, DriverTick
  <2>2. teleop' \in [Sources -> Entries]
    BY <2>1, EntriesKept DEF TeleopTypes
  <2>3. driveQuiet' \in Nat /\ cameraQuiet' \in Nat
    BY <1>5, CapsAreNat DEF TeleopElapse, JoyElapse, OneOlder, TeleopTypes
  <2> QED BY <1>5, <1>h, <2>2, <2>3 DEF TeleopElapse, JoyElapse, topicVars, TeleopTypes
<1> QED BY <1>1, <1>2, <1>3, <1>4, <1>5 DEF TeleopDriveNext

-----------------------------------------------------------------------------
\* A step of the two nodes is a step of the driver or leaves it alone.
LEMMA StepIsDriverStep ==
  ASSUME TeleopTypes, [TeleopDriveNext]_teleopDriveVars
  PROVE  [DriverNext]_driverVars
<1>1. CASE UNCHANGED teleopDriveVars
  BY <1>1 DEF teleopDriveVars
<1>2. CASE JoyStep
  BY <1>2 DEF JoyStep
<1>3. CASE TakeSpeed
  <2>1. Head(speedTopic) \in Commands /\ TeleopSpeed(Head(speedTopic))
    BY <1>3, TailKeeps DEF TakeSpeed, TeleopTypes
  <2> QED BY <2>1 DEF DriverNext
<1>4. CASE TakeStatus
  <2>1. Head(statusTopic) \in NodeStatuses /\ TeleopStatus(Joy, Head(statusTopic))
    BY <1>4, TailKeeps DEF TakeStatus, TeleopTypes
  <2>2. Joy \in Sources /\ Head(statusTopic) \in Statuses
    BY <2>1, TeleopAssumption DEF NodeStatuses
  <2> QED BY <2>1, <2>2 DEF DriverNext
<1>5. CASE DriverStep
  BY <1>5 DEF DriverStep, DriverNext
<1>6. CASE TeleopElapse
  BY <1>6 DEF TeleopElapse, DriverNext
<1> QED BY <1>1, <1>2, <1>3, <1>4, <1>5, <1>6 DEF TeleopDriveNext

\* The node's own invariants survive the composition: whatever the driver
\* takes or loses of its messages.
LEMMA NodeStep ==
  ASSUME ReleaseLeavesZero /\ ClaimInv, [TeleopDriveNext]_teleopDriveVars
  PROVE  ReleaseLeavesZero' /\ ClaimInv'
<1>1. CASE [JoyNext]_joyVars
  BY <1>1, ReleaseStep, ClaimStep
<1>2. ASSUME UNCHANGED <<up, enabled, joyAge, driving, standing, claim, dropped, timerAge>>
      PROVE  ReleaseLeavesZero' /\ ClaimInv'
  BY <1>2 DEF ReleaseLeavesZero, ClaimInv
<1>3. CASE UNCHANGED teleopDriveVars
  BY <1>1, <1>3 DEF teleopDriveVars
<1>4. CASE JoyStep
  BY <1>1, <1>4 DEF JoyStep, JoyNext
<1>5. CASE TakeSpeed \/ TakeStatus \/ DriverStep
  BY <1>2, <1>5
     DEF TakeSpeed, TakeStatus, DriverStep, joyVars, inputVars, claimVars, topicVars
<1>6. CASE TeleopElapse
  BY <1>1, <1>6 DEF TeleopElapse, JoyNext
<1> QED BY <1>3, <1>4, <1>5, <1>6 DEF TeleopDriveNext

-----------------------------------------------------------------------------
(* The claim on its way to the driver.                                      *)

\* The newest status on its way is the one that stands; when none is on its
\* way the driver holds it, or has died meanwhile and holds nothing.
ClaimArrives ==
  /\ statusTopic # << >> => Newest(statusTopic).drive = claim
  /\ statusTopic = << >> /\ teleop[Joy].drive => claim

\* Nobody but the node claims the drive, and a driver that died forgot it.
OnlyJoyClaims ==
  /\ \A s \in Sources \ {Joy} : ~teleop[s].drive
  /\ teleop[Joy].drive => alive /\ teleop[Joy].timeout = StatusTimeout

\* A dead node sends nothing more, and its last status ages with its death.
DeadNodeIsQuiet ==
  ~up /\ alive =>
    /\ timerAge > 0 => statusTopic = << >>
    /\ teleop[Joy].drive => timerAge <= teleop[Joy].age \/ teleop[Joy].age = AgeCap

ClaimPath == ClaimArrives /\ OnlyJoyClaims /\ DeadNodeIsQuiet

LEMMA PathJoy ==
  ASSUME TeleopTypes, ClaimInv, ClaimPath, JoyStep
  PROVE  ClaimPath'
<1>1. teleop' = teleop /\ alive' = alive
  BY DEF JoyStep, driverVars, driveVars, arbiterVars
<1>2. OnlyJoyClaims'
  BY <1>1 DEF ClaimPath, OnlyJoyClaims
<1>3. ASSUME UNCHANGED <<up, statusTopic, claim, timerAge>> PROVE ClaimPath'
  BY <1>1, <1>2, <1>3 DEF ClaimPath, ClaimArrives, DeadNodeIsQuiet
<1>4. ASSUME statusTopic' # << >> /\ Newest(statusTopic').drive = claim', up'
      PROVE  ClaimPath'
  BY <1>2, <1>4 DEF ClaimPath, ClaimArrives, DeadNodeIsQuiet
<1> USE DEF JoyStep, JoyCallback
<1>5. ASSUME NEW r \in Reports, OnJoy(r) PROVE ClaimPath'
  BY <1>3, <1>5 DEF OnJoy, topicVars
<1>6. CASE TickUnattended
  <2>1. statusTopic' # << >> /\ Newest(statusTopic').drive = claim'
    BY <1>6, StatusSent DEF TickUnattended, TeleopTypes
  <2> QED BY <1>4, <1>6, <2>1 DEF TickUnattended
<1>7. CASE TickAttended
  BY <1>4, <1>7, AttendedTick DEF TickAttended
<1>8. ASSUME NEW on \in BOOLEAN, SetEnabled(on) PROVE ClaimPath'
  <2>1. (on /\ driving) \in BOOLEAN /\ (on /\ aiming) \in BOOLEAN
    BY DEF TeleopTypes
  <2>2. statusTopic' # << >> /\ Newest(statusTopic').drive = claim'
    BY <1>8, <2>1, StatusSent DEF SetEnabled, TeleopTypes
  <2> QED BY <1>4, <1>8, <2>2 DEF SetEnabled
<1>9. ASSUME NEW m \in Mappings, NEW namesRate \in BOOLEAN, SetMapping(m, namesRate)
      PROVE  ClaimPath'
  BY <1>3, <1>9 DEF SetMapping, topicVars
<1>10. CASE JoyDie
  <2>1. ~up' /\ timerAge' = 0 /\ UNCHANGED <<statusTopic, claim>>
    BY <1>10 DEF JoyDie, topicVars
  <2>2. teleop[Joy].age \in Nat
    BY AgeCapIsHigh, TeleopAssumption DEF TeleopTypes, Entries
  <2> QED BY <1>1, <1>2, <2>1, <2>2 DEF ClaimPath, ClaimArrives, DeadNodeIsQuiet
<1>11. CASE JoyRespawn
  <2>1. statusTopic' # << >> /\ Newest(statusTopic').drive = claim'
    BY <1>11, StatusSent DEF JoyRespawn, TeleopTypes
  <2> QED BY <1>4, <1>11, <2>1 DEF JoyRespawn
<1> QED BY <1>5, <1>6, <1>7, <1>8, <1>9, <1>10, <1>11

LEMMA PathStep ==
  ASSUME TeleopTypes, ClaimInv, ClaimPath, [TeleopDriveNext]_teleopDriveVars
  PROVE  ClaimPath'
<1> USE DEF ClaimPath, ClaimArrives, OnlyJoyClaims, DeadNodeIsQuiet
<1>1. CASE UNCHANGED teleopDriveVars
  BY <1>1 DEF teleopDriveVars, driverVars, driveVars, arbiterVars, joyVars, topicVars
<1>2. CASE JoyStep
  BY <1>2, PathJoy
<1>3. CASE TakeSpeed
  BY <1>3 DEF TakeSpeed, TeleopSpeed, Command
<1>4. CASE TakeStatus
  <2> DEFINE st == Head(statusTopic)
  <2>1. /\ st \in NodeStatuses
        /\ statusTopic' = << >> => st = Newest(statusTopic)
        /\ statusTopic' # << >> => Newest(statusTopic') = Newest(statusTopic)
    BY <1>4, TailKeeps DEF TakeStatus, TeleopTypes
  <2>2. /\ Entry(st, 0).drive = st.drive /\ Entry(st, 0).timeout = StatusTimeout
        /\ Entry(st, 0).age = 0
    BY <2>1, EntriesKept
  <2>3. /\ alive /\ alive' = alive /\ statusTopic # << >>
        /\ teleop' = [teleop EXCEPT ![Joy] = Entry(st, 0)]
        /\ UNCHANGED <<up, claim, timerAge>>
    BY <1>4 DEF TakeStatus, TeleopStatus, driveVars
  <2> HIDE DEF st
  <2>4. /\ teleop'[Joy] = Entry(st, 0)
        /\ \A s \in Sources \ {Joy} : teleop'[s] = teleop[s]
    BY <2>3, TeleopAssumption DEF TeleopTypes
  <2>5. ~up => timerAge = 0
    BY <2>3 DEF ClaimInv, TimerCap
  <2> QED BY <2>1, <2>2, <2>3, <2>4, <2>5
<1>5. CASE DriverStep
  <2>1. CASE alive /\ alive'
    <3>1. UNCHANGED <<teleop, up, claim, timerAge, statusTopic>>
      BY <1>5, <2>1 DEF DriverStep, SpeedMsg, DriverWatchdog, DriverDie, Die,
                        DriverRespawn, Respawn, joyVars, topicVars
    <3> QED BY <2>1, <3>1
  <2>2. CASE ~(alive /\ alive')
    <3>1. statusTopic' = << >>
      BY <1>5, <2>2 DEF DriverStep
    <3>2. \/ teleop' = NoSources
          \/ ~alive /\ teleop' = teleop
      BY <1>5, <2>2 DEF DriverStep, SpeedMsg, Command, DriverWatchdog, CmdWatchdog,
                        DriverDie, DriverRespawn, Respawn
    <3>3. \A s \in Sources : ~teleop'[s].drive
      BY <3>2, EntriesKept
    <3> QED BY <3>1, <3>3, TeleopAssumption
  <2> QED BY <2>1, <2>2
<1>6. CASE TeleopElapse
  <2>1. /\ teleop' = [s \in Sources |-> [teleop[s] EXCEPT !.age = OneOlder(@, AgeCap)]]
        /\ timerAge' = OneOlder(timerAge, TimerCap)
        /\ UNCHANGED <<alive, up, claim, statusTopic>>
        /\ alive => statusTopic = << >>
    BY <1>6 DEF TeleopElapse, DriverTick, Tick, JoyElapse, topicVars
  <2>2. \A s \in Sources :
          /\ teleop[s] \in Entries
          /\ teleop'[s].drive = teleop[s].drive /\ teleop'[s].timeout = teleop[s].timeout
          /\ teleop'[s].age = IF teleop[s].age < AgeCap THEN teleop[s].age + 1 ELSE AgeCap
    BY <2>1, EntriesKept DEF TeleopTypes
  <2>3. OnlyJoyClaims' /\ ClaimArrives'
    BY <2>1, <2>2, TeleopAssumption
  <2>4. ASSUME ~up, alive, teleop[Joy].drive
        PROVE  timerAge' <= teleop'[Joy].age \/ teleop'[Joy].age = AgeCap
    <3>1. timerAge \in Nat /\ TimerCap \in Nat /\ AgeCap \in Nat
      BY AgeCapIsHigh, WindowAssumption DEF ClaimInv, TimerCap
    <3>2. timerAge <= teleop[Joy].age \/ teleop[Joy].age = AgeCap
      BY <2>4
    <3>3. /\ teleop[Joy].age \in Nat
          /\ teleop'[Joy].age = IF teleop[Joy].age < AgeCap THEN teleop[Joy].age + 1
                                ELSE AgeCap
      BY <2>2, <3>1, TeleopAssumption DEF Entries
    <3> QED BY <2>1, <3>1, <3>2, <3>3 DEF OneOlder
  <2> QED BY <2>1, <2>2, <2>3, <2>4, TeleopAssumption
<1> QED BY <1>1, <1>2, <1>3, <1>4, <1>5, <1>6 DEF TeleopDriveNext

-----------------------------------------------------------------------------
(* Silence: the last command of a controller that fell silent.              *)

SilenceIsAge == joyAge = JoyCap \/ silence = joyAge

\* What the node sends, and what the car drives on, a live controller said.
SpeedsAreLive ==
  /\ alive /\ silence > JoyTimeout => Among(speedTopic) \subseteq {0}
  /\ CmdTimeout > 0 /\ owner = "teleop" /\ Moving(target) => silence <= JoyTimeout + cmdAge

LEMMA SilenceJoy ==
  ASSUME TeleopTypes, cmdAge \in Nat, ClaimInv, SilenceIsAge, SpeedsAreLive, JoyStep
  PROVE  SilenceIsAge' /\ SpeedsAreLive'
<1>1. /\ UNCHANGED <<alive, target, owner, cmdAge>>
      /\ silence' = IF joyAge' = 0 THEN 0 ELSE silence
  BY DEF JoyStep, driverVars, driveVars, arbiterVars
<1>2. /\ JoyTimeout \in Nat /\ JoyCap \in Nat /\ JoyTimeout < JoyCap /\ JoyCap > 0
      /\ silence \in Nat
  BY WindowAssumption, CapsAreNat DEF JoyCap, TeleopTypes
<1>3. joyAge' = joyAge => silence' = silence /\ SilenceIsAge'
  BY <1>1, <1>2 DEF SilenceIsAge
<1>4. ASSUME joyAge' = joyAge, Among(speedTopic') \subseteq Among(speedTopic) \cup {0}
      PROVE  SilenceIsAge' /\ SpeedsAreLive'
  BY <1>1, <1>3, <1>4 DEF SpeedsAreLive
<1> USE DEF JoyCallback, inputVars, topicVars, SilentSpeed
<1>5. ASSUME NEW r \in Reports, OnJoy(r)
      PROVE  SilenceIsAge' /\ SpeedsAreLive'
  <2>1. joyAge' = 0 /\ silence' = 0 /\ silence' <= JoyTimeout
    BY <1>1, <1>2, <1>5 DEF OnJoy
  <2>2. ASSUME CmdTimeout > 0 /\ owner' = "teleop" /\ Moving(target')
        PROVE  silence' <= JoyTimeout + cmdAge'
    <3>1. silence <= JoyTimeout + cmdAge
      BY <1>1, <2>2 DEF SpeedsAreLive
    <3> QED BY <1>1, <1>2, <2>1, <3>1
  <2> QED BY <1>2, <2>1, <2>2 DEF SilenceIsAge, SpeedsAreLive
<1>6. CASE TickUnattended
  BY <1>4, <1>6 DEF TickUnattended
<1>7. CASE TickAttended
  <2>1. joyAge' = joyAge /\ joyAge <= JoyTimeout /\ joyAge \in Nat
    BY <1>7, <1>2 DEF TickAttended, Unattended, ClaimInv
  <2>2. silence' = silence /\ SilenceIsAge' /\ silence = joyAge
    BY <1>2, <1>3, <2>1 DEF SilenceIsAge
  <2> QED BY <1>1, <1>2, <2>1, <2>2 DEF SpeedsAreLive
<1>8. ASSUME NEW on \in BOOLEAN, SetEnabled(on)
      PROVE  SilenceIsAge' /\ SpeedsAreLive'
  BY <1>4, <1>8, SpeedSent, ReportIsCommand DEF SetEnabled, TeleopTypes
<1>9. ASSUME NEW m \in Mappings, NEW namesRate \in BOOLEAN, SetMapping(m, namesRate)
      PROVE  SilenceIsAge' /\ SpeedsAreLive'
  BY <1>4, <1>9 DEF SetMapping
<1>10. CASE JoyDie
  <2>1. joyAge' = JoyCap /\ silence' = silence /\ speedTopic' = speedTopic
    BY <1>1, <1>2, <1>10 DEF JoyDie
  <2> QED BY <1>1, <2>1 DEF SilenceIsAge, SpeedsAreLive
<1>11. CASE JoyRespawn
  BY <1>4, <1>11 DEF JoyRespawn
<1> QED BY <1>5, <1>6, <1>7, <1>8, <1>9, <1>10, <1>11 DEF JoyStep

LEMMA SilenceStep ==
  ASSUME IInv, TeleopTypes, ClaimInv, SilenceIsAge, SpeedsAreLive,
         [TeleopDriveNext]_teleopDriveVars
  PROVE  SilenceIsAge' /\ SpeedsAreLive'
<1> USE DEF SilenceIsAge, SpeedsAreLive
<1>1. CASE UNCHANGED teleopDriveVars
  BY <1>1 DEF teleopDriveVars, driverVars, driveVars, arbiterVars, joyVars, inputVars,
              topicVars
<1>2. CASE JoyStep
  <2>1. cmdAge \in Nat
    BY TimeAssumption DEF IInv, DriveTypeOK, CmdCap
  <2> QED BY <1>2, <2>1, SilenceJoy
<1>3. CASE TakeSpeed
  <2> DEFINE v == Head(speedTopic)
  <2>1. v \in Among(speedTopic) /\ Among(Tail(speedTopic)) \subseteq Among(speedTopic)
    BY <1>3, TailKeeps DEF TakeSpeed, TeleopTypes
  <2>2. /\ alive /\ alive' = alive /\ target' = ClampCommand(v) /\ cmdAge' = 0
        /\ speedTopic' = Tail(speedTopic) /\ UNCHANGED <<silence, joyAge>>
    BY <1>3 DEF TakeSpeed, TeleopSpeed, Command, SetSpeed, StampCommand, KeepHistory,
                inputVars
  <2> HIDE DEF v
  <2>3. v = 0 => ~Moving(target')
    BY <2>2, ZeroIsIdle
  <2>4. silence \in Nat /\ JoyTimeout \in Nat
    BY WindowAssumption, CapsAreNat DEF TeleopTypes
  <2>5. v # 0 => silence' <= JoyTimeout + cmdAge'
    BY <2>1, <2>2, <2>4
  <2>6. SilenceIsAge'
    BY <2>2
  <2>7. alive' /\ silence' > JoyTimeout => Among(speedTopic') \subseteq {0}
    BY <2>1, <2>2
  <2> QED BY <2>3, <2>5, <2>6, <2>7
<1>4. CASE TakeStatus
  BY <1>4 DEF TakeStatus, TeleopStatus, KeepHistory, driveVars, inputVars
<1>5. CASE DriverStep
  <2>1. UNCHANGED <<silence, joyAge>>
    BY <1>5 DEF DriverStep, KeepHistory, joyVars, inputVars
  <2>2. \/ ~alive'
        \/ alive /\ speedTopic' = speedTopic
        \/ speedTopic' = << >>
    BY <1>5 DEF DriverStep, joyVars, topicVars
  <2>3. Among(<< >>) = {}
    BY DEF Among
  <2>4. \/ owner' # "teleop"
        \/ UNCHANGED <<owner, target, cmdAge>>
    BY <1>5 DEF DriverStep, SpeedMsg, DriverWatchdog, CmdWatchdog, DriverDie,
                DriverRespawn, Respawn
  <2> QED BY <2>1, <2>2, <2>3, <2>4
<1>6. CASE TeleopElapse
  <2>1. /\ ~watchdogDue /\ cmdAge' = OneOlder(cmdAge, CmdCap)
        /\ silence' = OneOlder(silence, SilenceCap) /\ joyAge' = OneOlder(joyAge, JoyCap)
        /\ UNCHANGED <<alive, target, owner, speedTopic>>
        /\ alive => speedTopic = << >>
    BY <1>6 DEF TeleopElapse, DriverTick, Tick, JoyElapse, topicVars
  <2>2. /\ cmdAge \in 0 .. CmdCap /\ CmdCap = CmdTimeout + 1 /\ CmdTimeout \in Nat
        /\ silence \in 0 .. SilenceCap /\ joyAge \in 0 .. JoyCap
        /\ JoyTimeout \in Nat
    BY TimeAssumption, WindowAssumption
       DEF IInv, DriveTypeOK, ClaimInv, TeleopTypes, CmdCap
  <2>3. SilenceIsAge'
    BY <2>1, <2>2, CapsAreNat DEF OneOlder
  <2>4. alive' => Among(speedTopic') = {}
    BY <2>1 DEF Among
  <2>5. ASSUME CmdTimeout > 0, owner = "teleop", Moving(target)
        PROVE  silence' <= JoyTimeout + cmdAge'
    <3>1. cmdAge <= CmdTimeout
      BY <2>1, <2>5 DEF IInv, CommandsExpire
    <3>2. cmdAge' = cmdAge + 1 /\ silence' <= silence + 1 /\ silence' \in Nat
      BY <2>1, <2>2, <3>1, CapsAreNat DEF OneOlder
    <3>3. silence <= JoyTimeout + cmdAge
      BY <2>5
    <3> QED BY <2>2, <3>2, <3>3
  <2> QED BY <2>1, <2>3, <2>4, <2>5
<1> QED BY <1>1, <1>2, <1>3, <1>4, <1>5, <1>6 DEF TeleopDriveNext

-----------------------------------------------------------------------------
(* The e-stop, held without an engage button.  One tick of the node's timer *)
(* claims the drive; the next one finds the claim at the driver, and its    *)
(* zero is the last command the driver takes.                               *)

Alone == ~mapping.deadman

HoldSendsZero ==
  estopFor > 0 => EstopHeld /\ Among(speedTopic) \subseteq {0}

\* The timer has fired since the e-stop was pressed.
HoldIsSent ==
  Alone /\ estopFor > timerAge =>
    /\ driving /\ claim
    /\ statusTopic = << >> => teleop[Joy].drive /\ teleop[Joy].age <= timerAge

\* A period later its claim is at the driver, and stays there.
HoldClaims ==
  Alone /\ estopFor > mapping.period =>
    /\ teleop[Joy].drive /\ teleop[Joy].age <= mapping.period
    /\ \A st \in Among(statusTopic) : st.drive

\* The first zero sent after that stops the car, and nothing moves it again.
HoldStops ==
  /\ Alone /\ estopFor > mapping.period + timerAge /\ speedTopic = << >> =>
       ~Moving(target)
  /\ Alone /\ estopFor > 2 * mapping.period => ~Moving(target)

HoldInv == HoldSendsZero /\ HoldIsSent /\ HoldClaims /\ HoldStops

LEMMA HoldNumbers ==
  ASSUME TeleopTypes, ClaimInv
  PROVE  /\ mapping.period \in Nat \ {0} /\ timerAge \in Nat /\ estopFor \in Nat
         /\ EstopHeld => /\ timerAge <= mapping.period /\ mapping.period <= StatusTimeout
                         /\ estop /\ enabled /\ alive /\ up /\ ~Unattended
         /\ TimerCap = StatusTimeout + 2 /\ StatusTimeout \in Nat
<1>1. TimerCap = StatusTimeout + 2 /\ StatusTimeout \in Nat
  BY WindowAssumption DEF TimerCap
<1>2. timerAge \in Nat /\ estopFor \in Nat
  BY <1>1, CapsAreNat DEF TeleopTypes, ClaimInv
<1>3. mapping.period \in Nat \ {0} /\ joyAge \in Nat /\ JoyTimeout \in Nat
  BY ReportIsCommand, CapsAreNat, WindowAssumption DEF TeleopTypes, ClaimInv
<1>4. EstopHeld => /\ timerAge <= mapping.period /\ mapping.period <= StatusTimeout
                   /\ estop /\ enabled /\ alive /\ up /\ ~Unattended
  BY <1>3 DEF EstopHeld, TimerOnTime, Unattended
<1> QED BY <1>1, <1>2, <1>3, <1>4

LEMMA HoldJoy ==
  ASSUME TeleopTypes, ClaimInv, HoldInv, JoyStep, estopFor' > 0
  PROVE  HoldInv'
<1>1. /\ EstopHeld' /\ mapping' = mapping /\ estopFor' = estopFor
      /\ UNCHANGED <<teleop, target>>
  BY DEF JoyStep, driverVars, driveVars, arbiterVars
<1>2. /\ EstopHeld /\ Among(speedTopic) \subseteq {0}
  BY <1>1 DEF HoldInv, HoldSendsZero
<1>3. /\ mapping.period \in Nat \ {0} /\ timerAge \in Nat /\ estopFor \in Nat
      /\ timerAge <= mapping.period /\ estop /\ enabled /\ up /\ ~Unattended
  BY <1>2, HoldNumbers
<1>4. ASSUME UNCHANGED <<driving, claim, statusTopic, speedTopic, timerAge>>
      PROVE  HoldInv'
  BY <1>1, <1>4
     DEF HoldInv, HoldSendsZero, HoldIsSent, HoldClaims, HoldStops, Alone
<1> USE DEF JoyCallback, inputVars, claimVars, topicVars
<1>5. ASSUME NEW r \in Reports, OnJoy(r) PROVE HoldInv'
  BY <1>4, <1>5 DEF OnJoy
<1>6. CASE TickUnattended
  BY <1>3, <1>6 DEF TickUnattended
<1>7. CASE TickAttended
  <2>1. /\ claim' = driving' /\ statusTopic' # << >>
        /\ \A st \in Among(statusTopic') : st \in Among(statusTopic) \/ st.drive = driving'
        /\ \A v \in Among(speedTopic') : v \in Among(speedTopic) \/ ~estop \/ v = 0
        /\ driving' /\ estop => speedTopic' # << >>
        /\ estop /\ ~mapping.deadman => driving'
    BY <1>7, AttendedTick
  <2>2. timerAge' = 0
    BY <1>7 DEF TickAttended, TimerFires
  <2>3. HoldSendsZero'
    BY <1>1, <1>2, <1>3, <2>1 DEF HoldSendsZero
  <2>4. HoldIsSent'
    BY <1>1, <1>3, <2>1 DEF HoldIsSent, Alone
  <2>5. HoldClaims'
    BY <1>1, <1>3, <2>1 DEF HoldInv, HoldClaims, Alone
  <2>6. HoldStops'
    BY <1>1, <1>3, <2>1 DEF HoldInv, HoldStops, Alone
  <2> QED BY <2>3, <2>4, <2>5, <2>6 DEF HoldInv
<1>8. ASSUME NEW on \in BOOLEAN, SetEnabled(on) PROVE HoldInv'
  <2>1. on /\ UNCHANGED <<speedTopic, driving, timerAge>>
    BY <1>1, <1>3, <1>8 DEF SetEnabled, SilentSpeed, EstopHeld
  <2>2. /\ (on /\ driving) \in BOOLEAN /\ (on /\ aiming) \in BOOLEAN /\ estop \in BOOLEAN
        /\ (on /\ driving) = driving
    BY <2>1 DEF TeleopTypes
  <2>3. PublishStatus(on /\ driving, on /\ aiming, estop)
    BY <1>8 DEF SetEnabled
  <2>4. /\ claim' = driving /\ statusTopic' # << >>
        /\ \A st \in Among(statusTopic') : st \in Among(statusTopic) \/ st.drive = driving
    BY <2>2, <2>3, StatusSent DEF TeleopTypes
  <2>5. HoldSendsZero' /\ HoldStops'
    BY <1>1, <1>2, <2>1 DEF HoldInv, HoldSendsZero, HoldStops, Alone
  <2>6. HoldIsSent'
    BY <1>1, <2>1, <2>4 DEF HoldInv, HoldIsSent, Alone
  <2>7. Alone /\ estopFor > mapping.period => driving
    BY <1>3 DEF HoldInv, HoldIsSent
  <2>8. HoldClaims'
    BY <1>1, <2>1, <2>4, <2>7 DEF HoldInv, HoldClaims, Alone
  <2> QED BY <2>5, <2>6, <2>8 DEF HoldInv
<1>9. ASSUME NEW m \in Mappings, NEW namesRate \in BOOLEAN, SetMapping(m, namesRate)
      PROVE  HoldInv'
  BY <1>4, <1>9 DEF SetMapping
<1>10. CASE JoyDie \/ JoyRespawn
  BY <1>1, <1>3, <1>10 DEF JoyDie, JoyRespawn, EstopHeld, TimerOnTime
<1> QED BY <1>5, <1>6, <1>7, <1>8, <1>9, <1>10 DEF JoyStep

\* The driver takes a message of a node that holds the e-stop.
LEMMA HoldTake ==
  ASSUME TeleopTypes, ClaimInv, ClaimPath, HoldInv, TakeSpeed \/ TakeStatus, estopFor' > 0
  PROVE  HoldInv'
<1>1. EstopHeld' /\ estopFor' = estopFor /\ UNCHANGED <<mapping, driving, claim, timerAge>>
  BY DEF TakeSpeed, TakeStatus, KeepHistory, claimVars
<1>2. EstopHeld /\ Among(speedTopic) \subseteq {0}
  BY <1>1 DEF HoldInv, HoldSendsZero
<1>3. /\ mapping.period \in Nat \ {0} /\ timerAge \in Nat /\ estopFor \in Nat
      /\ timerAge <= mapping.period
  BY <1>2, HoldNumbers
<1>4. CASE TakeSpeed
  <2>1. Head(speedTopic) = 0 /\ Among(speedTopic') \subseteq {0}
    BY <1>2, <1>4, TailKeeps DEF TakeSpeed, TeleopTypes
  <2>2. target' = ClampCommand(Head(speedTopic)) /\ UNCHANGED <<teleop, statusTopic>>
    BY <1>4 DEF TakeSpeed, TeleopSpeed, Command, SetSpeed
  <2>3. ~Moving(target')
    BY <2>1, <2>2, ZeroIsIdle
  <2>4. HoldSendsZero' /\ HoldStops'
    BY <1>1, <2>1, <2>3 DEF HoldSendsZero, HoldStops
  <2> QED BY <1>1, <2>2, <2>4 DEF HoldInv, HoldIsSent, HoldClaims, Alone
<1>5. CASE TakeStatus
  <2> DEFINE st == Head(statusTopic)
  <2>1. /\ st \in NodeStatuses /\ st \in Among(statusTopic)
        /\ statusTopic' = << >> => st = Newest(statusTopic)
        /\ Among(statusTopic') \subseteq Among(statusTopic)
    BY <1>5, TailKeeps DEF TakeStatus, TeleopTypes
  <2>2. Entry(st, 0).drive = st.drive /\ Entry(st, 0).age = 0
    BY <2>1, EntriesKept
  <2>3. /\ statusTopic # << >> /\ UNCHANGED <<speedTopic, target>>
        /\ teleop' = [teleop EXCEPT ![Joy] = Entry(st, 0)]
    BY <1>5 DEF TakeStatus, TeleopStatus, driveVars
  <2> HIDE DEF st
  <2>4. teleop'[Joy].drive = st.drive /\ teleop'[Joy].age = 0
    BY <2>2, <2>3, TeleopAssumption DEF TeleopTypes
  <2>5. HoldSendsZero' /\ HoldStops'
    BY <1>1, <2>3 DEF HoldInv, HoldSendsZero, HoldStops, Alone
  <2>6. statusTopic' = << >> => st.drive = claim
    BY <2>1, <2>3 DEF ClaimPath, ClaimArrives
  <2>7. HoldIsSent'
    BY <1>1, <1>3, <2>4, <2>6 DEF HoldInv, HoldIsSent, Alone
  <2>8. HoldClaims'
    BY <1>1, <1>3, <2>1, <2>4 DEF HoldInv, HoldClaims, Alone
  <2> QED BY <2>5, <2>7, <2>8 DEF HoldInv
<1> QED BY <1>4, <1>5

\* Nothing else the driver does moves a car whose drive is claimed.
LEMMA HoldDriver ==
  ASSUME IInv, TeleopTypes, ClaimInv, ClaimPath, HoldInv, DriverStep, estopFor' > 0
  PROVE  HoldInv'
<1>1. EstopHeld' /\ estopFor' = estopFor
  BY DEF DriverStep, KeepHistory
<1>2. EstopHeld
  BY <1>1 DEF HoldInv, HoldSendsZero
<1>3. /\ mapping.period \in Nat \ {0} /\ timerAge \in Nat /\ estopFor \in Nat
      /\ mapping.period <= StatusTimeout
  BY <1>2, HoldNumbers
<1>4. alive /\ alive'
  BY <1>1, <1>2 DEF EstopHeld
<1>5. UNCHANGED <<mapping, driving, claim, timerAge, statusTopic, speedTopic>>
  BY <1>4 DEF DriverStep, joyVars, claimVars, topicVars
<1>6. /\ teleop' = teleop
      /\ target' = target \/ ~Moving(target') \/ ~DriveEngaged
  BY <1>4, ZeroIsIdle
     DEF DriverStep, SpeedMsg, AutonomyMayDrive, DriverWatchdog, CmdWatchdog, SetSpeed,
         DriverDie, Die, DriverRespawn, Respawn
<1>7. estopFor > mapping.period /\ Alone => DriveEngaged
  <2>1. SUFFICES ASSUME estopFor > mapping.period, Alone
                 PROVE  Fresh(teleop[Joy]) /\ teleop[Joy].drive
    BY TeleopAssumption DEF DriveEngaged
  <2>2. /\ teleop[Joy].drive /\ teleop[Joy].age <= mapping.period
        /\ teleop[Joy].timeout = StatusTimeout /\ teleop[Joy].age \in 0 .. AgeCap
    BY <2>1, TeleopAssumption
       DEF HoldInv, HoldClaims, ClaimPath, OnlyJoyClaims, TeleopTypes, Entries
  <2> QED BY <1>3, <2>2, AgeCapIsHigh, WindowAssumption DEF Fresh
<1>8. HoldStops'
  <2>1. Alone /\ estopFor > mapping.period => target' = target \/ ~Moving(target')
    BY <1>6, <1>7
  <2>2. estopFor > 2 * mapping.period => estopFor > mapping.period
    BY <1>3
  <2>3. estopFor > mapping.period + timerAge => estopFor > mapping.period
    BY <1>3
  <2> QED BY <1>1, <1>5, <2>1, <2>2, <2>3 DEF HoldInv, HoldStops, Alone
<1> QED BY <1>1, <1>2, <1>5, <1>6, <1>8
        DEF HoldInv, HoldSendsZero, HoldIsSent, HoldClaims, Alone

\* A tick of time: what was sent has arrived.
LEMMA HoldElapse ==
  ASSUME TeleopTypes, ClaimInv, ClaimInv', ClaimPath, HoldInv, TeleopElapse, estopFor' > 0
  PROVE  HoldInv'
<1>1. /\ EstopHeld' /\ estopFor' = OneOlder(estopFor, EstopCap)
      /\ UNCHANGED <<mapping, driving, claim, statusTopic, speedTopic, target, alive>>
      /\ timerAge' = OneOlder(timerAge, TimerCap)
      /\ alive => speedTopic = << >> /\ statusTopic = << >>
      /\ teleop' = [s \in Sources |-> [teleop[s] EXCEPT !.age = OneOlder(@, AgeCap)]]
  BY DEF TeleopElapse, DriverTick, Tick, JoyElapse, claimVars, topicVars
<1>2. speedTopic = << >> /\ statusTopic = << >>
  BY <1>1 DEF EstopHeld
<1>3. /\ mapping.period \in Nat \ {0} /\ timerAge \in Nat /\ estopFor \in 0 .. EstopCap
      /\ EstopCap = 2 * StatusTimeout + 1 /\ StatusTimeout \in Nat
      /\ TimerCap = StatusTimeout + 2
  BY HoldNumbers DEF TeleopTypes, EstopCap
<1>4. timerAge' <= mapping.period /\ mapping.period <= StatusTimeout
  BY <1>1 DEF EstopHeld, TimerOnTime
<1>5. timerAge' = timerAge + 1
  BY <1>1, <1>3, <1>4 DEF OneOlder
<1>6. estopFor' = estopFor + 1 \/ (estopFor' = estopFor /\ estopFor = EstopCap)
  <2>1. estopFor' = OneOlder(estopFor, EstopCap)
    BY <1>1
  <2> QED BY <1>3, <2>1 DEF OneOlder
<1>7. Among(speedTopic') = {} /\ Among(statusTopic') = {}
  BY <1>1, <1>2 DEF Among
<1>8. ASSUME Alone, estopFor > timerAge
      PROVE  driving /\ claim /\ teleop'[Joy].drive /\ teleop'[Joy].age <= timerAge'
  <2>1. driving /\ claim /\ teleop[Joy].drive /\ teleop[Joy].age <= timerAge
    BY <1>2, <1>8 DEF HoldInv, HoldIsSent
  <2>2. /\ teleop[Joy] \in Entries /\ teleop[Joy].age \in 0 .. AgeCap /\ AgeCap \in Nat
        /\ teleop'[Joy] = [teleop[Joy] EXCEPT !.age = OneOlder(@, AgeCap)]
    BY <1>1, TeleopAssumption, AgeCapIsHigh DEF TeleopTypes, Entries
  <2>3. /\ teleop'[Joy].drive = teleop[Joy].drive
        /\ teleop'[Joy].age = IF teleop[Joy].age < AgeCap THEN teleop[Joy].age + 1 ELSE AgeCap
    BY <2>2, EntriesKept
  <2> QED BY <1>3, <1>5, <2>1, <2>2, <2>3
<1>9. HoldSendsZero'
  BY <1>1, <1>7 DEF HoldSendsZero
<1>10. HoldIsSent'
  BY <1>1, <1>3, <1>4, <1>5, <1>6, <1>8 DEF HoldIsSent, Alone
<1>11. HoldClaims'
  <2>1. estopFor' > mapping.period => estopFor > timerAge
    BY <1>3, <1>4, <1>5, <1>6
  <2>2. /\ teleop'[Joy].age <= timerAge' => teleop'[Joy].age <= mapping.period
    <3>1. teleop'[Joy].age \in Int
      <4>1. teleop'[Joy] = [teleop[Joy] EXCEPT !.age = OneOlder(@, AgeCap)]
        BY <1>1, TeleopAssumption
      <4>2. teleop'[Joy] \in Entries
        BY <4>1, EntriesKept, TeleopAssumption DEF TeleopTypes
      <4> QED BY <4>2, AgeCapIsHigh DEF Entries
    <3> QED BY <1>3, <1>4, <1>5, <3>1
  <2> QED BY <1>1, <1>7, <1>8, <2>1, <2>2 DEF HoldClaims, Alone
<1>12. HoldStops'
  <2>1. estopFor' > mapping.period + timerAge' => estopFor > mapping.period + timerAge
    BY <1>3, <1>4, <1>5, <1>6
  <2>2. estopFor' > 2 * mapping.period => estopFor > mapping.period + timerAge
    BY <1>3, <1>4, <1>5, <1>6
  <2> QED BY <1>1, <1>2, <2>1, <2>2 DEF HoldInv, HoldStops, Alone
<1> QED BY <1>9, <1>10, <1>11, <1>12 DEF HoldInv

LEMMA HoldStep ==
  ASSUME IInv, TeleopTypes, TeleopTypes', ClaimInv, ClaimInv', ClaimPath, HoldInv,
         [TeleopDriveNext]_teleopDriveVars
  PROVE  HoldInv'
<1>1. CASE UNCHANGED teleopDriveVars
  <2>1. /\ UNCHANGED <<estopFor, alive, teleop, target>> /\ UNCHANGED joyVars
    BY <1>1 DEF teleopDriveVars, driverVars, driveVars, arbiterVars
  <2> QED BY <2>1 DEF joyVars, inputVars, claimVars, topicVars, HoldInv, HoldSendsZero,
             HoldIsSent, HoldClaims, HoldStops, Alone, EstopHeld, TimerOnTime
<1>2. CASE estopFor' = 0
  <2>1. mapping'.period \in Nat
    <3>1. mapping' \in Mappings
      BY DEF TeleopTypes
    <3> QED BY <3>1, ReportIsCommand
  <2>2. timerAge' \in Nat
    BY WindowAssumption DEF ClaimInv, TimerCap
  <2> QED BY <1>2, <2>1, <2>2 DEF HoldInv, HoldSendsZero, HoldIsSent, HoldClaims, HoldStops
<1>3. CASE TeleopDriveNext /\ estopFor' # 0
  <2>1. estopFor' > 0
    BY <1>3, CapsAreNat DEF TeleopTypes
  <2> QED BY <1>3, <2>1, HoldJoy, HoldTake, HoldDriver, HoldElapse DEF TeleopDriveNext
<1> QED BY <1>1, <1>2, <1>3

-----------------------------------------------------------------------------
TeleopInv ==
  /\ IInv /\ TeleopTypes /\ ReleaseLeavesZero /\ ClaimInv /\ ClaimPath
  /\ SilenceIsAge /\ SpeedsAreLive /\ HoldInv

LEMMA TeleopInvInit == TeleopDriveInit => TeleopInv
<1> SUFFICES ASSUME TeleopDriveInit PROVE TeleopInv
  OBVIOUS
<1> USE DEF TeleopDriveInit, DriverInit, JoyInit, FreshNode
<1>1. IInv
  BY InitInv
<1>2. estopFor = 0 /\ silence = SilenceCap /\ speedTopic = << >> /\ statusTopic = << >>
  OBVIOUS
<1>3. TeleopTypes
  <2>1. teleop \in [Sources -> Entries]
    BY EntriesKept
  <2>2. speedTopic \in Seq(Commands) /\ statusTopic \in Seq(NodeStatuses)
    BY <1>2
  <2>3. /\ driving = FALSE /\ aiming = FALSE /\ estop = FALSE /\ claim = FALSE
        /\ mapping = BootMapping /\ report = NoReport
        /\ driveQuiet = QuietCap /\ cameraQuiet = QuietCap
    OBVIOUS
  <2>4. /\ estopFor \in 0 .. EstopCap /\ silence \in 0 .. SilenceCap
        /\ driveQuiet \in Nat /\ cameraQuiet \in Nat
    BY <1>2, <2>3, CapsAreNat
  <2> HIDE DEF TeleopDriveInit
  <2> QED BY <2>1, <2>2, <2>3, <2>4, MappingAssumption DEF TeleopTypes
<1>4. ReleaseLeavesZero /\ ClaimInv
  BY WindowAssumption DEF ReleaseLeavesZero, ClaimInv, JoyCap, TimerCap
<1>5. ClaimPath
  <2>1. \A s \in Sources : ~teleop[s].drive
    BY EntriesKept
  <2> QED BY <1>2, <2>1, TeleopAssumption
             DEF ClaimPath, ClaimArrives, OnlyJoyClaims, DeadNodeIsQuiet
<1>6. SilenceIsAge
  BY DEF SilenceIsAge
<1>7. SpeedsAreLive
  BY <1>2 DEF SpeedsAreLive, Among
<1>8. HoldInv
  <2>1. mapping.period \in Nat /\ timerAge = 0
    BY <1>3, ReportIsCommand DEF TeleopTypes
  <2> QED BY <1>2, <2>1 DEF HoldInv, HoldSendsZero, HoldIsSent, HoldClaims, HoldStops
<1> QED BY <1>1, <1>3, <1>4, <1>5, <1>6, <1>7, <1>8 DEF TeleopInv

LEMMA TeleopInvStep ==
  ASSUME TeleopInv, [TeleopDriveNext]_teleopDriveVars
  PROVE  TeleopInv'
<1> USE DEF TeleopInv
<1>1. TeleopTypes'
  BY TypesStep
<1>2. IInv'
  BY StepIsDriverStep, DriverStepIsDriveStep, NextInv
<1>3. ReleaseLeavesZero' /\ ClaimInv'
  BY NodeStep
<1>4. ClaimPath'
  BY PathStep
<1>5. SilenceIsAge' /\ SpeedsAreLive'
  BY SilenceStep
<1>6. HoldInv'
  BY <1>1, <1>3, HoldStep
<1> QED BY <1>1, <1>2, <1>3, <1>4, <1>5, <1>6

LEMMA TeleopSpecInv == TeleopDriveSpec => []TeleopInv
  BY TeleopInvInit, TeleopInvStep, PTL DEF TeleopDriveSpec

\* The joystick node and the two topics are one of the environments that the driver's
\* callbacks allow for: what the driver node guarantees, it guarantees here.
THEOREM TeleopImplementsDriver == TeleopDriveSpec => DriverSpec
<1>1. TeleopDriveInit => DriverInit
  BY DEF TeleopDriveInit
<1>2. TeleopInv /\ [TeleopDriveNext]_teleopDriveVars => [DriverNext]_driverVars
  BY StepIsDriverStep DEF TeleopInv
<1> QED BY <1>1, <1>2, TeleopSpecInv, PTL DEF TeleopDriveSpec, DriverSpec

\* From the stick, through the stale-joy guard of tick and /teleop/speed, to the command
\* window and the watchdog; and from the e-stop through the claim to the lock of the
\* driver: for every mapping, rate, window and time-out.
THEOREM OperatorAlwaysStopsCar == TeleopDriveSpec => []OperatorStopsCar
<1>1. TeleopInv => DropoutStopsCar
  <2>1. SUFFICES ASSUME TeleopInv, CmdTimeout > 0, silence > JoyTimeout + CmdTimeout + 1,
                        owner = "teleop", Moving(target)
                 PROVE  FALSE
    BY DEF DropoutStopsCar
  <2>2. silence <= JoyTimeout + cmdAge
    BY <2>1 DEF TeleopInv, SpeedsAreLive
  <2>3. /\ cmdAge \in 0 .. CmdTimeout + 1 /\ CmdTimeout \in Nat /\ JoyTimeout \in Nat
        /\ silence \in Nat
    BY <2>1, TimeAssumption, WindowAssumption, CapsAreNat
       DEF TeleopInv, IInv, DriveTypeOK, CmdCap, TeleopTypes
  <2> QED BY <2>1, <2>2, <2>3
<1>2. TeleopInv => EstopAloneHoldsZero
  BY DEF TeleopInv, HoldInv, HoldStops, EstopAloneHoldsZero, HeldLong, Alone
<1> QED BY <1>1, <1>2, TeleopSpecInv, PTL DEF OperatorStopsCar

\* The driver believes a claim only while the node that made it lives and hears its
\* controller, up to the stale-joy guard, a period of the timer and the time-out of a
\* status (tick, publish_status, drive_engaged).
THEOREM ClaimsAlwaysLive == TeleopDriveSpec => []ClaimsAreLive
<1>1. TeleopInv => ClaimNeedsLiveController
  BY DEF TeleopInv, ClaimInv, ClaimNeedsLiveController
<1>2. TeleopInv => (DriveEngaged => teleop[Joy].drive /\ alive /\ Fresh(teleop[Joy]))
  BY DEF TeleopInv, ClaimPath, OnlyJoyClaims, DriveEngaged
<1>3. TeleopInv => DropoutFreesCar
  <2>1. SUFFICES ASSUME TeleopInv, silence > JoyTimeout + mapping.period, TimerOnTime,
                        statusTopic = << >>, teleop[Joy].drive
                 PROVE  FALSE
    BY <1>2 DEF DropoutFreesCar
  <2>2. driving /\ up /\ joyAge <= JoyTimeout + timerAge
    BY <2>1 DEF TeleopInv, ClaimPath, ClaimArrives, ClaimInv, TimerOnTime
  <2>3. /\ timerAge <= mapping.period /\ mapping.period <= StatusTimeout
        /\ joyAge = JoyCap \/ silence = joyAge
    BY <2>1 DEF TeleopInv, TimerOnTime, SilenceIsAge
  <2>4. /\ mapping.period \in Nat /\ timerAge \in Nat /\ silence \in Nat
        /\ joyAge \in Nat
    BY <2>1, HoldNumbers, CapsAreNat DEF TeleopInv, TeleopTypes, ClaimInv
  <2>5. JoyCap = JoyTimeout + StatusTimeout + 1 /\ {JoyTimeout, StatusTimeout} \subseteq Nat
    BY WindowAssumption DEF JoyCap
  <2>6. silence > JoyTimeout + mapping.period
    BY <2>1
  <2> QED BY ONLY <2>2, <2>3, <2>4, <2>5, <2>6
<1>4. TeleopInv => DeadNodeFreesCar
  <2>1. SUFFICES ASSUME TeleopInv, ~up, timerAge > StatusTimeout, DriveEngaged
                 PROVE  FALSE
    BY DEF DeadNodeFreesCar
  <2>2. /\ teleop[Joy].drive /\ alive /\ teleop[Joy].age <= teleop[Joy].timeout
        /\ teleop[Joy].timeout = StatusTimeout
    BY <1>2, <2>1 DEF TeleopInv, ClaimPath, OnlyJoyClaims, Fresh
  <2>3. timerAge <= teleop[Joy].age \/ teleop[Joy].age = AgeCap
    BY <2>1, <2>2 DEF TeleopInv, ClaimPath, DeadNodeIsQuiet
  <2>4. teleop[Joy].age \in Nat /\ timerAge \in Nat
    BY <2>1, HoldNumbers, AgeCapIsHigh, TeleopAssumption DEF TeleopInv, TeleopTypes, Entries
  <2> QED BY <2>1, <2>2, <2>3, <2>4, AgeCapIsHigh, WindowAssumption
<1> QED BY <1>1, <1>3, <1>4, TeleopSpecInv, PTL DEF ClaimsAreLive, SilenceFreesCar
=============================================================================

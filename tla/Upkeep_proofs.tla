---------------------------- MODULE Upkeep_proofs ----------------------------
(***************************************************************************)
(* What keeps the car running between launches.                            *)
(*                                                                         *)
(* The watchdog: no watched process survives a backward jump of simulation *)
(* time, for every set of topics and targets and every choice of the       *)
(* periods whose jitter guard is at most the launch file's respawn delay.  *)
(*                                                                         *)
(* The odometry: OdometryIsTravel for every set of places, every reach of  *)
(* a match and every depth of the queues.                                  *)
(*                                                                         *)
(* The updater: what a boot launches, for any number of releases and of    *)
(* crashes, and that nothing moves under the running nodes.                *)
(***************************************************************************)
EXTENDS TopicWatchdog, Odometry, Updater, TLAPS

(* The watchdog.                                                           *)

\* What the invariants below are about.
WatchdogTypes ==
  /\ dogUp \in BOOLEAN
  /\ prev \in Nat /\ sim \in Nat
  /\ killAge \in [Targets -> Nat]
  /\ downAge \in [Targets -> Nat]
  /\ up \subseteq Targets /\ stranded \subseteq up

\* A running process without SIGTERM is past the guard; one that is gone will be
\* when it comes back.
PastGuard ==
  \A g \in Targets :
    /\ g \in up \ signalled => killAge[g] >= JumpGuard
    /\ g \notin up => killAge[g] >= downAge[g] \/ killAge[g] >= JumpGuard

\* What is spared so far awaits the watchdog's next look at the clock.
SparedAwaitClock ==
  /\ ~dogUp => stranded = {}
  /\ dogUp => stranded \subseteq signalled \/ JumpedBack

WatchdogInv == WatchdogTypes /\ PastGuard /\ SparedAwaitClock

LEMMA WatchdogInvInit == WatchdogInit => WatchdogInv
  BY WatchdogAssumption
  DEF WatchdogInit, WatchdogInv, WatchdogTypes, PastGuard, SparedAwaitClock

LEMMA WatchdogInvNext == WatchdogInv /\ [WatchdogNext]_watchdogVars => WatchdogInv'
<1> SUFFICES ASSUME WatchdogInv, [WatchdogNext]_watchdogVars PROVE WatchdogInv'
  OBVIOUS
<1> USE WatchdogAssumption DEF WatchdogInv, WatchdogTypes
<1>1. ASSUME NEW t \in Topics, Message(t) PROVE WatchdogInv'
  BY <1>1 DEF Message, processVars, PastGuard, SparedAwaitClock, JumpedBack
<1>2. CASE OnClockJump
  <2> DEFINE killed == Killed({g \in Targets : JumpKills(g)})
  <2>1. killAge' = Stamped(killed) /\ signalled' = signalled \cup killed /\ prev' = sim
        /\ UNCHANGED <<dogUp, sim, up, downAge, stranded>>
    BY <1>2 DEF OnClockJump
  <2>2. up \subseteq signalled'
    BY <2>1 DEF Killed, JumpKills, PastGuard
  <2>3. killAge' \in [Targets -> Nat]
    BY <2>1 DEF Stamped
  <2>4. \A g \in Targets : g \notin up => killAge'[g] = killAge[g]
    BY <2>1 DEF Stamped, Killed
  <2> QED BY <2>1, <2>2, <2>3, <2>4 DEF PastGuard, SparedAwaitClock
<1>3. CASE OnClock
  BY <1>3 DEF OnClock, processVars, PastGuard, SparedAwaitClock, JumpedBack
<1>4. CASE Check
  <2> DEFINE killed == Killed(Overdue)
  <2>1. CASE GraceOver
    <3>1. killAge' = Stamped(killed) /\ signalled' = signalled \cup killed
          /\ UNCHANGED <<dogUp, prev, sim, up, downAge, stranded>>
      BY <1>4, <2>1 DEF Check, KillTable
    <3>2. killAge' \in [Targets -> Nat]
      BY <3>1 DEF Stamped
    <3>3. \A g \in Targets : g \notin signalled' \/ g \notin up => killAge'[g] = killAge[g]
      BY <3>1 DEF Stamped, Killed
    <3> QED BY <3>1, <3>2, <3>3 DEF PastGuard, SparedAwaitClock, JumpedBack
  <2>2. CASE ~GraceOver
    BY <1>4, <2>2 DEF Check, PastGuard, SparedAwaitClock, JumpedBack
  <2> QED BY <2>1, <2>2
<1>5. CASE DogDies
  BY <1>5 DEF DogDies, processVars, PastGuard, SparedAwaitClock
<1>6. CASE DogRespawns
  BY <1>6 DEF DogRespawns, Constructed, processVars, PastGuard, SparedAwaitClock
<1>7. ASSUME NEW g \in Targets, Exit(g) PROVE WatchdogInv'
  BY <1>7 DEF Exit, dogVars, PastGuard, SparedAwaitClock, JumpedBack
<1>8. ASSUME NEW g \in Targets, RespawnTarget(g) PROVE WatchdogInv'
  BY <1>8 DEF RespawnTarget, dogVars, PastGuard, SparedAwaitClock, JumpedBack
<1>9. CASE WorldStarts
  BY <1>9 DEF WorldStarts, dogVars, processVars, PastGuard, SparedAwaitClock, JumpedBack
<1>10. CASE WatchdogTick
  <2>1. /\ UNCHANGED <<dogUp, prev, up, signalled, stranded>>
        /\ killAge' = [g \in Targets |-> OneOlder(killAge[g], Cooldown)]
        /\ downAge' = [g \in Targets |-> OneOlder(downAge[g], RespawnDelay)]
        /\ sim' \in {sim, OneOlder(sim, MaxSim)}
        /\ dogUp => prev = sim
    BY <1>10 DEF WatchdogTick
  <2>2. WatchdogTypes'
    BY <2>1 DEF OneOlder
  <2>3. ASSUME NEW g \in Targets
        PROVE  /\ killAge'[g] >= killAge[g] \/ killAge'[g] >= JumpGuard
               /\ killAge'[g] >= downAge'[g] \/ killAge[g] < downAge[g] \/ killAge'[g] >= JumpGuard
    BY <2>1 DEF OneOlder
  <2>4. PastGuard'
    BY <2>1, <2>2, <2>3 DEF PastGuard
  <2>5. SparedAwaitClock'
    BY <2>1 DEF SparedAwaitClock, JumpedBack
  <2> QED BY <2>2, <2>4, <2>5
<1>11. CASE UNCHANGED watchdogVars
  BY <1>11 DEF watchdogVars, dogVars, processVars, PastGuard, SparedAwaitClock, JumpedBack
<1> QED
  BY <1>1, <1>2, <1>3, <1>4, <1>5, <1>6, <1>7, <1>8, <1>9, <1>10, <1>11 DEF WatchdogNext

(* Once the watchdog has seen the clock, every running process that is     *)
(* older than a jump it could see has been sent SIGTERM (on_clock).        *)
THEOREM JumpNeverSparesAnyone == WatchdogSpec => []JumpSparesNobody
<1>1. WatchdogInv => JumpSparesNobody
  BY DEF WatchdogInv, WatchdogTypes, SparedAwaitClock, JumpedBack, JumpSparesNobody
<1> QED BY <1>1, WatchdogInvInit, WatchdogInvNext, PTL DEF WatchdogSpec

-----------------------------------------------------------------------------
LEMMA WatchdogTypeInit == WatchdogInit => WatchdogTypeOK
  BY WatchdogAssumption DEF WatchdogInit, WatchdogTypeOK, Spacing

LEMMA WatchdogTypeNext == WatchdogTypeOK /\ [WatchdogNext]_watchdogVars => WatchdogTypeOK'
<1> SUFFICES ASSUME WatchdogTypeOK, [WatchdogNext]_watchdogVars PROVE WatchdogTypeOK'
  OBVIOUS
<1> USE WatchdogAssumption DEF WatchdogTypeOK, dogVars, processVars
<1>1. ASSUME NEW t \in Topics, Message(t) PROVE WatchdogTypeOK'
  BY <1>1 DEF Message
<1>2. CASE OnClockJump
  BY <1>2 DEF OnClockJump, Stamped, Killed, Heard
<1>3. CASE OnClock
  BY <1>3 DEF OnClock
<1>4. CASE Check
  <2>1. CASE GraceOver
    BY <1>4, <2>1 DEF Check, KillTable, Stamped, Killed, Heard, Spacing
  <2>2. CASE ~GraceOver
    BY <1>4, <2>2 DEF Check
  <2> QED BY <2>1, <2>2
<1>5. CASE DogDies
  BY <1>5 DEF DogDies
<1>6. CASE DogRespawns
  BY <1>6 DEF DogRespawns, Constructed
<1>7. ASSUME NEW g \in Targets, Exit(g) \/ RespawnTarget(g) PROVE WatchdogTypeOK'
  BY <1>7 DEF Exit, RespawnTarget
<1>8. CASE WorldStarts
  BY <1>8 DEF WorldStarts
<1>9. CASE WatchdogTick
  <2>1. ASSUME NEW cap \in Nat, NEW a \in 0 .. cap PROVE OneOlder(a, cap) \in 0 .. cap
    BY <2>1 DEF OneOlder
  <2>2. Spacing \in Nat
    BY DEF Spacing
  <2>3. startAge' \in 0 .. Grace /\ sim' \in 0 .. MaxSim
    BY <1>9, <2>1 DEF WatchdogTick
  <2>4. \A t \in Topics : msgAge'[t] \in 0 .. Timeout[t]
    BY <1>9, <2>1 DEF WatchdogTick
  <2>5. killAge' \in [Targets -> 0 .. Cooldown]
    BY <1>9, <2>1 DEF WatchdogTick
  <2>6. downAge' \in [Targets -> 0 .. RespawnDelay]
    BY <1>9, <2>1 DEF WatchdogTick
  <2>7. staleAge' \in [Targets -> 0 .. Spacing]
    BY <1>9, <2>1, <2>2 DEF WatchdogTick
  <2> QED BY <1>9, <2>3, <2>4, <2>5, <2>6, <2>7 DEF WatchdogTick
<1>10. CASE UNCHANGED watchdogVars
  BY <1>10 DEF watchdogVars
<1> QED
  BY <1>1, <1>2, <1>3, <1>4, <1>5, <1>6, <1>7, <1>8, <1>9, <1>10 DEF WatchdogNext

(* The watchdog's tables keep their ranges, and only running processes are  *)
(* signalled (on_clock, check, kill_process).                               *)
THEOREM WatchdogTypeCorrect == WatchdogSpec => []WatchdogTypeOK
  BY WatchdogTypeInit, WatchdogTypeNext, PTL DEF WatchdogSpec

\* A watchdog that could kill again has itself waited as long: since the last kill for
\* silence, or, if that was its predecessor's, since its own start.
WaitIsKnown ==
  \A g \in Targets : \/ staleAge[g] = Spacing
                     \/ killAge[g] <= staleAge[g]
                     \/ startAge <= staleAge[g]

\* One step of KillsAreSpaced.
Spaced == \A g \in Targets : staleAge[g] < Spacing => staleAge'[g] >= staleAge[g]

LEMMA WaitIsKnownNext ==
  WatchdogTypeOK /\ WaitIsKnown /\ [WatchdogNext]_watchdogVars => WaitIsKnown' /\ Spaced
<1> SUFFICES ASSUME WatchdogTypeOK, WaitIsKnown, [WatchdogNext]_watchdogVars
             PROVE  WaitIsKnown' /\ Spaced
  OBVIOUS
<1> USE WatchdogAssumption
<1>1. /\ Spacing \in Nat /\ Spacing <= Grace /\ Spacing <= Cooldown
      /\ startAge \in Nat
      /\ staleAge \in [Targets -> 0 .. Spacing]
      /\ killAge \in [Targets -> 0 .. Cooldown]
  BY DEF Spacing, WatchdogTypeOK
<1>2. ASSUME staleAge' = staleAge, startAge' = startAge \/ startAge' = 0,
             \A g \in Targets : killAge'[g] \in {0, killAge[g]} \/ startAge' = 0
      PROVE  WaitIsKnown' /\ Spaced
  BY <1>1, <1>2 DEF WaitIsKnown, Spaced, Spacing
<1>3. ASSUME NEW t \in Topics, Message(t) PROVE WaitIsKnown' /\ Spaced
  BY <1>2, <1>3 DEF Message
<1>4. CASE OnClockJump
  BY <1>1, <1>2, <1>4 DEF OnClockJump, Stamped
<1>5. CASE OnClock
  BY <1>2, <1>5 DEF OnClock
<1>6. CASE Check
  <2>1. CASE ~GraceOver
    BY <1>2, <1>6, <2>1 DEF Check
  <2>2. CASE GraceOver
    <3> DEFINE killed == Killed(Overdue)
    <3>1. /\ staleAge' = [g \in Targets |-> IF g \in killed THEN 0 ELSE staleAge[g]]
          /\ killAge' = [g \in Targets |-> IF g \in killed THEN 0 ELSE killAge[g]]
          /\ startAge' = startAge
      BY <1>6, <2>2 DEF Check, KillTable, Stamped
    <3>2. ASSUME NEW g \in killed, g \in Targets PROVE staleAge[g] = Spacing
      <4>1. killAge[g] >= Cooldown /\ startAge >= Grace
        BY <2>2, <3>2 DEF Killed, Overdue, GraceOver
      <4>2. /\ staleAge[g] \in 0 .. Spacing
            /\ staleAge[g] = Spacing \/ killAge[g] <= staleAge[g] \/ startAge <= staleAge[g]
        BY <1>1, <3>2 DEF WaitIsKnown
      <4> QED BY <1>1, <3>2, <4>1, <4>2
    <3>3. WaitIsKnown'
      BY <1>1, <3>1 DEF WaitIsKnown, Spacing
    <3>4. Spaced
      BY <1>1, <3>1, <3>2 DEF Spaced
    <3> QED BY <3>3, <3>4
  <2> QED BY <2>1, <2>2
<1>7. CASE DogDies
  BY <1>2, <1>7 DEF DogDies
<1>8. CASE DogRespawns
  BY <1>2, <1>8 DEF DogRespawns, Constructed
<1>9. ASSUME NEW g \in Targets, Exit(g) \/ RespawnTarget(g) PROVE WaitIsKnown' /\ Spaced
  BY <1>2, <1>9 DEF Exit, RespawnTarget, dogVars
<1>10. CASE WorldStarts
  BY <1>2, <1>10 DEF WorldStarts, dogVars
<1>11. CASE WatchdogTick
  <2>1. /\ staleAge' = [g \in Targets |-> OneOlder(staleAge[g], Spacing)]
        /\ killAge' = [g \in Targets |-> OneOlder(killAge[g], Cooldown)]
        /\ startAge' = OneOlder(startAge, Grace)
    BY <1>11 DEF WatchdogTick
  <2>2. ASSUME NEW g \in Targets
        PROVE  /\ staleAge'[g] >= staleAge[g]
               /\ \/ staleAge'[g] = Spacing
                  \/ killAge'[g] <= staleAge'[g]
                  \/ startAge' <= staleAge'[g]
    <3>1. /\ staleAge[g] \in 0 .. Spacing /\ killAge[g] \in 0 .. Cooldown
          /\ staleAge[g] = Spacing \/ killAge[g] <= staleAge[g] \/ startAge <= staleAge[g]
      BY <1>1, <2>2 DEF WaitIsKnown
    <3>2. /\ staleAge'[g] = OneOlder(staleAge[g], Spacing)
          /\ killAge'[g] = OneOlder(killAge[g], Cooldown)
      BY <2>1, <2>2
    <3> QED BY <1>1, <2>1, <3>1, <3>2 DEF OneOlder
  <2> QED BY <2>2 DEF WaitIsKnown, Spaced, Spacing
<1>12. CASE UNCHANGED watchdogVars
  BY <1>2, <1>12 DEF watchdogVars, dogVars
<1> QED
  BY <1>3, <1>4, <1>5, <1>6, <1>7, <1>8, <1>9, <1>10, <1>11, <1>12 DEF WatchdogNext

(* Between two kills for silence a process has the cool-down or a grace to  *)
(* come back, whatever number of watchdogs died in between: the safety half *)
(* of KillsAreTimely (check).                                               *)
THEOREM KillsAlwaysSpaced == WatchdogSpec => KillsAreSpaced
<1>1. WatchdogInit => WaitIsKnown
  BY DEF WatchdogInit, WaitIsKnown
<1>2. WatchdogTypeOK /\ WaitIsKnown /\ [WatchdogNext]_watchdogVars => [Spaced]_watchdogVars
  BY WaitIsKnownNext
<1> QED
  BY <1>1, <1>2, WatchdogTypeInit, WatchdogTypeNext, WaitIsKnownNext, PTL
  DEF WatchdogSpec, KillsAreSpaced, Spaced

-----------------------------------------------------------------------------
(* The odometry.                                                           *)

Spot == [at : Int, way : Int]

OdometryTypes ==
  /\ car \in Spot
  /\ \A s \in {raw, filtered, lastScan} \ {NoScan} : s \in Spot
  /\ pose \in Int /\ origin \in Int /\ fair \in BOOLEAN

\* Between two scans the car has gone as far as it has driven, on both sides of every
\* queue: none of them is of before a teleport.
ScansComparable == fair => Fresh({raw, filtered, lastScan})

\* A pose that has no reference scan has not begun.
PoseBegins == lastScan = NoScan => pose = 0

OdometryInv == OdometryTypes /\ ScansComparable /\ PoseBegins /\ OdometryIsTravel

LEMMA OdometryInvInit == OdometryInit => OdometryInv
  BY DEF OdometryInit, OdometryInv, OdometryTypes, Spot, ScansComparable, Fresh,
         PoseBegins, OdometryIsTravel

LEMMA OdometryInvNext == OdometryInv /\ [OdometryNext]_odometryVars => OdometryInv'
<1> SUFFICES ASSUME OdometryInv, [OdometryNext]_odometryVars PROVE OdometryInv'
  OBVIOUS
<1> USE OdometryAssumption
    DEF OdometryInv, OdometryTypes, Spot, ScansComparable, Fresh, PoseBegins,
        OdometryIsTravel
<1>1. CASE CarMoves
  BY <1>1 DEF CarMoves, Journey
<1>2. CASE CarIsTeleported
  BY <1>2 DEF CarIsTeleported, Journey
<1>3. CASE ScanIsTaken
  BY <1>3 DEF ScanIsTaken
<1>4. CASE ScanIsFiltered \/ ScanIsPoor
  BY <1>4 DEF ScanIsFiltered, ScanIsPoor
<1>5. CASE FirstScan
  BY <1>5 DEF FirstScan
<1>6. CASE NextScan
  <2> PICK d \in Matched(lastScan.at, filtered.at) :
        /\ pose' = pose + d
        /\ fair' = (fair /\ d = filtered.at - lastScan.at)
    BY <1>6 DEF NextScan
  <2>1. /\ filtered \in Spot /\ lastScan \in Spot
        /\ lastScan' = filtered /\ filtered' = NoScan
        /\ UNCHANGED <<car, raw, origin>>
    BY <1>6 DEF NextScan
  <2>2. d \in Int
    BY <2>1 DEF Matched, Distance
  <2>3. OdometryTypes'
    BY <2>1, <2>2
  <2>4. ScansComparable'
    BY <2>1
  <2>5. fair' => pose' = lastScan'.way - origin'
    <3>1. SUFFICES ASSUME fair' PROVE pose' = lastScan'.way - origin'
      OBVIOUS
    <3>2. filtered.at - filtered.way = lastScan.at - lastScan.way
      BY <1>6, <2>1, <3>1 DEF NextScan
    <3>3. pose = lastScan.way - origin
      BY <1>6, <3>1 DEF NextScan
    <3>4. /\ filtered.at \in Int /\ filtered.way \in Int
          /\ lastScan.at \in Int /\ lastScan.way \in Int
      BY <2>1
    <3>5. pose' = pose + (filtered.at - lastScan.at)
      BY <3>1
    <3>6. pose + (filtered.at - lastScan.at) = filtered.way - origin
      BY <3>2, <3>3, <3>4
    <3> QED BY <2>1, <3>5, <3>6
  <2>6. lastScan' # NoScan
    BY <1>6 DEF NextScan
  <2> QED BY <2>3, <2>4, <2>5, <2>6
<1>7. CASE LaserResets
  BY <1>7 DEF LaserResets, StartAgain
<1>8. CASE LaserRespawns
  BY <1>8 DEF LaserRespawns, Journey
<1>9. CASE EkfMeasures \/ EkfIsSet
  BY <1>9 DEF EkfMeasures, EkfIsSet, Journey
<1>10. CASE ResetBegins \/ ResetGoesOn \/ ResetAnswers
  BY <1>10 DEF ResetBegins, ResetGoesOn, ResetAnswers, Journey
<1>11. CASE UNCHANGED odometryVars
  BY <1>11 DEF odometryVars
<1> QED
  BY <1>1, <1>2, <1>3, <1>4, <1>5, <1>6, <1>7, <1>8, <1>9, <1>10, <1>11 DEF OdometryNext

(* Whichever scans are dropped and whenever a reset is served, late and    *)
(* unawaited ones included, the odometry is the way driven since it began. *)
THEOREM OdometryAlwaysTravel == OdometrySpec => []OdometryIsTravel
<1>1. OdometryInv => OdometryIsTravel
  BY DEF OdometryInv
<1> QED BY <1>1, OdometryInvInit, OdometryInvNext, PTL DEF OdometrySpec

-----------------------------------------------------------------------------
(* The updater.                                                            *)

Numbers ==
  /\ known <= remote /\ goal <= known /\ fetched <= known /\ pending <= known
  /\ (pending # NoTag => head <= pending)

Recovering == {"recover", "remove", "restore", "unmark"}
Asking     == {"resume", "locks", "fetch", "compare"}
Switching  == {"checkout", "head", "verified"}
Building   == {"mark", "backup", "colcon", "drop"}
Launching  == {"prepare", "first_build", "verify", "build", "running"}

\* Where the two processes can be together: the background updater runs only when
\* there is nothing left to recover.
Positions ==
  /\ watcher \in {"off", "recover", "watch"}
  /\ watcher # "off" => boot \in {"verify", "build", "running"}

\* The marker and the backup are there only while a build is rolled forward or back.
MarksAreGone ==
  /\ boot \in Asking \cup Switching \cup Launching \cup {"mark"} => ~building
  /\ boot \in Asking \cup Switching \cup Launching \cup {"mark", "backup", "unmark"} =>
       backup = NoDir

\* What was asked for at each place, and what is remembered of it.
Requests ==
  /\ boot \in Switching => goal # NoTag /\ pending = goal
  /\ boot \in {"locks", "fetch", "compare"} \cup Building => pending = NoTag
  /\ boot \in Recovering /\ goal # NoTag => pending = NoTag
  /\ boot \in Launching /\ pending # NoTag => head < pending
  /\ boot \in {"recover", "resume"} \cup Asking => goal = NoTag
  /\ boot \in {"verified"} \cup Building => goal = head
  /\ boot \in Recovering /\ goal # NoTag => goal = head
  /\ boot \in {"checkout", "head"} => head <= goal
  /\ boot \in {"checkout", "head"} /\ fetched # NoTag => head < goal

\* What an install/ was built from is no newer than HEAD, older than an update that is
\* under way; and one that is not whole cannot pass for HEAD's.
Older(dir, revision) == dir # NoDir => dir.stamp < revision

StampsAreOld ==
  \A dir \in {install, backup} :
    /\ (dir # NoDir => dir.stamp <= head)
    /\ (pending # NoTag => Older(dir, pending))
    /\ boot \in Switching \cup {"mark", "backup", "colcon"} => Older(dir, goal)
    /\ ~cut /\ dir # NoDir /\ ~dir.whole => dir.stamp < head

NewBuild ==
  /\ boot = "colcon" => install = NoDir
  /\ boot = "drop" => install # NoDir /\ install.whole /\ Older(backup, head)
  /\ boot = "first_build" => install = NoDir
  /\ boot = "build" /\ install # NoDir /\ install.whole => install.stamp # head

\* A working tree that is not HEAD's is an interrupted update, and there is a newer
\* tag to find it by.
TreeIsHeads ==
  /\ tree # head => head < known
  /\ boot = "head" => tree = goal
  /\ boot \in {"verified"} \cup Building => tree = head
  /\ boot \in Recovering /\ goal # NoTag => tree = head

\* The newest tag fetched is reached unless something fails.
FetchedIsReached ==
  /\ boot \in {"recover", "resume", "locks", "fetch"} => fetched = NoTag
  /\ boot \in Recovering /\ fetched # NoTag => goal # NoTag
  /\ boot \in Switching \cup Building \cup Recovering /\ fetched # NoTag /\ ~trouble =>
       fetched <= goal
  /\ boot \in Launching /\ fetched # NoTag /\ ~trouble => fetched <= head /\ tree = head

UpdaterParts ==
  /\ Numbers /\ Positions /\ MarksAreGone /\ Requests /\ StampsAreOld /\ NewBuild
  /\ TreeIsHeads /\ FetchedIsReached /\ LaunchesWholeInstall

UpdaterInv == UpdaterTypeOK /\ UpdaterParts

(* The fields of a directory that is there, torn or rebuilt.               *)
LEMMA InstallFields ==
  ASSUME NEW dir \in Installs
  PROVE  /\ dir # NoDir /\ dir.stamp \in Nat /\ dir.whole \in BOOLEAN
         /\ Torn(dir) \in Installs /\ Torn(dir).stamp = dir.stamp /\ ~Torn(dir).whole
<1>1. Installs \subseteq [from : Nat \cup {Mixed}, stamp : Nat, whole : BOOLEAN]
  BY DEF Installs, Revisions, NoTag
<1>2. dir # NoDir
  BY <1>1, ContentAssumption
<1>3. /\ Torn(dir) = [dir EXCEPT !.whole = FALSE]
      /\ dir.stamp \in Nat /\ dir.whole \in BOOLEAN
  BY <1>2, BoundAssumption DEF Torn, Installs, Revisions, NoTag
<1>4. Torn(dir) \in Installs /\ Torn(dir).stamp = dir.stamp /\ ~Torn(dir).whole
  BY <1>3 DEF Installs
<1> QED BY <1>2, <1>3, <1>4

LEMMA BuildFields ==
  ASSUME tree \in Revisions \cup {Mixed}, head \in Revisions
  PROVE  /\ Built \in Installs /\ Built.stamp = head /\ Built.whole
         /\ Rubble \in Installs /\ Rubble.stamp = NoTag /\ ~Rubble.whole
  BY DEF Built, Rubble, Installs

LEMMA WatcherRecovers ==
  ASSUME Positions, MarksAreGone, Recovery("watcher")
  PROVE  watcher' = "watch" /\ UNCHANGED <<remote, repoVars, dirVars, goal, boot,
      historyVars>>
  BY DEF Positions, MarksAreGone, Launching, Recovery, RecoverInstall, RemoveInstall,
         RestoreBackup, Unmark, At, GoTo, Settled

LEMMA UpdaterInvInit == UpdaterInit => UpdaterInv
<1> SUFFICES ASSUME UpdaterInit PROVE UpdaterInv
  OBVIOUS
<1> USE BoundAssumption DEF UpdaterInit
<1>1. head \in Revisions /\ tree = head /\ head \in Nat /\ 1 \in Revisions
  BY DEF Revisions
<1>2. install # NoDir => install \in Installs /\ install.stamp = head /\ install.whole
  BY <1>1, BuildFields
<1>3. UpdaterTypeOK
  <2>1. {remote, known, head} \subseteq Revisions /\ known <= remote /\ tree \in Revisions
    BY <1>1
  <2>2. {install, backup} \subseteq Installs \cup {NoDir} /\ crashes \in 0 .. MaxCrashes
    BY <1>2
  <2> QED BY <2>1, <2>2 DEF UpdaterTypeOK, NoTag
<1>4. StampsAreOld
  BY <1>1, <1>2 DEF StampsAreOld, NoTag, Older, Switching
<1> QED
  BY <1>1, <1>3, <1>4
     DEF UpdaterInv, UpdaterParts, Numbers, Positions, MarksAreGone, Requests, NewBuild,
         TreeIsHeads, FetchedIsReached, LaunchesWholeInstall, Recovering, Asking, Switching,
         Building, Launching, NoTag

LEMMA RevisionsAreNumbers ==
  ASSUME UpdaterTypeOK
  PROVE  /\ remote \in Nat /\ known \in Nat \ {NoTag} /\ head \in Nat \ {NoTag}
         /\ pending \in Nat /\ goal \in Nat /\ fetched \in Nat /\ crashes \in Nat
         /\ remote <= MaxRevision
<1>1. {remote, known, head} \subseteq Revisions /\ {pending, goal, fetched} \subseteq
    Revisions \cup {NoTag}
      /\ crashes \in 0 .. MaxCrashes
  BY DEF UpdaterTypeOK
<1> QED BY <1>1, BoundAssumption DEF Revisions, NoTag

LEMMA UpdaterTypeNext == UpdaterInv /\ [UpdaterNext]_updaterVars => UpdaterTypeOK'
<1> SUFFICES ASSUME UpdaterInv, [UpdaterNext]_updaterVars PROVE UpdaterTypeOK'
  OBVIOUS
<1> USE DEF NoTag, UpdaterTypeOK, repoVars, dirVars, historyVars
<1>0. /\ UpdaterTypeOK /\ Positions /\ MarksAreGone /\ Requests
  BY DEF UpdaterInv, UpdaterParts
<1>1. CASE Recovery("boot")
  <2>1. CASE RecoverInstall("boot")
    BY <1>0, <2>1 DEF RecoverInstall, At, GoTo, Settled
  <2>2. CASE RemoveInstall("boot")
    BY <1>0, <2>2 DEF RemoveInstall, At, GoTo
  <2>3. CASE RestoreBackup("boot")
    BY <1>0, <2>3 DEF RestoreBackup, At, GoTo
  <2>4. CASE Unmark("boot")
    BY <1>0, <2>4 DEF Unmark, At, GoTo, Settled, MarkerGone, MarksAreGone
  <2> QED BY <1>0, <1>1, <2>1, <2>2, <2>3, <2>4 DEF Recovery
<1>2. CASE Recovery("watcher")
  <2>1. watcher' = "watch" /\ UNCHANGED <<remote, repoVars, dirVars, goal, boot,
      historyVars>>
    BY <1>0, <1>2, WatcherRecovers
  <2> QED BY <1>0, <2>1
<1>3. CASE Resume
  <2>1. known' \in Revisions /\ known' <= remote' /\ remote' = remote
    BY <1>0, <1>3, RevisionsAreNumbers DEF Resume
  <2>2. goal' \in Revisions \cup {NoTag} /\ pending' \in Revisions \cup {NoTag}
        /\ boot' \in {"locks", "checkout"}
    BY <1>0, <1>3 DEF Resume
  <2> QED BY <1>0, <1>3, <2>1, <2>2 DEF Resume
<1>4. CASE CleanLocks
  BY <1>0, <1>4
     DEF CleanLocks, Positions, MarksAreGone, Requests, Recovering, Asking, Switching,
         Building, Launching
<1>5. CASE Fetch
  <2>1. /\ known' \in Revisions /\ known' <= remote /\ fetched' \in Revisions \cup {NoTag}
        /\ boot' \in {"compare", "prepare"}
    BY <1>0, <1>5 DEF Fetch, Listed, Revisions
  <2>2. ~building /\ backup = NoDir
    BY <1>0, <1>5 DEF Fetch, MarksAreGone, Asking
  <2> QED BY <1>0, <1>5, <2>1, <2>2 DEF Fetch
<1>6. CASE Compare
  BY <1>0, <1>6
     DEF Compare, UpToDate, Positions, MarksAreGone, Requests, Recovering, Asking,
         Switching, Building, Launching
<1>7. CASE WriteTree
  BY <1>0, <1>7
     DEF WriteTree, Positions, MarksAreGone, Requests, Recovering, Asking, Switching,
         Building, Launching
<1>8. CASE MoveHead
  BY <1>0, <1>8
     DEF MoveHead, Positions, MarksAreGone, Requests, Recovering, Asking, Switching,
         Building, Launching
<1>9. CASE CheckoutFails
  BY <1>0, <1>9
     DEF CheckoutFails, Halfway, Positions, MarksAreGone, Requests, Recovering, Asking,
         Switching, Building, Launching
<1>10. CASE Verified
  BY <1>0, <1>10
     DEF Verified, Positions, MarksAreGone, Requests, Recovering, Asking, Switching,
         Building, Launching
<1>11. CASE Mark
  <2>1. ~building /\ backup = NoDir
    BY <1>0, <1>11 DEF Mark, MarksAreGone
  <2>2. CASE building' = TRUE /\ boot' = "backup" /\ UNCHANGED trouble
    BY <1>0, <1>11, <2>1, <2>2 DEF Mark
  <2>3. CASE boot' = "prepare" /\ trouble' = TRUE /\ UNCHANGED building
    BY <1>0, <1>11, <2>1, <2>3 DEF Mark
  <2> QED BY <1>11, <2>2, <2>3 DEF Mark
<1>12. CASE BackUp
  BY <1>0, <1>12
     DEF BackUp, Positions, MarksAreGone, Requests, Recovering, Asking, Switching, Building,
         Launching
<1>13. CASE Colcon
  BY <1>0, <1>13, BuildFields
     DEF Colcon, Succeeds, Fails, Positions, MarksAreGone, Requests, Recovering, Asking,
         Switching, Building, Launching
<1>14. CASE DropBackup
  BY <1>0, <1>14
     DEF DropBackup, Positions, MarksAreGone, Requests, Recovering, Asking, Switching,
         Building, Launching
<1>15. CASE Prepare
  BY <1>0, <1>15
     DEF Prepare, Positions, MarksAreGone, Requests, Recovering, Asking, Switching,
         Building, Launching
<1>16. CASE FirstBuild
  BY <1>0, <1>16, BuildFields
     DEF FirstBuild, Succeeds, Fails, Positions, MarksAreGone, Requests, Recovering, Asking,
         Switching, Building, Launching
<1>17. CASE Verify
  BY <1>0, <1>17
     DEF Verify, StampMatches, Positions, MarksAreGone, Requests, Recovering, Asking,
         Switching, Building, Launching
<1>18. CASE Build
  BY <1>0, <1>18, BuildFields
     DEF Build, Succeeds, Fails, LaunchAfter, Positions, MarksAreGone, Requests, Recovering,
         Asking, Switching, Building, Launching
<1>19. CASE LaunchExits
  BY <1>0, <1>19
     DEF LaunchExits, Positions, MarksAreGone, Requests, Recovering, Asking, Switching,
         Building, Launching
<1>20. CASE Watch
  <2>1. known' \in Revisions /\ known' <= remote'
    <3>1. known' = remote /\ remote' = remote
      BY <1>20 DEF Watch
    <3>2. remote \in Nat /\ remote \in Revisions
      BY <1>0, RevisionsAreNumbers
    <3> QED BY <3>1, <3>2
  <2> QED BY <1>0, <1>20, <2>1 DEF Watch
<1>21. CASE Release
  <2>1. remote' \in Revisions /\ known' <= remote'
    <3>1. remote < MaxRevision /\ remote' = remote + 1 /\ known' = known
      BY <1>21 DEF Release, repoVars
    <3>2. remote \in Nat /\ known \in Nat /\ known <= remote
      BY <1>0, RevisionsAreNumbers
    <3>3. MaxRevision \in Nat
      BY BoundAssumption
    <3>4. remote + 1 \in 1 .. MaxRevision /\ known <= remote + 1
      BY ONLY <3>1, <3>2, <3>3
    <3> QED BY ONLY <3>1, <3>4 DEF Revisions
  <2> QED BY <1>0, <1>21, <2>1 DEF Release
<1>22. CASE LockAges
  BY <1>0, <1>22
     DEF LockAges, Positions, MarksAreGone, Requests, Recovering, Asking, Switching,
         Building, Launching
<1>23. CASE UNCHANGED updaterVars
  BY <1>0, <1>23
     DEF updaterVars, Positions, MarksAreGone, Requests, Recovering, Asking, Switching,
         Building, Launching
<1>24. ASSUME NEW tmpKept \in BOOLEAN, Crash(tmpKept) PROVE UpdaterTypeOK'
  <2>1. NoDir = Torn(NoDir) /\ \A dir \in Installs : Torn(dir) \in Installs
    BY InstallFields DEF Torn
  <2>2. Rubble \in Installs
    BY <1>0, BuildFields
  <2>3. install' \in Installs \cup {NoDir} /\ backup' \in Installs \cup {NoDir}
    BY <1>0, <1>24, <2>1, <2>2 DEF Crash, HalfRemoved, HalfBuilt
  <2>4. crashes' \in 0 .. MaxCrashes
    <3>1. crashes' = crashes + 1 /\ crashes < MaxCrashes
      BY <1>24 DEF Crash
    <3>2. crashes \in Nat
      BY <1>0, RevisionsAreNumbers
    <3> HIDE DEF UpdaterTypeOK
    <3> QED BY <3>1, <3>2, BoundAssumption
  <2>5. /\ boot' = "recover" /\ watcher' = "off"
        /\ goal' = NoTag /\ fetched' = NoTag /\ pending' \in {pending, NoTag}
        /\ UNCHANGED <<remote, known, head>>
    BY <1>24 DEF Crash
  <2>6. {building', trouble', cut'} \subseteq BOOLEAN
    BY <1>0, <1>24 DEF Crash
  <2>7. tree' \in Revisions \cup {Mixed} /\ lock' \in {"none", "fresh", "stale"}
    <3>1. boot = "checkout" => goal \in Revisions
      BY <1>0 DEF Requests, Switching
    <3> QED BY <1>0, <1>24, <3>1 DEF Crash, Halfway
  <2> QED BY <1>0, <2>3, <2>4, <2>5, <2>6, <2>7
<1> QED
  BY <1>0, <1>1, <1>2, <1>3, <1>4, <1>5, <1>6, <1>7, <1>8, <1>9, <1>10, <1>11, <1>12,
     <1>13, <1>14, <1>15, <1>16, <1>17, <1>18, <1>19, <1>20, <1>21, <1>22, <1>23, <1>24
     DEF UpdaterNext, BootStep

(* What the steps below use of the types.                                  *)
UpdaterFacts ==
  /\ remote \in Nat /\ known \in Nat \ {NoTag} /\ head \in Nat \ {NoTag}
  /\ pending \in Nat /\ goal \in Nat /\ fetched \in Nat
  /\ \A dir \in {install, backup} : 
       dir # NoDir => dir.stamp \in Nat /\ dir.whole \in BOOLEAN
  /\ Built # NoDir /\ Built.stamp = head /\ Built.whole
  /\ Rubble # NoDir /\ Rubble.stamp = NoTag /\ ~Rubble.whole

LEMMA UpdaterTypesGiveFacts == UpdaterTypeOK => UpdaterFacts
<1> SUFFICES ASSUME UpdaterTypeOK PROVE UpdaterFacts
  OBVIOUS
<1>1. \A dir \in {install, backup} :
        dir # NoDir => dir.stamp \in Nat /\ dir.whole \in BOOLEAN
  BY InstallFields DEF UpdaterTypeOK
<1>2. tree \in Revisions \cup {Mixed} /\ head \in Revisions
  BY DEF UpdaterTypeOK
<1>3. /\ Built # NoDir /\ Built.stamp = head /\ Built.whole
      /\ Rubble # NoDir /\ Rubble.stamp = NoTag /\ ~Rubble.whole
  BY <1>2, BuildFields, InstallFields
<1> QED BY <1>1, <1>3, RevisionsAreNumbers DEF UpdaterFacts

LEMMA RecoveryKeeps ==
  ASSUME UpdaterFacts, UpdaterParts, Recovery("boot")
  PROVE  UpdaterParts'
<1> USE DEF UpdaterFacts, UpdaterParts, Numbers, Positions, MarksAreGone, Requests,
            StampsAreOld, NewBuild, TreeIsHeads, FetchedIsReached, LaunchesWholeInstall,
            Older, Recovering, Asking, Switching, Building, Launching, NoTag, repoVars,
            dirVars, historyVars
<1>1. CASE RecoverInstall("boot")
  BY <1>1 DEF RecoverInstall, At, GoTo, Settled
<1>2. CASE RemoveInstall("boot")
  BY <1>2 DEF RemoveInstall, At, GoTo
<1>3. CASE RestoreBackup("boot")
  BY <1>3 DEF RestoreBackup, At, GoTo
<1>4. CASE Unmark("boot")
  BY <1>4 DEF Unmark, At, GoTo, MarkerGone, Settled
<1> QED BY <1>1, <1>2, <1>3, <1>4 DEF Recovery

LEMMA PlainStepsKeep ==
  ASSUME UpdaterFacts, UpdaterParts, CleanLocks \/ Fetch \/ WriteTree \/ MoveHead
      \/ CheckoutFails \/ Verified \/ BackUp \/ Colcon \/ DropBackup \/ Prepare \/ Build
      \/ LaunchExits \/ LockAges \/ UNCHANGED updaterVars
  PROVE  UpdaterParts'
<1> USE DEF UpdaterFacts, UpdaterParts, Numbers, Positions, MarksAreGone, Requests,
            StampsAreOld, NewBuild, TreeIsHeads, FetchedIsReached, LaunchesWholeInstall,
            Older, Recovering, Asking, Switching, Building, Launching, NoTag, repoVars,
            dirVars, historyVars
<1>1. CASE CleanLocks
  BY <1>1 DEF CleanLocks
<1>2. CASE Fetch
  <2>1. Numbers'
    BY <1>2 DEF Fetch, Listed
  <2>2. Positions' /\ MarksAreGone'
    BY <1>2 DEF Fetch, Listed
  <2>3. Requests'
    BY <1>2 DEF Fetch, Listed
  <2>4. StampsAreOld'
    BY <1>2 DEF Fetch, Listed
  <2>5. NewBuild'
    BY <1>2 DEF Fetch, Listed
  <2>6. TreeIsHeads'
    BY <1>2 DEF Fetch, Listed
  <2>7. FetchedIsReached' /\ LaunchesWholeInstall'
    BY <1>2 DEF Fetch, Listed
  <2> QED BY <2>1, <2>2, <2>3, <2>4, <2>5, <2>6, <2>7
<1>3. CASE WriteTree
  BY <1>3 DEF WriteTree
<1>4. CASE MoveHead
  BY <1>4 DEF MoveHead
<1>5. CASE CheckoutFails
  <2>1. Numbers' /\ Positions' /\ MarksAreGone' /\ Requests'
    BY <1>5 DEF CheckoutFails, Halfway
  <2>2. StampsAreOld' /\ NewBuild'
    BY <1>5 DEF CheckoutFails, Halfway
  <2>3. TreeIsHeads' /\ FetchedIsReached' /\ LaunchesWholeInstall'
    BY <1>5 DEF CheckoutFails, Halfway
  <2> QED BY <2>1, <2>2, <2>3
<1>6. CASE Verified
  BY <1>6 DEF Verified
<1>7. CASE BackUp
  BY <1>7 DEF BackUp
<1>8. CASE Colcon
  <2>1. Numbers'
    BY <1>8 DEF Colcon, Succeeds, Fails
  <2>2. Positions' /\ MarksAreGone'
    BY <1>8 DEF Colcon, Succeeds, Fails
  <2>3. Requests'
    BY <1>8 DEF Colcon, Succeeds, Fails
  <2>4. StampsAreOld'
    BY <1>8 DEF Colcon, Succeeds, Fails
  <2>5. NewBuild'
    BY <1>8 DEF Colcon, Succeeds, Fails
  <2>6. TreeIsHeads'
    BY <1>8 DEF Colcon, Succeeds, Fails
  <2>7. FetchedIsReached' /\ LaunchesWholeInstall'
    BY <1>8 DEF Colcon, Succeeds, Fails
  <2> QED BY <2>1, <2>2, <2>3, <2>4, <2>5, <2>6, <2>7
<1>9. CASE DropBackup
  BY <1>9 DEF DropBackup
<1>10. CASE Prepare
  BY <1>10 DEF Prepare
<1>11. CASE Build
  <2>1. Numbers'
    BY <1>11 DEF Build, Succeeds, Fails, LaunchAfter
  <2>2. Positions' /\ MarksAreGone'
    BY <1>11 DEF Build, Succeeds, Fails, LaunchAfter
  <2>3. Requests'
    BY <1>11 DEF Build, Succeeds, Fails, LaunchAfter
  <2>4. StampsAreOld'
    BY <1>11 DEF Build, Succeeds, Fails, LaunchAfter
  <2>5. NewBuild'
    BY <1>11 DEF Build, Succeeds, Fails, LaunchAfter
  <2>6. TreeIsHeads'
    BY <1>11 DEF Build, Succeeds, Fails, LaunchAfter
  <2>7. FetchedIsReached' /\ LaunchesWholeInstall'
    BY <1>11 DEF Build, Succeeds, Fails, LaunchAfter
  <2> QED BY <2>1, <2>2, <2>3, <2>4, <2>5, <2>6, <2>7
<1>12. CASE LaunchExits
  BY <1>12 DEF LaunchExits
<1>13. CASE LockAges
  <2>1. Numbers' /\ Positions' /\ MarksAreGone' /\ Requests'
    BY <1>13 DEF LockAges
  <2>2. StampsAreOld' /\ NewBuild' /\ TreeIsHeads' /\ FetchedIsReached'
      /\ LaunchesWholeInstall'
    BY <1>13 DEF LockAges
  <2> QED BY <2>1, <2>2
<1>14. CASE UNCHANGED updaterVars
  <2>1. Numbers' /\ Positions' /\ MarksAreGone' /\ Requests'
    BY <1>14 DEF updaterVars
  <2>2. StampsAreOld' /\ NewBuild' /\ TreeIsHeads'
    BY <1>14 DEF updaterVars
  <2>3. FetchedIsReached' /\ LaunchesWholeInstall'
    BY <1>14 DEF updaterVars
  <2> QED BY <2>1, <2>2, <2>3
<1> QED BY <1>1, <1>2, <1>3, <1>4, <1>5, <1>6, <1>7, <1>8, <1>9, <1>10, <1>11, <1>12, <1>13,
    <1>14

LEMMA ResumeKeeps ==
  ASSUME UpdaterFacts, UpdaterParts, Resume
  PROVE  UpdaterParts'
<1> USE DEF UpdaterFacts, UpdaterParts, Numbers, Positions, MarksAreGone, Requests,
            StampsAreOld, NewBuild, TreeIsHeads, FetchedIsReached, LaunchesWholeInstall,
            Older, Recovering, Asking, Switching, Building, Launching, NoTag, repoVars,
            dirVars, historyVars
<1>1. CASE pending = NoTag /\ boot' = "locks" /\ UNCHANGED <<pending, goal>>
  BY <1>1 DEF Resume
<1>2. CASE pending # NoTag /\ goal' = pending /\ boot' = "checkout" /\ UNCHANGED pending
  BY <1>2 DEF Resume
<1>3. CASE pending # NoTag /\ pending' = NoTag /\ boot' = "locks" /\ UNCHANGED goal
  BY <1>3 DEF Resume
<1> QED BY <1>1, <1>2, <1>3 DEF Resume

LEMMA CompareKeeps ==
  ASSUME UpdaterFacts, UpdaterParts, Compare
  PROVE  UpdaterParts'
<1> USE DEF UpdaterFacts, UpdaterParts, Numbers, Positions, MarksAreGone, Requests,
            StampsAreOld, NewBuild, TreeIsHeads, FetchedIsReached, LaunchesWholeInstall,
            Older, Recovering, Asking, Switching, Building, Launching, NoTag, repoVars,
            dirVars, historyVars
<1>1. CASE UpToDate
  BY <1>1 DEF Compare, UpToDate
<1>2. CASE ~UpToDate
  BY <1>2 DEF Compare, UpToDate
<1> QED BY <1>1, <1>2

LEMMA MarkKeeps ==
  ASSUME UpdaterFacts, UpdaterParts, Mark
  PROVE  UpdaterParts'
<1> USE DEF UpdaterFacts, UpdaterParts, Numbers, Positions, MarksAreGone, Requests,
            StampsAreOld, NewBuild, TreeIsHeads, FetchedIsReached, LaunchesWholeInstall,
            Older, Recovering, Asking, Switching, Building, Launching, NoTag, repoVars,
            dirVars, historyVars
<1>1. CASE building' = TRUE /\ boot' = "backup" /\ UNCHANGED trouble
  BY <1>1 DEF Mark
<1>2. CASE boot' = "prepare" /\ trouble' = TRUE /\ UNCHANGED building
  BY <1>2 DEF Mark
<1> QED BY <1>1, <1>2 DEF Mark

LEMMA VerifyKeeps ==
  ASSUME UpdaterFacts, UpdaterParts, Verify
  PROVE  UpdaterParts'
<1> USE DEF UpdaterFacts, UpdaterParts, Numbers, Positions, MarksAreGone, Requests,
            StampsAreOld, NewBuild, TreeIsHeads, FetchedIsReached, LaunchesWholeInstall,
            Older, Recovering, Asking, Switching, Building, Launching, NoTag, repoVars,
            dirVars, historyVars
<1>1. CASE StampMatches /\ boot' = "running"
  BY <1>1 DEF Verify, StampMatches
<1>2. CASE (StampMatches => ~install.whole) /\ boot' = "build"
  BY <1>2 DEF Verify, StampMatches
<1> QED BY <1>1, <1>2 DEF Verify

LEMMA FirstBuildKeeps ==
  ASSUME UpdaterFacts, UpdaterParts, FirstBuild
  PROVE  UpdaterParts'
<1>1. /\ boot = "first_build" /\ boot' = "verify" /\ watcher' = "recover"
      /\ Succeeds \/ Fails
      /\ UNCHANGED <<remote, known, head, tree, lock, pending, building, backup, goal,
          crashes, fetched>>
  BY DEF FirstBuild, repoVars
<1>2. backup = NoDir /\ ~building
  BY <1>1 DEF UpdaterParts, MarksAreGone, Launching
<1>3. install'.stamp \in {head, NoTag} /\ install' # NoDir
      /\ (~cut' /\ ~install'.whole => install'.stamp = NoTag)
  BY <1>1 DEF UpdaterFacts, Succeeds, Fails
<1>4. pending # NoTag => head < pending
  BY <1>1 DEF UpdaterParts, Requests, Launching
<1>5. StampsAreOld'
  <2>1. head \in Nat /\ 0 < head /\ (pending # 0 => 0 < pending)
    BY DEF UpdaterFacts, NoTag
  <2>2. /\ install'.stamp <= head
        /\ pending # NoTag => install'.stamp < pending
        /\ ~cut' /\ ~install'.whole => install'.stamp < head
    BY <1>3, <1>4, <2>1 DEF NoTag
  <2>3. boot' = "verify" /\ backup' = NoDir /\ UNCHANGED <<head, pending>>
    BY <1>1, <1>2
  <2> QED BY <2>2, <2>3 DEF StampsAreOld, Older, Switching
<1>6. Numbers' /\ Positions' /\ MarksAreGone' /\ NewBuild' /\ LaunchesWholeInstall'
  BY <1>1, <1>2
     DEF UpdaterParts, Numbers, Positions, MarksAreGone, NewBuild, LaunchesWholeInstall,
         Recovering, Asking, Switching, Building, Launching
<1>7. Requests' /\ TreeIsHeads'
  BY <1>1
     DEF UpdaterParts, Requests, TreeIsHeads, Recovering, Asking, Switching, Building,
         Launching
<1>8. FetchedIsReached'
  BY <1>1
     DEF UpdaterParts, FetchedIsReached, Succeeds, Fails, Recovering, Asking, Switching,
         Building, Launching
<1> QED
  BY <1>5, <1>6, <1>7, <1>8 DEF UpdaterParts

LEMMA WatchKeeps ==
  ASSUME UpdaterFacts, UpdaterParts, Watch
  PROVE  UpdaterParts'
<1>1. /\ known' = remote
      /\ UNCHANGED <<remote, head, tree, pending, dirVars, goal, boot, watcher,
          historyVars>>
  BY DEF Watch
<1>2. /\ remote \in Nat /\ known \in Nat /\ head \in Nat /\ pending \in Nat /\ goal \in Nat
    /\ fetched \in Nat
      /\ Numbers /\ TreeIsHeads
  BY DEF UpdaterFacts, UpdaterParts
<1>3. Numbers'
  BY <1>1, <1>2 DEF Numbers, historyVars
<1>4. TreeIsHeads'
  BY <1>1, <1>2 DEF Numbers, TreeIsHeads, historyVars
<1>5. Positions' /\ MarksAreGone' /\ LaunchesWholeInstall'
  BY <1>1
     DEF UpdaterParts, Positions, MarksAreGone, LaunchesWholeInstall, Recovering, Asking,
         Switching, Building, Launching, dirVars, historyVars
<1>6. Requests' /\ StampsAreOld'
  BY <1>1
     DEF UpdaterParts, Requests, StampsAreOld, Older, Recovering, Asking, Switching, Building,
         Launching, dirVars, historyVars
<1>7. NewBuild' /\ FetchedIsReached'
  BY <1>1
     DEF UpdaterParts, NewBuild, FetchedIsReached, Recovering, Asking, Switching, Building,
         Launching, dirVars, historyVars
<1> QED
  BY <1>3, <1>4, <1>5, <1>6, <1>7 DEF UpdaterParts

LEMMA ReleaseKeeps ==
  ASSUME UpdaterFacts, UpdaterParts, Release
  PROVE  UpdaterParts'
<1>1. remote' = remote + 1 /\ UNCHANGED <<repoVars, dirVars, goal, boot, watcher,
    historyVars>>
  BY DEF Release
<1>2. remote \in Nat /\ known \in Nat /\ Numbers
  BY DEF UpdaterFacts, UpdaterParts
<1>3. Numbers'
  BY <1>1, <1>2 DEF Numbers, repoVars, historyVars
<1>4. TreeIsHeads' /\ Requests'
  BY <1>1 DEF UpdaterParts, TreeIsHeads, Requests, repoVars, dirVars, historyVars
<1>5. StampsAreOld' /\ NewBuild'
  BY <1>1 DEF UpdaterParts, StampsAreOld, NewBuild, Older, repoVars, dirVars, historyVars
<1> QED
  BY <1>1, <1>3, <1>4, <1>5
     DEF UpdaterParts, Positions, MarksAreGone, FetchedIsReached, LaunchesWholeInstall,
         repoVars, dirVars, historyVars

LEMMA CrashKeeps ==
  ASSUME UpdaterFacts, UpdaterParts, UpdaterTypeOK, NEW tmpKept \in BOOLEAN, Crash(tmpKept)
  PROVE  UpdaterParts'
<1>1. /\ boot' = "recover" /\ watcher' = "off" /\ goal' = NoTag /\ fetched' = NoTag
      /\ pending' \in {pending, NoTag} /\ UNCHANGED <<remote, known, head>>
      /\ cut' = (cut \/ boot = "remove" \/ watcher = "remove")
  BY DEF Crash
<1>2. /\ remote \in Nat /\ known \in Nat \ {NoTag} /\ head \in Nat \ {NoTag}
      /\ pending \in Nat
      /\ goal \in Nat /\ fetched \in Nat
  BY DEF UpdaterFacts
<1>3. Numbers'
  BY <1>1, <1>2 DEF UpdaterParts, Numbers, NoTag
<1>4. Positions' /\ MarksAreGone' /\ Requests' /\ NewBuild' /\ FetchedIsReached'
    /\ LaunchesWholeInstall'
  BY <1>1
     DEF Positions, MarksAreGone, Requests, NewBuild, FetchedIsReached,
         LaunchesWholeInstall, Recovering, Asking, Switching, Building, Launching, NoTag
<1>5. TreeIsHeads'
  <2>1. tree' # head => head < known
    <3>1. CASE tree' = tree
      BY <3>1 DEF UpdaterParts, TreeIsHeads
    <3>2. CASE boot = "checkout" /\ tree' = Halfway /\ tree' # tree
      <4>1. head <= goal /\ goal <= known
        BY <3>2 DEF UpdaterParts, Requests, Numbers
      <4>2. tree # goal
        BY <3>2 DEF Halfway
      <4>3. CASE tree = head
        BY <1>2, <4>1, <4>2, <4>3
      <4>4. CASE tree # head
        BY <4>4 DEF UpdaterParts, TreeIsHeads
      <4> QED BY <4>3, <4>4
    <3> QED BY <3>1, <3>2 DEF Crash
  <2> QED BY <1>1, <2>1 DEF TreeIsHeads, Recovering, Asking, Switching, Building, Launching
<1>6. StampsAreOld'
  <2> DEFINE Fine(dir) == dir # NoDir =>
               /\ dir.stamp <= head
               /\ (pending # NoTag => dir.stamp < pending)
               /\ (~cut' /\ ~dir.whole => dir.stamp < head)
  <2>1. \A dir \in {install, backup} :
          /\ Fine(dir)
          /\ dir # NoDir => dir \in Installs /\ Torn(dir) # NoDir /\ Torn(dir).stamp =
              dir.stamp
          /\ dir = NoDir => Torn(dir) = NoDir
    <3>1. \A dir \in {install, backup} : dir # NoDir => dir \in Installs
      BY DEF UpdaterTypeOK
    <3>2. \A dir \in {install, backup} : Fine(dir)
      BY <1>1 DEF UpdaterParts, StampsAreOld, Older
    <3> QED BY <3>1, <3>2, InstallFields DEF Torn
  <2>2. Fine(Rubble)
    BY <1>2 DEF UpdaterFacts, NoTag
  <2>3. install' = Torn(install) => Fine(install')
    <3>1. CASE install = NoDir
      BY <2>1, <3>1
    <3>2. CASE "remove" \in {boot, watcher}
      BY <1>1, <2>1, <3>2
    <3>3. CASE boot = "build" /\ install # NoDir
      <4>1. install.stamp \in Nat /\ install.whole \in BOOLEAN
        BY <3>3 DEF UpdaterFacts
      <4>2. install.whole => install.stamp # head
        BY <3>3 DEF UpdaterParts, NewBuild
      <4> QED BY <1>1, <1>2, <2>1, <4>1, <4>2
    <3>4. CASE boot \in {"colcon", "first_build"}
      BY <2>1, <3>4 DEF UpdaterParts, NewBuild
    <3>5. CASE install' = install
      BY <2>1, <3>5
    <3> QED BY <3>1, <3>2, <3>3, <3>4, <3>5 DEF Crash
  <2>4. backup' = Torn(backup) => Fine(backup')
    <3>1. CASE backup = NoDir \/ backup' = backup
      BY <2>1, <3>1
    <3>2. CASE boot = "drop" /\ backup # NoDir
      BY <1>2, <2>1, <3>2 DEF UpdaterParts, NewBuild, Older
    <3> QED BY <3>1, <3>2 DEF Crash
  <2>5. Fine(install') /\ Fine(backup')
    <3>1. Fine(NoDir)
      OBVIOUS
    <3>2. install' \in {install, Torn(install), Rubble, NoDir}
      BY DEF Crash, HalfRemoved, HalfBuilt
    <3>3. backup' \in {backup, Torn(backup), NoDir}
      BY DEF Crash, HalfRemoved
    <3> HIDE DEF Fine
    <3> QED BY <2>1, <2>2, <2>3, <2>4, <3>1, <3>2, <3>3
  <2> QED BY <1>1, <2>5
     DEF StampsAreOld, Older, Recovering, Asking, Switching, Building, Launching, NoTag
<1> QED
  BY <1>3, <1>4, <1>5, <1>6 DEF UpdaterParts
LEMMA UpdaterInvNext == UpdaterInv /\ [UpdaterNext]_updaterVars => UpdaterInv'
<1> SUFFICES ASSUME UpdaterInv, [UpdaterNext]_updaterVars PROVE UpdaterInv'
  OBVIOUS
<1>1. UpdaterTypeOK'
  BY UpdaterTypeNext
<1>2. UpdaterTypeOK /\ UpdaterFacts /\ UpdaterParts
  BY UpdaterTypesGiveFacts DEF UpdaterInv
<1> SUFFICES UpdaterParts'
  BY <1>1 DEF UpdaterInv
<1>3. ASSUME NEW tmpKept \in BOOLEAN, Crash(tmpKept) PROVE UpdaterParts'
  BY <1>2, <1>3, CrashKeeps
<1>4. CASE Recovery("watcher")
  <2>1. UNCHANGED <<remote, repoVars, dirVars, goal, boot, historyVars>> /\ watcher' =
      "watch"
    BY <1>2, <1>4, WatcherRecovers DEF UpdaterParts
  <2>2. Positions'
    BY <1>2, <1>4, <2>1
       DEF UpdaterParts, Positions, Recovery, RecoverInstall, RemoveInstall, RestoreBackup,
           Unmark, At
  <2>3. Numbers' /\ MarksAreGone' /\ Requests' /\ LaunchesWholeInstall'
    BY <1>2, <2>1
       DEF UpdaterParts, Numbers, MarksAreGone, Requests, LaunchesWholeInstall, repoVars,
           dirVars, historyVars
  <2>4. StampsAreOld' /\ NewBuild'
    BY <1>2, <2>1
       DEF UpdaterParts, StampsAreOld, NewBuild, Older, repoVars, dirVars, historyVars
  <2>5. TreeIsHeads' /\ FetchedIsReached'
    BY <1>2, <2>1
       DEF UpdaterParts, TreeIsHeads, FetchedIsReached, repoVars, historyVars
  <2> QED BY <2>2, <2>3, <2>4, <2>5 DEF UpdaterParts
<1>5. CASE Recovery("boot") \/ Resume \/ Compare \/ Mark \/ FirstBuild \/ Verify
  BY <1>2, <1>5, RecoveryKeeps, ResumeKeeps, CompareKeeps, MarkKeeps, FirstBuildKeeps,
     VerifyKeeps
<1>6. CASE Watch \/ Release
  BY <1>2, <1>6, WatchKeeps, ReleaseKeeps
<1>7. CASE \/ CleanLocks \/ Fetch \/ WriteTree \/ MoveHead \/ CheckoutFails \/ Verified
           \/ BackUp \/ Colcon \/ DropBackup \/ Prepare \/ Build \/ LaunchExits \/ LockAges
           \/ UNCHANGED updaterVars
  BY <1>2, <1>7, PlainStepsKeep
<1> QED
  BY <1>3, <1>4, <1>5, <1>6, <1>7 DEF UpdaterNext, BootStep

(* The updater's state keeps its ranges, and what marks an update in       *)
(* progress is gone wherever the updater is done (updater.sh, physicar.sh). *)
THEOREM UpdaterTypeCorrect == UpdaterSpec => []UpdaterTypeOK
<1>1. UpdaterInv => UpdaterTypeOK
  BY DEF UpdaterInv
<1> QED BY <1>1, UpdaterInvInit, UpdaterInvNext, PTL DEF UpdaterSpec

(* For any number of releases and crashes, wherever they fall: a boot that *)
(* met no failure launches a whole install/ of HEAD's revision, and what   *)
(* it fetched (verify_install, do_build, safe_update).                     *)
THEOREM LaunchIsAlwaysSound == UpdaterSpec => []LaunchIsSound
<1>1. UpdaterInv => LaunchIsSound
  <2>1. UpdaterInv => fetched \in Nat /\ head \in Nat
    BY RevisionsAreNumbers DEF UpdaterInv
  <2> QED
    BY <2>1
       DEF UpdaterInv, UpdaterParts, FetchedIsReached, LaunchesWholeInstall, LaunchIsSound,
           FetchedBootIsCurrent, Launching
<1> QED BY <1>1, UpdaterInvInit, UpdaterInvNext, PTL DEF UpdaterSpec

(* Under the running nodes neither process moves install/, the working     *)
(* tree or HEAD, though the background updater begins with a recovery.     *)
THEOREM LiveTreeAlwaysUntouched == UpdaterSpec => LiveTreeUntouched
<1> DEFINE Untouched == boot = "running" /\ boot' = "running" => UNCHANGED <<install, tree,
    head>>
<1>1. UpdaterInv /\ [UpdaterNext]_updaterVars => [Untouched]_updaterVars
  <2> SUFFICES ASSUME UpdaterInv, [UpdaterNext]_updaterVars, boot = "running", boot' =
      "running"
               PROVE  UNCHANGED <<install, tree, head>>
    OBVIOUS
  <2>1. CASE Recovery("watcher")
    BY <2>1, WatcherRecovers DEF UpdaterInv, UpdaterParts, repoVars, dirVars
  <2>2. CASE BootStep
    BY <2>2
      
          DEF BootStep, Recovery, RecoverInstall, RemoveInstall, RestoreBackup, Unmark, At,
              Resume,
           CleanLocks, Fetch, Compare, WriteTree, MoveHead, CheckoutFails, Verified, Mark,
           BackUp, Colcon, DropBackup, Prepare, FirstBuild, Verify, Build
  <2>3. CASE LaunchExits \/ Watch \/ Release \/ LockAges \/ UNCHANGED updaterVars
    BY <2>3 DEF LaunchExits, Watch, Release, LockAges, updaterVars, repoVars, dirVars
  <2>4. ASSUME NEW tmpKept \in BOOLEAN, Crash(tmpKept) PROVE FALSE
    BY <2>4 DEF Crash
  <2> QED BY <2>1, <2>2, <2>3, <2>4 DEF UpdaterNext
<1> QED BY <1>1, UpdaterInvInit, UpdaterInvNext, PTL DEF UpdaterSpec, LiveTreeUntouched
=============================================================================

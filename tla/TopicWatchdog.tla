---------------------------- MODULE TopicWatchdog ---------------------------
(***************************************************************************)
(* topic_watchdog_node.cpp in simulation, the only place that enables it:  *)
(* it sends SIGTERM to the process behind a topic that has gone silent and *)
(* to every watched process when simulation time jumps back; the launch    *)
(* file respawns what has died, the watchdog included. One thread spins    *)
(* the node, so a callback is an action. A tick is the check period.       *)
(***************************************************************************)
EXTENDS Ages

CONSTANTS
  Topics,         \* the watched topics
  Targets,        \* the kill patterns, one process each
  Target,         \* the kill pattern of a topic
  Timeout,        \* the time-out of a topic
  Grace,          \* startup_grace_
  Cooldown,       \* cooldown_
  JumpGuard,      \* the jump path's guard against jitter
  RespawnDelay,   \* of the launch file
  MaxSim          \* bound: simulation time

ASSUME WatchdogAssumption ==
  /\ Target \in [Topics -> Targets]
  /\ Timeout \in [Topics -> Nat \ {0}]
  /\ {Grace, Cooldown, JumpGuard, RespawnDelay, MaxSim} \subseteq Nat
  /\ JumpGuard <= RespawnDelay /\ JumpGuard <= Cooldown

VARIABLES
  dogUp,      \* the watchdog process runs
  startAge,   \* start_time_
  msgAge,     \* last_msg_time_
  killAge,    \* last_kill_time_, Cooldown for no entry
  prev,       \* last_sim_sec_
  checked,    \* the timer has fired in this tick
  sim,        \* simulation time as /clock shows it
  up,         \* the targets whose process runs
  downAge,    \* how long a process has been gone
  signalled,  \* the running processes that got SIGTERM
  stranded,   \* history: running processes older than a jump the watchdog can see
  staleAge    \* history: time since the last kill for silence, of any watchdog

dogVars == <<dogUp, startAge, msgAge, killAge, prev, checked>>
processVars == <<up, downAge, signalled>>
watchdogVars == <<dogVars, sim, processVars, stranded, staleAge>>

\* Two kills for silence are this far apart: a restarted watchdog has forgotten
\* the first, but waits for its grace.
Spacing == IF Grace < Cooldown THEN Grace ELSE Cooldown

WatchdogTypeOK ==
  /\ dogUp \in BOOLEAN /\ checked \in BOOLEAN
  /\ startAge \in 0 .. Grace
  /\ \A t \in Topics : msgAge[t] \in 0 .. Timeout[t]
  /\ killAge \in [Targets -> 0 .. Cooldown]
  /\ {prev, sim} \subseteq 0 .. MaxSim
  /\ signalled \subseteq up /\ stranded \subseteq up /\ up \subseteq Targets
  /\ downAge \in [Targets -> 0 .. RespawnDelay]
  /\ staleAge \in [Targets -> 0 .. Spacing]

\* TopicWatchdog(): an empty kill table, all topics just heard.
Constructed ==
  /\ startAge' = 0 /\ prev' = 0 /\ checked' = TRUE
  /\ msgAge' = [t \in Topics |-> 0]
  /\ killAge' = [g \in Targets |-> Cooldown]

WatchdogInit ==
  /\ dogUp = TRUE /\ startAge = 0 /\ prev = 0 /\ checked = TRUE
  /\ msgAge = [t \in Topics |-> 0]
  /\ killAge = [g \in Targets |-> Cooldown]
  /\ sim = 0
  /\ up = Targets /\ signalled = {} /\ stranded = {}
  /\ downAge = [g \in Targets |-> 0]
  /\ staleAge = [g \in Targets |-> Spacing]

-----------------------------------------------------------------------------
(* The watchdog                                                             *)

\* A message on a watched topic.
Message(t) ==
  /\ dogUp /\ Target[t] \in up
  /\ msgAge' = [msgAge EXCEPT ![t] = 0]
  /\ UNCHANGED <<dogUp, startAge, killAge, prev, checked, sim, processVars,
                 stranded, staleAge>>

Heard(topics) == [t \in Topics |-> IF t \in topics THEN 0 ELSE msgAge[t]]
TopicsOf(targets) == {t \in Topics : Target[t] \in targets}
Stamped(targets) == [g \in Targets |-> IF g \in targets THEN 0 ELSE killAge[g]]

\* kill_process: SIGTERM if there is a process, otherwise nothing happened.
Killed(targets) == targets \cap up

\* Mutant: the jump path respects the cool-down of silent topics.
CooledDown(g) == killAge[g] >= Cooldown
\* The jump path's guard: not killed within the last second.
JumpKills(g) == killAge[g] >= JumpGuard

JumpedBack == prev >= 1 /\ sim < prev

\* on_clock: simulation time went back.
OnClockJump ==
  /\ dogUp /\ JumpedBack
  /\ prev' = sim
  /\ LET killed == Killed({g \in Targets : JumpKills(g)}) IN
       /\ signalled' = signalled \cup killed
       /\ killAge' = Stamped(killed)
  /\ msgAge' = Heard(Topics)
  /\ UNCHANGED <<dogUp, startAge, checked, sim, up, downAge, stranded, staleAge>>

\* on_clock: time goes on, or the clock had not reached its first second.
OnClock ==
  /\ dogUp /\ prev # sim /\ ~JumpedBack
  /\ prev' = sim
  /\ UNCHANGED <<dogUp, startAge, msgAge, killAge, checked, sim, processVars,
                 stranded, staleAge>>

\* check() returns early during the grace.
GraceOver == startAge >= Grace

Silent(t) == msgAge[t] >= Timeout[t]

\* check: one kill for each silent topic's process that is not cooling down.
Overdue == {g \in Targets : killAge[g] >= Cooldown /\ \E t \in Topics :
                              Target[t] = g /\ Silent(t)}

\* Mutant: the table is written before the cool-down is looked at.
StampedAnyway(killed) == Stamped({Target[t] : t \in {u \in Topics : Silent(u)}})
\* last_kill_time_ of what was killed.
KillTable(killed) == Stamped(killed)

Check ==
  /\ dogUp /\ ~checked /\ checked' = TRUE
  /\ IF GraceOver
       THEN LET killed == Killed(Overdue) IN
              /\ signalled' = signalled \cup killed
              /\ killAge' = KillTable(killed)
              /\ msgAge' = Heard(TopicsOf(killed))
              /\ staleAge' = [g \in Targets |-> IF g \in killed THEN 0 ELSE staleAge[g]]
       ELSE UNCHANGED <<signalled, killAge, msgAge, staleAge>>
  /\ UNCHANGED <<dogUp, startAge, prev, sim, up, downAge, stranded>>

DogDies ==
  /\ dogUp /\ dogUp' = FALSE
  \* what the next watchdog knows nothing of
  /\ stranded' = {}
  /\ UNCHANGED <<startAge, msgAge, killAge, prev, checked, sim, processVars,
                 staleAge>>

DogRespawns ==
  /\ ~dogUp /\ dogUp' = TRUE
  /\ Constructed
  /\ UNCHANGED <<sim, processVars, stranded, staleAge>>

-----------------------------------------------------------------------------
(* The watched processes, the launch file and the simulator                 *)

\* A process ends: by itself, or at last by the SIGTERM it got.
Exit(g) ==
  /\ g \in up /\ up' = up \ {g}
  /\ signalled' = signalled \ {g} /\ stranded' = stranded \ {g}
  /\ downAge' = [downAge EXCEPT ![g] = 0]
  /\ UNCHANGED <<dogVars, sim, staleAge>>

RespawnTarget(g) ==
  /\ g \notin up /\ downAge[g] >= RespawnDelay
  /\ up' = up \cup {g}
  /\ UNCHANGED <<dogVars, sim, downAge, signalled, stranded, staleAge>>

\* A world starts: its clock starts anew. Processes that saw the old time are
\* stranded in it, if the watchdog can see the jump too.
WorldStarts ==
  /\ sim > 0 /\ sim' = 0
  /\ stranded' = IF dogUp /\ prev >= 1 THEN up ELSE stranded
  /\ UNCHANGED <<dogVars, processVars, staleAge>>

\* The timers that are due and /clock come first.
WatchdogTick ==
  /\ dogUp => checked /\ prev = sim
  /\ \A g \in Targets : g \in up \/ downAge[g] < RespawnDelay
  /\ startAge' = OneOlder(startAge, Grace)
  /\ msgAge' = [t \in Topics |-> OneOlder(msgAge[t], Timeout[t])]
  /\ killAge' = [g \in Targets |-> OneOlder(killAge[g], Cooldown)]
  /\ checked' = FALSE
  /\ sim' \in {sim, OneOlder(sim, MaxSim)}
  /\ downAge' = [g \in Targets |-> OneOlder(downAge[g], RespawnDelay)]
  /\ staleAge' = [g \in Targets |-> OneOlder(staleAge[g], Spacing)]
  /\ UNCHANGED <<dogUp, prev, up, signalled, stranded>>

WatchdogNext ==
  \/ \E t \in Topics : Message(t)
  \/ OnClockJump \/ OnClock \/ Check \/ DogDies \/ DogRespawns
  \/ \E g \in Targets : Exit(g) \/ RespawnTarget(g)
  \/ WorldStarts
  \/ WatchdogTick

\* Time passes, whatever else happens in between; timers, /clock and the launch
\* file do their part. Messages and the end of a process are owed by nobody.
WatchdogFairness ==
  /\ SF_watchdogVars(WatchdogTick)
  /\ WF_watchdogVars(OnClock \/ OnClockJump) /\ WF_watchdogVars(Check)
  /\ WF_watchdogVars(DogRespawns)
  /\ \A g \in Targets : WF_watchdogVars(RespawnTarget(g))

WatchdogSpec ==
  WatchdogInit /\ [][WatchdogNext]_watchdogVars /\ WatchdogFairness

-----------------------------------------------------------------------------
(* A process that lived through a jump of simulation time is always sent   *)
(* SIGTERM, the start-up grace, a recent kill and repeated jumps           *)
(* notwithstanding: the guard against jitter only ever skips a process     *)
(* that has its SIGTERM already (on_clock). The comment in on_clock tells  *)
(* of the EKF that was spared by the cool-down.                            *)
JumpSparesNobody == dogUp /\ prev = sim => stranded \subseteq signalled

(* Between two kills of a target for silence it has the cool-down, or the  *)
(* grace of a restarted watchdog, to come back and publish; also when the  *)
(* watchdog dies in between and forgets the first (check).                 *)
KillsAreSpaced ==
  [][\A g \in Targets :
       staleAge[g] < Spacing => staleAge'[g] >= staleAge[g]]_watchdogVars

(* A process that runs but has fallen silent is not left alone: a message  *)
(* comes, or it is sent SIGTERM, or it ends; cool-downs, clock jumps and   *)
(* restarts of the watchdog delay that but not for ever (check).           *)
SilenceIsAnswered ==
  \A t \in Topics :
    Silent(t) /\ Target[t] \in up ~> ~Silent(t) \/ Target[t] \notin up

(* A silent process is killed, but not before it had time to come back.    *)
KillsAreTimely == KillsAreSpaced /\ SilenceIsAnswered
=============================================================================

---------------------------- MODULE SpeedControl ----------------------------
(***************************************************************************)
(* The web server's speed commands (routers/hw.py): one-shot POSTs, POSTs  *)
(* held for a duration, WebSocket streams with a dead-man zero on close,   *)
(* and the displayed command state.  Everything runs on one asyncio loop,  *)
(* so the code between two awaits is one action.  The car is the lease     *)
(* that CommandLease promises and DriveLoop implements.                    *)
(*                                                                         *)
(* A task remembers the generation it was created under and only asks      *)
(* whether the counter has moved on since; it is modelled by that answer:  *)
(* current becomes FALSE at the next bump.  One tick is _KEEPALIVE_PERIOD. *)
(***************************************************************************)
EXTENDS Integers, FiniteSets, Ages

CONSTANTS
  Streams,       \* WebSocket connections
  Values,        \* nonzero speeds clients ask for
  Durations,     \* durations of a held POST, in ticks
  Grace,         \* _DEADMAN_GRACE in ticks
  MirrorTime,    \* the time-out of _cmd_mirror_expire in ticks
  Window,        \* the driver's cmd_timeout in ticks
  MaxTasks       \* bound: tasks of one kind in flight

ASSUME DurationAssumption == Durations \subseteq Nat \ {0}
ASSUME GraceAssumption == {Grace, MirrorTime, Window, MaxTasks} \subseteq Nat \ {0}
ASSUME ValueAssumption == 0 \notin Values
ASSUME StreamAssumption == {"nobody", "post", "hold", "dead_server"} \cap Streams = {}

VARIABLES
  server,     \* the web server is running
  holds,      \* _speed_hold tasks: [value, left, wake, current]
  mirrors,    \* _cmd_mirror_expire tasks: [left, current]
  deadmen,    \* _deadman_zero tasks: [stream, left, current]
  open,       \* streams whose handler runs
  sent,       \* streams that have sent a frame: "sent" of the handler
  shown,      \* cmd_state["speed"]
  standing,   \* the last value published on /speed
  moving, age,   \* the car's lease
  newest,     \* history: [by, value] of the newest client command
  deadFor     \* history: ticks since the newest command's stream closed

carVars == <<moving, age>>
taskVars == <<holds, mirrors, deadmen>>
speedVars == <<server, taskVars, open, sent, shown, standing, carVars, newest,
               deadFor>>

Car == INSTANCE CommandLease

Nobody == [by |-> "nobody", value |-> 0]

\* publish_speed: a command for the driver
Publish(v) ==
  /\ standing' = v
  /\ Car!Renew /\ moving' = (v # 0)

\* _bump_speed_gen and _drive_gen["speed"] += 1
Outdated(tasks) == {[t EXCEPT !.current = FALSE] : t \in tasks}

-----------------------------------------------------------------------------
SpeedInit ==
  /\ server = TRUE
  /\ holds = {} /\ mirrors = {} /\ deadmen = {}
  /\ open = {} /\ sent = {}
  /\ shown = 0 /\ standing = 0
  /\ Car!LeaseInit
  /\ newest = Nobody /\ deadFor = 0

\* _cmd_mirror_expire is scheduled for a one-shot command
Mirror(v) == IF v = 0 THEN {} ELSE {[left |-> MirrorTime, current |-> TRUE]}

\* set_speed without duration, or with value 0
PostSpeed(v) ==
  /\ server
  /\ v # 0 => Cardinality(mirrors) < MaxTasks
  /\ Publish(v)
  /\ shown' = v
  /\ holds' = Outdated(holds)
  /\ deadmen' = Outdated(deadmen)
  /\ mirrors' = Outdated(mirrors) \cup Mirror(v)
  /\ newest' = [by |-> "post", value |-> v] /\ deadFor' = 0
  /\ UNCHANGED <<server, open, sent>>

\* set_speed with duration: the new hold publishes at once a second time
PostHold(v, d) ==
  /\ server
  /\ Cardinality(holds) < MaxTasks
  /\ Publish(v)
  /\ shown' = v
  /\ holds' = Outdated(holds) \cup {[value |-> v, left |-> d, wake |-> 0, current |-> TRUE]}
  /\ deadmen' = Outdated(deadmen)
  /\ mirrors' = Outdated(mirrors)
  /\ newest' = [by |-> "hold", value |-> v] /\ deadFor' = 0
  /\ UNCHANGED <<server, open, sent>>

Connect(s) ==
  /\ server /\ s \notin open
  /\ open' = open \cup {s} /\ sent' = sent \ {s}
  /\ UNCHANGED <<server, taskVars, shown, standing, carVars, newest, deadFor>>

\* Mutant: frames do not supersede.
FrameKeepsGen(tasks) == tasks
\* a frame bumps both counters
FrameBump(tasks) == Outdated(tasks)

\* one frame of a stream
Frame(s, v) ==
  /\ server /\ s \in open
  /\ Publish(v)
  /\ shown' = v
  /\ holds' = FrameBump(holds)
  /\ deadmen' = FrameBump(deadmen)
  /\ mirrors' = FrameBump(mirrors)
  /\ sent' = sent \cup {s}
  /\ newest' = [by |-> s, value |-> v] /\ deadFor' = 0
  /\ UNCHANGED <<server, open>>

\* Mutant: a close schedules nothing.
NoDeadman(s) == {}
\* the finally block: _deadman_zero is scheduled under the generation of now
Deadman(s) ==
  IF s \in sent THEN {[stream |-> s, left |-> Grace, current |-> TRUE]} ELSE {}

Close(s) ==
  /\ server /\ s \in open
  /\ Cardinality(deadmen) < MaxTasks
  /\ deadmen' = deadmen \cup Deadman(s)
  /\ open' = open \ {s}
  /\ sent' = sent \ {s}
  /\ UNCHANGED <<server, holds, mirrors, shown, standing, carVars, newest, deadFor>>

-----------------------------------------------------------------------------
\* One turn of _speed_hold; the first comes right after the POST's publish.
HoldSuperseded(h) ==
  /\ server /\ h \in holds /\ ~h.current
  /\ holds' = holds \ {h}
  /\ UNCHANGED <<server, mirrors, deadmen, open, sent, shown, standing, carVars,
                 newest, deadFor>>

HoldStopped(h) ==
  /\ server /\ h \in holds /\ h.current /\ h.left = 0
  /\ holds' = holds \ {h}
  /\ Publish(0) /\ shown' = 0
  /\ UNCHANGED <<server, mirrors, deadmen, open, sent, newest, deadFor>>

\* the sleep until the next turn, one keep-alive period
Nap(h) == 1

HoldKeepsAlive(h) ==
  /\ server /\ h \in holds /\ h.current /\ h.left > 0 /\ h.wake = 0
  /\ Publish(h.value)
  /\ holds' = (holds \ {h}) \cup {[h EXCEPT !.wake = Nap(h)]}
  /\ UNCHANGED <<server, mirrors, deadmen, open, sent, shown, newest, deadFor>>

\* _deadman_zero wakes.  It bumps _speed_gen, but not _drive_gen.
DeadmanFires(t) ==
  /\ server /\ t \in deadmen /\ t.left = 0
  /\ deadmen' = deadmen \ {t}
  /\ IF t.current
     THEN /\ Publish(0) /\ shown' = 0
          /\ holds' = Outdated(holds) /\ mirrors' = Outdated(mirrors)
     ELSE UNCHANGED <<standing, carVars, shown, holds, mirrors>>
  /\ UNCHANGED <<server, open, sent, newest, deadFor>>

\* _cmd_mirror_expire wakes
MirrorExpires(t) ==
  /\ server /\ t \in mirrors /\ t.left = 0
  /\ mirrors' = mirrors \ {t}
  /\ shown' = IF t.current THEN 0 ELSE shown
  /\ UNCHANGED <<server, holds, deadmen, open, sent, standing, carVars, newest,
                 deadFor>>

\* The server process dies; systemd restarts it.  Its streams are gone, and
\* with them everything it had scheduled.
ServerDie ==
  /\ server
  /\ server' = FALSE
  /\ holds' = {} /\ mirrors' = {} /\ deadmen' = {} /\ open' = {} /\ sent' = {}
  /\ shown' = 0
  /\ newest' = [newest EXCEPT !.by = "dead_server"] /\ deadFor' = 0
  /\ UNCHANGED <<standing, carVars>>

ServerStart ==
  /\ ~server
  /\ server' = TRUE
  /\ UNCHANGED <<taskVars, open, sent, shown, standing, carVars, newest, deadFor>>

-----------------------------------------------------------------------------
\* The loop is not blocked: what is due runs before time goes on.
NothingDue ==
  /\ \A h \in holds : h.current /\ h.left > 0 /\ h.wake > 0
  /\ \A t \in mirrors \cup deadmen : t.left > 0

Wait(tasks) == {[t EXCEPT !.left = @ - 1] : t \in tasks}
WaitHold(h) == [h EXCEPT !.left = @ - 1, !.wake = @ - 1]

\* The stream of the newest command is closed.
Orphaned == newest.by \in Streams /\ newest.by \notin open

SpeedElapse ==
  /\ server => NothingDue
  /\ Car!Elapse
  /\ holds' = {WaitHold(h) : h \in holds}
  /\ mirrors' = Wait(mirrors) /\ deadmen' = Wait(deadmen)
  /\ deadFor' = IF Orphaned THEN OneOlder(deadFor, Grace + 1) ELSE 0
  /\ UNCHANGED <<server, open, sent, shown, standing, newest>>

\* The driver's watchdog: the lease has run out.
Revoked ==
  /\ moving /\ age > Window
  /\ Car!Revoke
  /\ UNCHANGED <<server, taskVars, open, sent, shown, standing, newest, deadFor>>

SpeedNext ==
  \/ \E v \in Values \cup {0} : PostSpeed(v)
  \/ \E v \in Values, d \in Durations : PostHold(v, d)
  \/ \E s \in Streams : Connect(s) \/ Close(s)
  \/ \E s \in Streams, v \in Values \cup {0} : Frame(s, v)
  \/ \E h \in holds : HoldSuperseded(h) \/ HoldStopped(h) \/ HoldKeepsAlive(h)
  \/ \E t \in deadmen : DeadmanFires(t)
  \/ \E t \in mirrors : MirrorExpires(t)
  \/ ServerDie
  \/ ServerStart
  \/ SpeedElapse
  \/ Revoked

SpeedSpec == SpeedInit /\ [][SpeedNext]_speedVars

-----------------------------------------------------------------------------

\* "any new command/stop instantly supersedes an in-flight hold": nothing the
\* server scheduled for an older command ever puts its value back.
NewestCommandWins == standing \in {0, newest.value}

\* A hold is denser than the driver's window: while the newest command is
\* held, the car does not stop for want of a renewal.
HoldNeverLapses == \A h \in holds : h.current => moving /\ standing = h.value

\* The newest command rules, over all that older ones scheduled, and for as
\* long as it is held.
NewestCommandRules == NewestCommandWins /\ HoldNeverLapses

\* "a genuinely dead client still stops _DEADMAN_GRACE later": the command of
\* a closed stream does not outlive the grace.
DeadClientStops == deadFor > Grace => ~moving /\ standing = 0

=============================================================================

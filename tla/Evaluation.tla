----------------------------- MODULE Evaluation -----------------------------
(***************************************************************************)
(* routers/evaluation.py: the simulator's evaluation session starts the    *)
(* student's program with POST /evaluation/run, reads its output as the    *)
(* body of the response, and ends it with POST /evaluation/stop.           *)
(*                                                                         *)
(* Everything here runs on one asyncio loop. What a request awaits is      *)
(* visible as a phase: the start of the process under _lock, the output,   *)
(* the two grace periods of _kill. A run is one request that got as far as *)
(* starting a process; the process is the leader of a group of its own,    *)
(* and may leave a child behind that keeps the output pipes open.          *)
(***************************************************************************)
CONSTANTS
  Runs,   \* bound: the runs requested in a behaviour
  Stops,  \* stop requests that may be under way together
  None

ASSUME EvaluationAssumption == None \notin Runs /\ Runs \cap Stops = {}

VARIABLES
  starting, \* the runs that hold _lock and await their process: at most one
  proc,     \* _proc: the run it belongs to
  exitCode, \* _exit_code: the run whose code it is
  leader,   \* the process of a run: none, alive or exited
  child,    \* the runs with another process of the group alive
  signal,   \* the strongest signal the group got: none, term or kill
  stream,   \* the response body: none, ready, on, or over
  guard,    \* the runs whose backstop task is waiting or killing
  finish,   \* the runs with a _finish task
  kills,    \* what a backstop or a stop request does in _kill
  recorded, \* history: the runs whose exit code was recorded
  late      \* history: the runs whose relay left after the process had exited

evalVars == <<starting, proc, exitCode, leader, child, signal, stream, guard,
              finish, kills, recorded, late>>

processVars == <<leader, child, signal>>
relayHistory == <<recorded, late>>

Idle == [of |-> None, phase |-> "idle"]
Kills == {Idle} \cup [of : Runs, phase : {"term", "kill"}]

EvaluationTypeOK ==
  /\ {proc, exitCode} \subseteq Runs \cup {None}
  /\ leader \in [Runs -> {"none", "alive", "exited"}]
  /\ signal \in [Runs -> {"none", "term", "kill"}]
  /\ stream \in [Runs -> {"none", "ready", "on", "over"}]
  /\ kills \in [Runs \cup Stops -> Kills]
  /\ starting \subseteq Runs /\ child \subseteq Runs /\ finish \subseteq Runs
  /\ recorded \subseteq Runs /\ late \subseteq Runs
  \* a backstop is its own run's, and lives no longer than the run is watched
  /\ \A r \in Runs : kills[r] # Idle => kills[r].of = r /\ r \in guard
  /\ \A r \in guard : stream[r] = "on" \/ leader[r] = "alive" \/ r \in finish

EvaluationInit ==
  /\ starting = {} /\ proc = None /\ exitCode = None
  /\ leader = [r \in Runs |-> "none"] /\ child = {}
  /\ signal = [r \in Runs |-> "none"]
  /\ stream = [r \in Runs |-> "none"]
  /\ guard = {} /\ finish = {}
  /\ kills = [k \in Runs \cup Stops |-> Idle]
  /\ recorded = {} /\ late = {}

-----------------------------------------------------------------------------
(* POST /evaluation/run                                                     *)

\* _alive(): _proc has no return code yet.
Alive == proc # None /\ leader[proc] = "alive"

\* Mutant: the check without the lock around it.
NotAlive == ~Alive
\* The critical section is free and nothing runs (otherwise 409).
MayStart == starting = {} /\ ~Alive

\* A request enters the critical section and awaits the new process.
Run(r) ==
  /\ stream[r] = "none" /\ leader[r] = "none" /\ r \notin starting
  /\ MayStart
  /\ starting' = starting \cup {r}
  /\ UNCHANGED <<proc, exitCode, processVars, stream, guard, finish, kills,
                 relayHistory>>

\* The process is there; the request leaves the critical section and answers.
Started(r) ==
  /\ r \in starting
  /\ starting' = starting \ {r} /\ proc' = r /\ exitCode' = None
  /\ leader' = [leader EXCEPT ![r] = "alive"]
  /\ stream' = [stream EXCEPT ![r] = "ready"]
  /\ UNCHANGED <<child, signal, guard, finish, kills, relayHistory>>

\* The process cannot be started: the exception ends the request.
StartFails(r) ==
  /\ r \in starting
  /\ starting' = starting \ {r} /\ stream' = [stream EXCEPT ![r] = "over"]
  /\ UNCHANGED <<proc, exitCode, processVars, guard, finish, kills,
                 relayHistory>>

\* The body is asked for: its generator starts the pumps and the backstop.
StreamBegins(r) ==
  /\ stream[r] = "ready"
  /\ stream' = [stream EXCEPT ![r] = "on"] /\ guard' = guard \cup {r}
  /\ UNCHANGED <<starting, proc, exitCode, processVars, finish, kills, relayHistory>>

\* The relay went away before: the generator, and the backstop, never start.
Unheard(r) ==
  /\ stream[r] = "ready"
  /\ stream' = [stream EXCEPT ![r] = "over"]
  /\ UNCHANGED <<starting, proc, exitCode, processVars, guard, finish, kills,
                 relayHistory>>

\* guard.cancel(), wherever the backstop is.
Cancelled(r) == guard' = guard \ {r} /\ kills' = [kills EXCEPT ![r] = Idle]

\* Process and pumps are done: the code is recorded, the exit frame is sent.
StreamEnds(r) ==
  /\ stream[r] = "on" /\ leader[r] = "exited" /\ r \notin child
  /\ stream' = [stream EXCEPT ![r] = "over"]
  /\ exitCode' = r /\ recorded' = recorded \cup {r}
  /\ Cancelled(r)
  /\ UNCHANGED <<starting, proc, processVars, finish, late>>

\* Mutant: the backstop is cancelled with the stream, as the pumps are.
NobodyWatches(r) == Cancelled(r) /\ UNCHANGED <<finish, late>>
\* finally: a process that still runs is left to _finish and the backstop.
LeftAlone(r) ==
  IF leader[r] = "alive"
    THEN finish' = finish \cup {r} /\ UNCHANGED <<guard, kills, late>>
    ELSE Cancelled(r) /\ late' = late \cup {r} /\ UNCHANGED finish

\* The relay goes away while the body is being sent.
RelayLeaves(r) ==
  /\ stream[r] = "on"
  /\ stream' = [stream EXCEPT ![r] = "over"]
  /\ LeftAlone(r)
  /\ UNCHANGED <<starting, proc, exitCode, processVars, recorded>>

\* _finish: the process has exited.
Finish(r) ==
  /\ r \in finish /\ leader[r] = "exited"
  /\ finish' = finish \ {r}
  /\ exitCode' = r /\ recorded' = recorded \cup {r}
  /\ Cancelled(r)
  /\ UNCHANGED <<starting, proc, processVars, stream, late>>

-----------------------------------------------------------------------------
(* _kill, called by the backstop of a run and by POST /evaluation/stop.     *)

\* SIGTERM to the group, unless the leader is gone already.
Terminate(k, r) ==
  /\ kills[k] = Idle /\ leader[r] = "alive"
  /\ kills' = [kills EXCEPT ![k] = [of |-> r, phase |-> "term"]]
  /\ signal' = [signal EXCEPT ![r] = IF @ = "kill" THEN @ ELSE "term"]

\* The wall limit is over.
Backstop(r) ==
  /\ r \in guard /\ Terminate(r, r)
  /\ UNCHANGED <<starting, proc, exitCode, leader, child, stream, guard, finish,
                 relayHistory>>

\* A stop request takes the process that is there now.
Stop(s) ==
  /\ Alive /\ Terminate(s, proc)
  /\ UNCHANGED <<starting, proc, exitCode, leader, child, stream, guard, finish,
                 relayHistory>>

\* Mutant: SIGTERM is all the process gets.
GivesUp(k) == kills' = [kills EXCEPT ![k] = Idle] /\ UNCHANGED signal
\* The grace of SIGTERM is over: SIGKILL to the group.
Escalates(k) ==
  /\ kills' = [kills EXCEPT ![k].phase = "kill"]
  /\ signal' = [signal EXCEPT ![kills[k].of] = "kill"]

GraceOver(k) ==
  /\ kills[k].phase = "term" /\ leader[kills[k].of] = "alive"
  /\ Escalates(k)
  /\ UNCHANGED <<starting, proc, exitCode, leader, child, stream, guard, finish,
                 relayHistory>>

\* proc.wait() returns: _kill is over, and with it the request or the backstop.
Gone(k) ==
  /\ kills[k] # Idle /\ leader[kills[k].of] = "exited"
  /\ kills' = [kills EXCEPT ![k] = Idle]
  /\ guard' = guard \ {k}
  /\ UNCHANGED <<starting, proc, exitCode, processVars, stream, finish, relayHistory>>

\* SIGKILL had a second and did not do: _kill is over all the same.
TimesOut(k) ==
  /\ kills[k].phase = "kill" /\ leader[kills[k].of] = "alive"
  /\ kills' = [kills EXCEPT ![k] = Idle]
  /\ guard' = guard \ {k}
  /\ UNCHANGED <<starting, proc, exitCode, processVars, stream, finish, relayHistory>>

\* The process exits under its backstop's wait, before the wall limit.
BackstopReturns(r) ==
  /\ r \in guard /\ kills[r] = Idle /\ leader[r] = "exited"
  /\ guard' = guard \ {r}
  /\ UNCHANGED <<starting, proc, exitCode, processVars, stream, finish, kills,
                 relayHistory>>

-----------------------------------------------------------------------------
(* The student's program: it may fork, exit at any time, or ignore SIGTERM. *)

Forks(r) ==
  /\ leader[r] = "alive" /\ signal[r] # "kill" /\ child' = child \cup {r}
  /\ UNCHANGED <<starting, proc, exitCode, leader, signal, stream, guard, finish,
                 kills, relayHistory>>

Exits(r) ==
  /\ leader[r] = "alive" /\ leader' = [leader EXCEPT ![r] = "exited"]
  /\ UNCHANGED <<starting, proc, exitCode, child, signal, stream, guard, finish,
                 kills, relayHistory>>

ChildExits(r) ==
  /\ r \in child /\ child' = child \ {r}
  /\ UNCHANGED <<starting, proc, exitCode, leader, signal, stream, guard, finish,
                 kills, relayHistory>>

EvaluationNext ==
  \/ \E r \in Runs :
       \/ Run(r) \/ Started(r) \/ StartFails(r)
       \/ StreamBegins(r) \/ Unheard(r) \/ StreamEnds(r) \/ RelayLeaves(r)
       \/ Finish(r) \/ Backstop(r) \/ BackstopReturns(r)
       \/ Forks(r) \/ Exits(r) \/ ChildExits(r)
  \/ \E s \in Stops : Stop(s)
  \/ \E k \in Runs \cup Stops : GraceOver(k) \/ Gone(k) \/ TimesOut(k)

\* The loop runs what is due, the wall limit and the graces end, and a process
\* that got SIGKILL exits. A program need not end by itself, nor by SIGTERM.
EvaluationFairness ==
  /\ \A r \in Runs :
       /\ WF_evalVars(StreamEnds(r))
       /\ WF_evalVars(Finish(r))
       /\ WF_evalVars(Backstop(r))
       /\ WF_evalVars(signal[r] = "kill" /\ Exits(r))
  /\ \A k \in Runs \cup Stops :
       WF_evalVars(GraceOver(k)) /\ WF_evalVars(Gone(k) \/ TimesOut(k))

EvaluationSpec ==
  EvaluationInit /\ [][EvaluationNext]_evalVars /\ EvaluationFairness

-----------------------------------------------------------------------------
(* However run and stop requests overlap, at most one student program      *)
(* drives the car: the check and the start are one critical section, and   *)
(* a stop cannot make room in the middle of it (run, stop).                *)
OneRunAtATime ==
  \A r, s \in Runs : leader[r] = "alive" /\ leader[s] = "alive" => r = s

(* A stop request returns when the program it found is gone, or a grace    *)
(* after SIGKILL went to its whole group. As long as such a program lives  *)
(* on no other is started, however stops and backstops overlap (stop,      *)
(* _kill, run).                                                            *)
StopMeansKilled ==
  [][\A s \in Stops :
       kills[s] # Idle /\ kills'[s] = Idle =>
         LET r == kills[s].of IN
         leader[r] = "exited" \/ (signal[r] = "kill" /\ Alive /\ ~MayStart)]_evalVars

(* A stop request is answered, whatever the program does with SIGTERM and  *)
(* whoever else is killing it (_kill).                                     *)
StopReturns == \A s \in Stops : kills[s] # Idle ~> kills[s] = Idle

(* What a stop request was sent for ends, also when the request has been   *)
(* answered before (stop, _kill).                                          *)
StopEndsProgram ==
  \A r \in Runs : (\E s \in Stops : kills[s].of = r) ~> leader[r] = "exited"

(* A program whose output was once streamed ends, at the latest by the     *)
(* wall limit, and also when the relay leaves first (gen, backstop).       *)
EveryRunEnds == \A r \in Runs : stream[r] = "on" ~> leader[r] = "exited"

(* The exit code of a program is recorded for /status by whoever is left   *)
(* to see it end; the exceptions are a relay that leaves between the exit  *)
(* and the last output, and output kept open by a child (gen, _finish).    *)
ExitCodeIsRecorded ==
  \A r \in Runs :
    stream[r] = "on" ~> r \in recorded \cup late \/ r \in child

(* Neither a stop request nor a streamed program goes on for ever, nor     *)
(* does the wait for how it ended.                                         *)
EverythingEnds ==
  StopReturns /\ StopEndsProgram /\ EveryRunEnds /\ ExitCodeIsRecorded
=============================================================================

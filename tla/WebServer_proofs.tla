------------------------- MODULE WebServer_proofs --------------------------
(***************************************************************************)
(* The web server and its tool server, for any number of clients, tasks,   *)
(* chat sessions, threads and requests.                                    *)
(*   - Speed commands: for every grace, mirror time and driver window.     *)
(*   - Evaluations: never two student programs at a time, and no stop      *)
(*     returns before the program it found is gone or was sent SIGKILL.    *)
(*   - Wake tickets: for every size of the tables, what was answered of a  *)
(*     ticket stays so.                                                    *)
(***************************************************************************)
EXTENDS SpeedControl, Evaluation, WakeTickets, SequenceTheorems, TLAPS

-----------------------------------------------------------------------------
\* Speed commands

Holds == [value : Values, left : Nat, wake : {0, 1}, current : BOOLEAN]
Deadmen == [stream : Streams, left : Nat, current : BOOLEAN]
Commands == [by : Streams \cup {"nobody", "post", "hold", "dead_server"},
             value : Values \cup {0}]

SpeedTypes ==
  /\ server \in BOOLEAN
  /\ age \in Nat /\ deadFor \in Nat
  /\ holds \subseteq Holds /\ deadmen \subseteq Deadmen
  /\ newest \in Commands
  /\ ~server => holds = {} /\ deadmen = {} /\ newest.by \notin Streams
  /\ sent \subseteq open

\* Only what the newest command asked for, or a stop, is ever published.
StandsForNewest ==
  /\ standing \in {0, newest.value}
  /\ moving => standing # 0

\* A hold that is not superseded is the newest command's, the only one, and on time.
HoldIsNewest ==
  \A h \in holds : h.current =>
    /\ newest = [by |-> "hold", value |-> h.value]
    /\ moving /\ standing = h.value
    /\ age + h.wake <= 1
    /\ \A g \in holds : g.current => g = h

\* A stream that has closed since its frame has a dead man's task that is still valid
\* and in time, or the car has been stopped.
Guarded ==
  /\ deadFor # 0 => newest.by \in Streams /\ newest.by \notin sent
  /\ newest.by \in Streams /\ newest.by \notin sent =>
       \/ standing = 0
       \/ \E t \in deadmen : t.current /\ t.left + deadFor <= Grace

SpeedInv == SpeedTypes /\ StandsForNewest /\ HoldIsNewest /\ Guarded

LEMMA TimesArePositive == Grace \in Nat \ {0} /\ Window \in Nat \ {0}
  BY GraceAssumption

LEMMA OneTickOn ==
  ASSUME NEW left \in Nat, NEW since \in Nat, NEW next \in Nat, NEW limit \in Nat,
         left + since <= limit, next <= since + 1
  PROVE  (left - 1) + next <= limit
  OBVIOUS

\* What a newer command does to the tasks of older ones.
LEMMA OutdatedHolds ==
  ASSUME NEW S \in SUBSET Holds
  PROVE  Outdated(S) \subseteq Holds /\ \A h \in Outdated(S) : ~h.current
  BY DEF Outdated, Holds

LEMMA OutdatedDeadmen ==
  ASSUME NEW S \in SUBSET Deadmen
  PROVE  Outdated(S) \subseteq Deadmen
  BY DEF Outdated, Deadmen

LEMMA SpeedInvInit == SpeedInit => SpeedInv
<1> SUFFICES ASSUME SpeedInit PROVE SpeedInv
  OBVIOUS
<1>1. age \in Nat
  BY TimesArePositive DEF SpeedInit, Car!LeaseInit, Car!LeaseCap
<1>2. newest.by \notin Streams
  BY StreamAssumption DEF SpeedInit, Nobody
<1>3. SpeedTypes
  BY <1>1, <1>2 DEF SpeedInit, SpeedTypes, Nobody, Commands
<1> QED BY <1>2, <1>3
  DEF SpeedInit, SpeedInv, StandsForNewest, HoldIsNewest, Guarded, Nobody, Car!LeaseInit

LEMMA SpeedInvNext == SpeedInv /\ [SpeedNext]_speedVars => SpeedInv'
<1> SUFFICES ASSUME SpeedInv, [SpeedNext]_speedVars PROVE SpeedInv'
  OBVIOUS
<1> USE DEF SpeedInv, SpeedTypes
<1>1. ASSUME NEW v \in Values \cup {0}, PostSpeed(v) PROVE SpeedInv'
  <2>1. /\ holds' = Outdated(holds) /\ deadmen' = Outdated(deadmen)
        /\ age' = 0 /\ deadFor' = 0 /\ standing' = v /\ moving' = (v # 0)
        /\ newest' = [by |-> "post", value |-> v]
        /\ server /\ UNCHANGED <<server, open, sent>>
    BY <1>1 DEF PostSpeed, Publish, Car!Renew
  <2>2. newest' \in Commands /\ newest'.by \notin Streams /\ newest'.value = v
    BY <2>1, StreamAssumption DEF Commands
  <2>3. SpeedTypes'
    BY <2>1, <2>2, OutdatedHolds, OutdatedDeadmen
  <2> QED BY <2>1, <2>2, <2>3, OutdatedHolds DEF StandsForNewest, HoldIsNewest, Guarded
<1>2. ASSUME NEW v \in Values, NEW d \in Durations, PostHold(v, d) PROVE SpeedInv'
  <2> DEFINE h == [value |-> v, left |-> d, wake |-> 0, current |-> TRUE]
  <2>1. /\ holds' = Outdated(holds) \cup {h} /\ deadmen' = Outdated(deadmen)
        /\ age' = 0 /\ deadFor' = 0 /\ standing' = v /\ moving' = (v # 0)
        /\ newest' = [by |-> "hold", value |-> v]
        /\ server /\ UNCHANGED <<server, open, sent>>
    BY <1>2 DEF PostHold, Publish, Car!Renew
  <2>2. newest' \in Commands /\ newest'.by \notin Streams /\ newest'.value = v
    BY <2>1, StreamAssumption DEF Commands
  <2>3. h \in Holds
    BY DurationAssumption DEF Holds
  <2>4. SpeedTypes'
    BY <2>1, <2>2, <2>3, OutdatedHolds, OutdatedDeadmen
  <2>5. HoldIsNewest'
    <3>1. \A g \in holds' : g.current => g = h
      BY <2>1, OutdatedHolds
    <3>2. h.value = v /\ h.wake = 0 /\ v # 0
      BY ValueAssumption
    <3>3. age' + h.wake <= 1
      BY <2>1, <3>2
    <3>4. newest' = [by |-> "hold", value |-> h.value] /\ moving' /\ standing' = h.value
      BY <2>1, <3>2
    <3> QED BY <3>1, <3>3, <3>4 DEF HoldIsNewest
  <2> QED BY <2>1, <2>2, <2>4, <2>5 DEF StandsForNewest, Guarded
<1>3. ASSUME NEW s \in Streams, Connect(s) PROVE SpeedInv'
  BY <1>3 DEF Connect, taskVars, carVars, StandsForNewest, HoldIsNewest, Guarded
<1>4. ASSUME NEW s \in Streams, Close(s) PROVE SpeedInv'
  <2>1. /\ deadmen' = deadmen \cup Deadman(s)
        /\ open' = open \ {s} /\ sent' = sent \ {s}
        /\ server /\ UNCHANGED <<server, holds, standing, moving, age, newest, deadFor>>
    BY <1>4 DEF Close, carVars
  <2>2. Deadman(s) \subseteq Deadmen
    <3>1. [stream |-> s, left |-> Grace, current |-> TRUE] \in Deadmen
      BY TimesArePositive DEF Deadmen
    <3> QED BY <3>1 DEF Deadman
  <2>3. SpeedTypes'
    BY <2>1, <2>2
  <2>4. Guarded'
    <3>1. CASE newest.by = s /\ s \in sent
      <4> DEFINE t == [stream |-> s, left |-> Grace, current |-> TRUE]
      <4>1. t \in deadmen'
        BY <2>1, <3>1 DEF Deadman
      <4>2. deadFor = 0
        BY <3>1 DEF Guarded
      <4>3. t.current /\ t.left + deadFor' <= Grace
        BY <2>1, <4>2, TimesArePositive
      <4> QED BY <2>1, <3>1, <4>1, <4>2, <4>3 DEF Guarded
    <3>2. CASE ~(newest.by = s /\ s \in sent)
      BY <2>1, <3>2 DEF Guarded
    <3> QED BY <3>1, <3>2
  <2> QED BY <2>1, <2>3, <2>4 DEF StandsForNewest, HoldIsNewest
<1>5. ASSUME NEW s \in Streams, NEW v \in Values \cup {0}, Frame(s, v) PROVE SpeedInv'
  <2>1. /\ holds' = Outdated(holds) /\ deadmen' = Outdated(deadmen)
        /\ age' = 0 /\ deadFor' = 0 /\ standing' = v /\ moving' = (v # 0)
        /\ newest' = [by |-> s, value |-> v] /\ sent' = sent \cup {s} /\ s \in open
        /\ server /\ UNCHANGED <<server, open>>
    BY <1>5 DEF Frame, FrameBump, Publish, Car!Renew
  <2>2. newest' \in Commands /\ newest'.by \in sent' /\ newest'.value = v
    BY <2>1, StreamAssumption DEF Commands
  <2>3. SpeedTypes'
    BY <2>1, <2>2, OutdatedHolds, OutdatedDeadmen
  <2> QED BY <2>1, <2>2, <2>3, OutdatedHolds DEF StandsForNewest, HoldIsNewest, Guarded
<1>6. ASSUME NEW h \in holds, HoldSuperseded(h) PROVE SpeedInv'
  BY <1>6 DEF HoldSuperseded, carVars, StandsForNewest, HoldIsNewest, Guarded
<1>7. ASSUME NEW h \in holds, HoldStopped(h) PROVE SpeedInv'
  <2>1. /\ h.current /\ holds' = holds \ {h}
        /\ age' = 0 /\ standing' = 0 /\ moving' = FALSE
        /\ UNCHANGED <<server, deadmen, open, sent, newest, deadFor>>
    BY <1>7 DEF HoldStopped, Publish, Car!Renew
  <2>2. newest.by = "hold"
    BY <2>1 DEF HoldIsNewest
  <2>3. \A g \in holds' : ~g.current
    BY <2>1 DEF HoldIsNewest
  <2> QED BY <2>1, <2>2, <2>3 DEF StandsForNewest, HoldIsNewest, Guarded
<1>8. ASSUME NEW h \in holds, HoldKeepsAlive(h) PROVE SpeedInv'
  <2> DEFINE g == [h EXCEPT !.wake = 1]
  <2>1. /\ h.current /\ holds' = (holds \ {h}) \cup {g}
        /\ age' = 0 /\ standing' = h.value /\ moving' = (h.value # 0)
        /\ server /\ UNCHANGED <<server, deadmen, open, sent, newest, deadFor>>
    BY <1>8 DEF HoldKeepsAlive, Nap, Publish, Car!Renew
  <2>2. g \in Holds /\ g.value = h.value /\ g.wake = 1
    BY DEF Holds
  <2>3. newest = [by |-> "hold", value |-> h.value] /\ standing = h.value /\ moving
    BY <2>1 DEF HoldIsNewest
  <2>4. SpeedTypes'
    BY <2>1, <2>2
  <2>5. HoldIsNewest'
    <3>1. \A k \in holds' : k.current => k = g
      BY <2>1 DEF HoldIsNewest
    <3>2. h.value # 0
      BY ValueAssumption DEF Holds
    <3>3. age' + g.wake <= 1
      BY <2>1, <2>2
    <3>4. newest' = [by |-> "hold", value |-> g.value] /\ moving' /\ standing' = g.value
      BY <2>1, <2>2, <2>3, <3>2
    <3> QED BY <3>1, <3>3, <3>4 DEF HoldIsNewest
  <2> QED BY <2>1, <2>3, <2>4, <2>5 DEF StandsForNewest, Guarded
<1>9. ASSUME NEW t \in deadmen, DeadmanFires(t) PROVE SpeedInv'
  <2>1. deadmen' = deadmen \ {t} /\ UNCHANGED <<server, open, sent, newest, deadFor>>
    BY <1>9 DEF DeadmanFires
  <2>2. CASE t.current
    <3>1. /\ holds' = Outdated(holds)
          /\ age' = 0 /\ standing' = 0 /\ moving' = FALSE
      BY <1>9, <2>2 DEF DeadmanFires, Publish, Car!Renew
    <3>2. ~server => holds' = {}
      BY <3>1 DEF Outdated
    <3>3. SpeedTypes'
      BY <2>1, <3>1, <3>2, OutdatedHolds
    <3> QED BY <2>1, <3>1, <3>3, OutdatedHolds
      DEF StandsForNewest, HoldIsNewest, Guarded
  <2>3. CASE ~t.current
    <3>1. UNCHANGED <<standing, moving, age, holds>>
      BY <1>9, <2>3 DEF DeadmanFires, carVars
    <3>2. Guarded'
      BY <2>1, <2>3, <3>1 DEF Guarded
    <3> QED BY <2>1, <3>1, <3>2 DEF StandsForNewest, HoldIsNewest
  <2> QED BY <2>2, <2>3
<1>10. ASSUME NEW t \in mirrors, MirrorExpires(t) PROVE SpeedInv'
  BY <1>10 DEF MirrorExpires, carVars, StandsForNewest, HoldIsNewest, Guarded
<1>11. CASE ServerDie
  <2>1. /\ ~server' /\ holds' = {} /\ deadmen' = {} /\ open' = {} /\ sent' = {}
        /\ newest' = [newest EXCEPT !.by = "dead_server"] /\ deadFor' = 0
        /\ UNCHANGED <<standing, moving, age>>
    BY <1>11 DEF ServerDie, carVars
  <2>2. /\ newest' \in Commands /\ newest'.by \notin Streams
        /\ newest'.value = newest.value
    BY <2>1, StreamAssumption DEF Commands
  <2>3. server' \in BOOLEAN
    BY <1>11 DEF ServerDie
  <2> QED BY <2>1, <2>2, <2>3 DEF StandsForNewest, HoldIsNewest, Guarded
<1>12. CASE ServerStart
  BY <1>12 DEF ServerStart, taskVars, carVars, StandsForNewest, HoldIsNewest, Guarded
<1>13. CASE SpeedElapse
  <2>1. /\ server => NothingDue
        /\ holds' = {WaitHold(h) : h \in holds} /\ deadmen' = Wait(deadmen)
        /\ deadFor' = IF Orphaned THEN OneOlder(deadFor, Grace + 1) ELSE 0
        /\ UNCHANGED <<server, open, sent, standing, moving, newest>>
    BY <1>13 DEF SpeedElapse, Car!Elapse
  <2>2. age' \in Nat /\ age' <= age + 1
    BY <1>13, TimesArePositive DEF SpeedElapse, Car!Elapse, Car!LeaseCap
  <2>3. ASSUME NEW g \in holds
        PROVE  /\ WaitHold(g) \in Holds /\ g.current /\ WaitHold(g).value = g.value
               /\ WaitHold(g).wake = 0 /\ g.wake = 1
    <3>1. g.current /\ g.left > 0 /\ g.wake > 0
      BY <2>1 DEF NothingDue
    <3>2. g \in Holds /\ g.left - 1 \in Nat /\ g.wake = 1 /\ g.wake - 1 = 0
      BY <3>1 DEF Holds
    <3> QED BY <3>1, <3>2 DEF WaitHold, Holds
  <2>4. ASSUME NEW t \in deadmen
        PROVE  /\ [t EXCEPT !.left = @ - 1] \in Deadmen
               /\ [t EXCEPT !.left = @ - 1].left = t.left - 1
               /\ [t EXCEPT !.left = @ - 1].current = t.current
               /\ t.left \in Nat
    <3>1. t.left > 0
      BY <2>1 DEF NothingDue
    <3>2. t \in Deadmen /\ t.left \in Nat /\ t.left - 1 \in Nat
      BY <3>1 DEF Deadmen
    <3> QED BY <3>2 DEF Deadmen
  <2>5. holds' \subseteq Holds /\ (~server => holds' = {})
    BY <2>1, <2>3
  <2>6. deadmen' \subseteq Deadmen /\ (~server => deadmen' = {})
    BY <2>1, <2>4 DEF Wait
  <2>7. deadFor' \in Nat /\ deadFor' <= deadFor + 1
    BY <2>1, TimesArePositive DEF OneOlder
  <2>8. SpeedTypes'
    BY <2>1, <2>2, <2>5, <2>6, <2>7
  <2>9. HoldIsNewest'
    <3> SUFFICES ASSUME NEW k \in holds'
                 PROVE  /\ newest' = [by |-> "hold", value |-> k.value]
                        /\ moving' /\ standing' = k.value
                        /\ age' + k.wake <= 1
                        /\ \A j \in holds' : j = k
      BY DEF HoldIsNewest
    <3>1. PICK g \in holds : k = WaitHold(g)
      BY <2>1
    <3>2. /\ newest = [by |-> "hold", value |-> g.value]
          /\ moving /\ standing = g.value /\ age + g.wake <= 1
          /\ \A h \in holds : h = g
      BY <2>3 DEF HoldIsNewest
    <3>3. \A j \in holds' : j = k
      BY <2>1, <3>1, <3>2
    <3> QED BY <2>1, <2>2, <2>3, <3>1, <3>2, <3>3
  <2>10. Guarded'
    <3>1. deadFor' # 0 => newest'.by \in Streams /\ newest'.by \notin sent'
      BY <2>1 DEF Orphaned
    <3>2. ASSUME NEW t \in deadmen, t.current, t.left + deadFor <= Grace
          PROVE  \E k \in deadmen' : k.current /\ k.left + deadFor' <= Grace
      <4>1. [t EXCEPT !.left = @ - 1] \in deadmen'
        BY <2>1 DEF Wait
      <4>2. (t.left - 1) + deadFor' <= Grace
        BY <2>4, <2>7, <3>2, TimesArePositive, OneTickOn
      <4> QED BY <2>4, <3>2, <4>1, <4>2
    <3> QED BY <2>1, <3>1, <3>2 DEF Guarded
  <2> QED BY <2>1, <2>8, <2>9, <2>10 DEF StandsForNewest
<1>14. CASE Revoked
  <2>1. /\ age > Window /\ moving' = FALSE /\ age' \in Nat
        /\ UNCHANGED <<server, holds, deadmen, open, sent, standing, newest, deadFor>>
    BY <1>14, TimesArePositive DEF Revoked, Car!Revoke, Car!LeaseCap, taskVars
  <2>2. \A h \in holds : ~h.current
    <3> SUFFICES ASSUME NEW h \in holds, h.current PROVE FALSE
      OBVIOUS
    <3>1. age + h.wake <= 1 /\ h.wake \in {0, 1}
      BY DEF HoldIsNewest, Holds
    <3> QED BY <2>1, <3>1, TimesArePositive
  <2> QED BY <2>1, <2>2 DEF StandsForNewest, HoldIsNewest, Guarded
<1>15. CASE UNCHANGED speedVars
  BY <1>15 DEF speedVars, taskVars, carVars, StandsForNewest, HoldIsNewest, Guarded
<1> QED
  BY <1>1, <1>2, <1>3, <1>4, <1>5, <1>6, <1>7, <1>8, <1>9, <1>10, <1>11, <1>12, <1>13,
     <1>14, <1>15 DEF SpeedNext

(* Nothing that was scheduled for an older command puts its value back,    *)
(* and a held command does not lapse, whatever the bounds.                 *)
THEOREM NewestCommandAlwaysRules == SpeedSpec => []NewestCommandRules
<1>1. SpeedInv => NewestCommandRules
  BY DEF SpeedInv, StandsForNewest, HoldIsNewest, NewestCommandRules, NewestCommandWins,
         HoldNeverLapses
<1> QED BY <1>1, SpeedInvInit, SpeedInvNext, PTL DEF SpeedSpec

(* The command of a closed stream does not outlive the grace.              *)
THEOREM DeadClientAlwaysStops == SpeedSpec => []DeadClientStops
<1>1. SpeedInv => DeadClientStops
  <2> SUFFICES ASSUME SpeedInv, deadFor > Grace PROVE ~moving /\ standing = 0
    BY DEF DeadClientStops
  <2> USE TimesArePositive DEF SpeedInv, SpeedTypes
  <2>1. newest.by \in Streams /\ newest.by \notin sent
    BY DEF Guarded
  <2>2. \A t \in deadmen : t.left \in Nat
    BY DEF Deadmen
  <2> QED BY <2>1, <2>2 DEF Guarded, StandsForNewest
<1> QED BY <1>1, SpeedInvInit, SpeedInvNext, PTL DEF SpeedSpec

-----------------------------------------------------------------------------
\* Evaluations

EvaluationTypes ==
  /\ leader \in [Runs -> {"none", "alive", "exited"}]
  /\ kills \in [Runs \cup Stops -> Kills]
  /\ proc \in Runs \cup {None} /\ starting \subseteq Runs

\* The lock admits one request, and only while nothing runs.
OneStarting ==
  /\ \A r, s \in starting : r = s
  /\ starting # {} => ~Alive

\* What runs is what _proc says.
OnlyProcRuns == \A r \in Runs : leader[r] = "alive" => r = proc

EvaluationInv == EvaluationTypes /\ OneStarting /\ OnlyProcRuns

LEMMA EvaluationInvInit == EvaluationInit => EvaluationInv
  BY EvaluationAssumption
  DEF EvaluationInit, EvaluationInv, EvaluationTypes, OneStarting, OnlyProcRuns,
      Alive, Kills

\* Neither an exit nor a kill table entry disturbs the invariant's other parts.
LEMMA CancelledTypes ==
  ASSUME EvaluationTypes, NEW r \in Runs, Cancelled(r)
  PROVE  kills' \in [Runs \cup Stops -> Kills]
  BY DEF EvaluationTypes, Cancelled, Kills

LEMMA TerminateTypes ==
  ASSUME EvaluationTypes, NEW k \in Runs \cup Stops, NEW r \in Runs, Terminate(k, r)
  PROVE  kills' \in [Runs \cup Stops -> Kills]
  BY DEF EvaluationTypes, Terminate, Kills

LEMMA EvaluationInvNext ==
  EvaluationInv /\ [EvaluationNext]_evalVars => EvaluationInv'
<1> SUFFICES ASSUME EvaluationInv, [EvaluationNext]_evalVars PROVE EvaluationInv'
  OBVIOUS
<1> USE EvaluationAssumption DEF EvaluationInv
<1>1. ASSUME NEW r \in Runs, Run(r) PROVE EvaluationInv'
  BY <1>1 DEF Run, MayStart, Alive, processVars,
              EvaluationTypes, OneStarting, OnlyProcRuns
<1>2. ASSUME NEW r \in Runs, Started(r) PROVE EvaluationInv'
  <2>1. starting' = {} /\ proc' = r /\ leader' = [leader EXCEPT ![r] = "alive"]
        /\ UNCHANGED kills
    BY <1>2 DEF Started, OneStarting
  <2>2. \A s \in Runs : leader[s] # "alive"
    BY <1>2 DEF Started, OneStarting, OnlyProcRuns, Alive
  <2> QED BY <2>1, <2>2 DEF EvaluationTypes, OneStarting, OnlyProcRuns
<1>3. ASSUME NEW r \in Runs, StartFails(r) PROVE EvaluationInv'
  BY <1>3 DEF StartFails, processVars, EvaluationTypes, OneStarting, OnlyProcRuns, Alive
<1>4. ASSUME NEW r \in Runs, StreamBegins(r) \/ Unheard(r) \/ BackstopReturns(r)
      PROVE  EvaluationInv'
  BY <1>4 DEF StreamBegins, Unheard, BackstopReturns, processVars,
              EvaluationTypes, OneStarting, OnlyProcRuns, Alive
<1>5. ASSUME NEW r \in Runs, StreamEnds(r) \/ Finish(r) PROVE EvaluationInv'
  <2>1. UNCHANGED <<starting, proc, leader>>
    BY <1>5 DEF StreamEnds, Finish, processVars
  <2>2. Cancelled(r)
    BY <1>5 DEF StreamEnds, Finish
  <2> QED
    BY <2>1, <2>2, CancelledTypes
    DEF EvaluationTypes, OneStarting, OnlyProcRuns, Alive
<1>6. ASSUME NEW r \in Runs, RelayLeaves(r) PROVE EvaluationInv'
  <2>1. UNCHANGED <<starting, proc, leader>>
    BY <1>6 DEF RelayLeaves, processVars
  <2>2. UNCHANGED kills \/ Cancelled(r)
    BY <1>6 DEF RelayLeaves, LeftAlone
  <2> QED
    BY <2>1, <2>2, CancelledTypes
    DEF EvaluationTypes, OneStarting, OnlyProcRuns, Alive
<1>7. ASSUME NEW r \in Runs, Backstop(r) PROVE EvaluationInv'
  BY <1>7, TerminateTypes DEF Backstop, EvaluationTypes, OneStarting, OnlyProcRuns, Alive
<1>8. ASSUME NEW s \in Stops, Stop(s) PROVE EvaluationInv'
  <2>1. proc \in Runs
    BY <1>8 DEF Stop, Alive, EvaluationTypes
  <2> QED
    BY <1>8, <2>1, TerminateTypes
    DEF Stop, EvaluationTypes, OneStarting, OnlyProcRuns, Alive
<1>9. ASSUME NEW k \in Runs \cup Stops, GraceOver(k) \/ Gone(k) \/ TimesOut(k)
      PROVE  EvaluationInv'
  <2>1. kills' \in [Runs \cup Stops -> Kills]
    BY <1>9 DEF GraceOver, Gone, TimesOut, Escalates, EvaluationTypes, Kills, Idle
  <2> QED BY <1>9, <2>1 DEF GraceOver, Gone, TimesOut, processVars,
                            EvaluationTypes, OneStarting, OnlyProcRuns, Alive
<1>10. ASSUME NEW r \in Runs, Forks(r) \/ ChildExits(r) PROVE EvaluationInv'
  BY <1>10 DEF Forks, ChildExits, EvaluationTypes, OneStarting, OnlyProcRuns, Alive
<1>11. ASSUME NEW r \in Runs, Exits(r) PROVE EvaluationInv'
  BY <1>11 DEF Exits, EvaluationTypes, OneStarting, OnlyProcRuns, Alive
<1>12. CASE UNCHANGED evalVars
  BY <1>12 DEF evalVars, EvaluationTypes, OneStarting, OnlyProcRuns, Alive
<1> QED
  BY <1>1, <1>2, <1>3, <1>4, <1>5, <1>6, <1>7, <1>8, <1>9, <1>10, <1>11, <1>12
  DEF EvaluationNext

(* At most one student program runs, however many run and stop requests    *)
(* overlap (run, stop).                                                    *)
THEOREM AlwaysOneRunAtATime == EvaluationSpec => []OneRunAtATime
<1>1. EvaluationInv => OneRunAtATime
  BY DEF EvaluationInv, OnlyProcRuns, OneRunAtATime
<1> QED BY <1>1, EvaluationInvInit, EvaluationInvNext, PTL DEF EvaluationSpec

\* Whoever waits out the last grace has sent SIGKILL, and nothing is weaker after it.
Signalled ==
  /\ signal \in [Runs -> {"none", "term", "kill"}]
  /\ \A k \in Runs \cup Stops : kills[k].phase = "kill" => signal[kills[k].of] = "kill"

KillInv == EvaluationInv /\ Signalled

LEMMA KillInvInit == EvaluationInit => KillInv
  BY EvaluationInvInit DEF KillInv, Signalled, EvaluationInit, Idle

LEMMA KillInvNext == KillInv /\ [EvaluationNext]_evalVars => KillInv'
<1> SUFFICES ASSUME KillInv, [EvaluationNext]_evalVars PROVE Signalled'
  BY EvaluationInvNext DEF KillInv
<1> USE EvaluationAssumption DEF KillInv, EvaluationInv, EvaluationTypes, Signalled
<1>1. ASSUME NEW r \in Runs, Cancelled(r), UNCHANGED signal PROVE Signalled'
  BY <1>1 DEF Cancelled, Idle
<1>2. ASSUME NEW k \in Runs \cup Stops, NEW r \in Runs, Terminate(k, r) PROVE Signalled'
  BY <1>2 DEF Terminate
<1>3. ASSUME NEW k \in Runs \cup Stops, GraceOver(k) PROVE Signalled'
  <2>1. kills[k].of \in Runs
    BY <1>3 DEF GraceOver, Kills, Idle
  <2> QED BY <1>3, <2>1 DEF GraceOver, Escalates, Kills, Idle
<1>4. ASSUME NEW k \in Runs \cup Stops, Gone(k) \/ TimesOut(k) PROVE Signalled'
  BY <1>4 DEF Gone, TimesOut, processVars, Idle
<1>5. ASSUME NEW r \in Runs, Backstop(r) PROVE Signalled'
  BY <1>2, <1>5 DEF Backstop
<1>6. ASSUME NEW s \in Stops, Stop(s) PROVE Signalled'
  <2>1. proc \in Runs
    BY <1>6 DEF Stop, Alive
  <2> QED BY <1>2, <1>6, <2>1 DEF Stop
<1>7. ASSUME NEW r \in Runs,
             \/ Run(r) \/ Started(r) \/ StartFails(r) \/ StreamBegins(r)
             \/ Unheard(r) \/ BackstopReturns(r) \/ Forks(r) \/ Exits(r)
             \/ ChildExits(r)
      PROVE  Signalled'
  BY <1>7 DEF Run, Started, StartFails, StreamBegins, Unheard, BackstopReturns,
              Forks, Exits, ChildExits, processVars
<1>8. ASSUME NEW r \in Runs, StreamEnds(r) \/ Finish(r) \/ RelayLeaves(r)
      PROVE  Signalled'
  <2>1. UNCHANGED signal
    BY <1>8 DEF StreamEnds, Finish, RelayLeaves, processVars
  <2>2. UNCHANGED kills \/ Cancelled(r)
    BY <1>8 DEF StreamEnds, Finish, RelayLeaves, LeftAlone
  <2> QED BY <1>1, <2>1, <2>2
<1>9. CASE UNCHANGED evalVars
  BY <1>9 DEF evalVars
<1> QED
  BY <1>3, <1>4, <1>5, <1>6, <1>7, <1>8, <1>9 DEF EvaluationNext

\* What a stop request leaves behind when it returns.
Killed(s) ==
  LET r == kills[s].of IN
  leader[r] = "exited" \/ (signal[r] = "kill" /\ Alive /\ ~MayStart)

LEMMA StopStep ==
  ASSUME KillInv, [EvaluationNext]_evalVars, NEW s \in Stops,
         kills[s] # Idle, kills'[s] = Idle
  PROVE  Killed(s)
<1> USE EvaluationAssumption DEF KillInv, EvaluationInv, EvaluationTypes
<1>1. ASSUME NEW r \in Runs, Cancelled(r) PROVE kills'[s] = kills[s]
  BY <1>1 DEF Cancelled
<1>2. ASSUME NEW k \in Runs \cup Stops, NEW r \in Runs, Terminate(k, r)
      PROVE  kills'[s] = kills[s] \/ kills'[s] # Idle
  BY <1>2 DEF Terminate, Idle
<1>3. ASSUME NEW k \in Runs \cup Stops, GraceOver(k) PROVE kills'[s] # Idle
  BY <1>3 DEF GraceOver, Escalates, Kills, Idle
<1>4. ASSUME NEW k \in Runs \cup Stops, Gone(k) PROVE Killed(s)
  BY <1>4 DEF Gone, Killed
<1>5. ASSUME NEW k \in Runs \cup Stops, TimesOut(k) PROVE Killed(s)
  <2>1. k = s
    BY <1>5 DEF TimesOut
  <2>2. kills[s].phase = "kill" /\ leader[kills[s].of] = "alive" /\ kills[s].of \in Runs
    BY <1>5, <2>1 DEF TimesOut, Kills, Idle
  <2>3. kills[s].of = proc
    BY <2>2 DEF OnlyProcRuns
  <2>4. Alive
    BY <2>2, <2>3 DEF Alive
  <2> QED BY <2>2, <2>4 DEF Signalled, Killed, MayStart
<1>6. ASSUME NEW r \in Runs, Backstop(r) PROVE FALSE
  BY <1>2, <1>6 DEF Backstop
<1>7. ASSUME NEW t \in Stops, Stop(t) PROVE FALSE
  <2>1. proc \in Runs
    BY <1>7 DEF Stop, Alive
  <2> QED BY <1>2, <1>7, <2>1 DEF Stop
<1>8. ASSUME NEW r \in Runs,
             \/ Run(r) \/ Started(r) \/ StartFails(r) \/ StreamBegins(r)
             \/ Unheard(r) \/ BackstopReturns(r) \/ Forks(r) \/ Exits(r)
             \/ ChildExits(r)
      PROVE  FALSE
  BY <1>8 DEF Run, Started, StartFails, StreamBegins, Unheard, BackstopReturns,
              Forks, Exits, ChildExits
<1>9. ASSUME NEW r \in Runs, StreamEnds(r) \/ Finish(r) \/ RelayLeaves(r) PROVE FALSE
  BY <1>1, <1>9 DEF StreamEnds, Finish, RelayLeaves, LeftAlone
<1>10. ~ UNCHANGED evalVars
  BY DEF evalVars
<1> QED
  BY <1>3, <1>4, <1>5, <1>6, <1>7, <1>8, <1>9, <1>10 DEF EvaluationNext

(* A stop request never returns while the program it found still runs,     *)
(* unless SIGKILL was sent to its group; and then no other is started      *)
(* (stop, _kill, run).                                                     *)
THEOREM StopAlwaysMeansKilled == EvaluationSpec => StopMeansKilled
<1>1. KillInv /\ [EvaluationNext]_evalVars =>
        [\A s \in Stops :
           kills[s] # Idle /\ kills'[s] = Idle =>
             LET r == kills[s].of IN
             leader[r] = "exited" \/ (signal[r] = "kill" /\ Alive /\ ~MayStart)]_evalVars
  BY StopStep DEF Killed
<1> QED BY <1>1, KillInvInit, KillInvNext, PTL DEF EvaluationSpec, StopMeansKilled

-----------------------------------------------------------------------------
\* Wake tickets

LEMMA LengthAfter ==
  ASSUME NEW k \in Int, NEW n \in Int, k <= n
  PROVE  (IF k + 1 <= n THEN n - (k + 1) + 1 ELSE 0) = n - k
  OBVIOUS

\* What taking an id out of a dictionary or a queue leaves.
LEMMA RemoveFirstKeeps ==
  ASSUME NEW S, NEW q \in Seq(S), IsInjective(q), NEW w
  PROVE  /\ RemoveFirst(q, w) \in Seq(S) /\ IsInjective(RemoveFirst(q, w))
         /\ ToSet(RemoveFirst(q, w)) = ToSet(q) \ {w}
<1>1. DOMAIN q = 1 .. Len(q) /\ Len(q) \in Nat
  BY LenProperties
<1>2. CASE ~ \E i \in 1 .. Len(q) : q[i] = w
  BY <1>1, <1>2 DEF RemoveFirst, ToSet
<1>3. ASSUME NEW k \in 1 .. Len(q), q[k] = w
      PROVE  /\ RemoveFirst(q, w) \in Seq(S) /\ IsInjective(RemoveFirst(q, w))
             /\ ToSet(RemoveFirst(q, w)) = ToSet(q) \ {w}
  <2> DEFINE r == RemoveAt(q, k)
             before == SubSeq(q, 1, k - 1)
             after == SubSeq(q, k + 1, Len(q))
  <2>1. {i \in 1 .. Len(q) : q[i] = w} = {k}
    BY <1>1, <1>3 DEF IsInjective
  <2>2. Min({k}) = k
    BY <1>1 DEF Min
  <2>3. RemoveFirst(q, w) = r
    BY <1>3, <2>1, <2>2 DEF RemoveFirst, SelectInSeq
  <2>4. /\ before \in Seq(S) /\ Len(before) = k - 1
        /\ \A i \in 1 .. k - 1 : before[i] = q[i]
    <3>1. \A i \in 1 .. k - 1 : q[i] \in S
      BY <1>1, ElementOfSeq
    <3> QED BY <1>1, <3>1, SubSeqProperties
  <2>5. /\ after \in Seq(S) /\ Len(after) = Len(q) - k
        /\ \A i \in 1 .. Len(q) - k : after[i] = q[k + i]
    <3>1. \A i \in k + 1 .. Len(q) : q[i] \in S
      BY <1>1, ElementOfSeq
    <3>2. /\ after \in Seq(S)
          /\ Len(after) = IF k + 1 <= Len(q) THEN Len(q) - (k + 1) + 1 ELSE 0
          /\ \A i \in 1 .. Len(q) - (k + 1) + 1 : after[i] = q[(k + 1) + i - 1]
      BY <1>1, <3>1, SubSeqProperties
    <3> HIDE DEF after
    <3>3. k \in Int /\ 1 <= k /\ k <= Len(q)
      BY <1>1
    <3>4. Len(q) - (k + 1) + 1 = Len(q) - k
      BY <1>1, <3>3
    <3>5. ASSUME NEW i \in 1 .. Len(q) - k PROVE after[i] = q[k + i]
      <4>1. (k + 1) + i - 1 = k + i
        BY <1>1, <3>3
      <4>2. after[i] = q[(k + 1) + i - 1]
        BY <3>2, <3>4
      <4> QED BY <4>1, <4>2
    <3>6. Len(after) = Len(q) - k
      <4>1. Len(q) \in Int
        BY <1>1
      <4> QED BY <3>2, <3>3, <4>1, LengthAfter
    <3> QED BY <3>2, <3>5, <3>6
  <2>6. /\ r \in Seq(S) /\ Len(r) = Len(q) - 1
        /\ \A i \in 1 .. Len(q) - 1 : r[i] = IF i < k THEN q[i] ELSE q[i + 1]
    <3>1. r = before \o after
      BY DEF RemoveAt
    <3> HIDE DEF r, before, after
    <3>2. /\ r \in Seq(S) /\ Len(r) = Len(before) + Len(after)
          /\ \A i \in 1 .. Len(before) + Len(after) :
               r[i] = IF i <= Len(before) THEN before[i] ELSE after[i - Len(before)]
      BY <2>4, <2>5, <3>1, ConcatProperties
    <3>3. Len(before) + Len(after) = Len(q) - 1
      BY <1>1, <2>4, <2>5
    <3>4. ASSUME NEW i \in 1 .. Len(q) - 1, i < k PROVE r[i] = q[i]
      <4>1. i <= Len(before) /\ i \in 1 .. k - 1
        BY <1>1, <2>4, <3>4
      <4>2. r[i] = before[i]
        BY <3>2, <3>3, <4>1
      <4> QED BY <2>4, <4>1, <4>2
    <3>5. ASSUME NEW i \in 1 .. Len(q) - 1, ~(i < k) PROVE r[i] = q[i + 1]
      <4>1. r[i] = after[i - (k - 1)]
        <5>1. ~(i <= Len(before))
          BY <1>1, <2>4, <3>5
        <5> QED BY <2>4, <3>2, <3>3, <5>1
      <4>2. i - (k - 1) \in 1 .. Len(q) - k /\ k + (i - (k - 1)) = i + 1
        BY <1>1, <3>5
      <4> QED BY <2>5, <4>1, <4>2
    <3> QED BY <3>2, <3>3, <3>4, <3>5
  <2> HIDE DEF r
  <2>7. DOMAIN r = 1 .. Len(q) - 1
    BY <2>6, LenProperties
  <2>8. IsInjective(r)
    <3>1. SUFFICES ASSUME NEW i \in DOMAIN r, NEW j \in DOMAIN r, r[i] = r[j]
                   PROVE  i = j
      BY DEF IsInjective
    <3>2. /\ (IF i < k THEN i ELSE i + 1) \in DOMAIN q
          /\ (IF j < k THEN j ELSE j + 1) \in DOMAIN q
          /\ r[i] = q[IF i < k THEN i ELSE i + 1]
          /\ r[j] = q[IF j < k THEN j ELSE j + 1]
      BY <1>1, <2>6, <2>7
    <3>3. (IF i < k THEN i ELSE i + 1) = (IF j < k THEN j ELSE j + 1)
      BY <3>1, <3>2 DEF IsInjective
    <3> QED BY <1>1, <2>7, <3>3
  <2>9. ToSet(r) \subseteq ToSet(q) \ {w}
    <3>1. ASSUME NEW i \in DOMAIN r PROVE r[i] \in ToSet(q) /\ r[i] # w
      <4>1. /\ (IF i < k THEN i ELSE i + 1) \in DOMAIN q
            /\ (IF i < k THEN i ELSE i + 1) # k
            /\ r[i] = q[IF i < k THEN i ELSE i + 1]
        BY <1>1, <2>6, <2>7
      <4> QED BY <1>1, <1>3, <4>1 DEF IsInjective, ToSet
    <3> QED BY <3>1 DEF ToSet
  <2>10. ToSet(q) \ {w} \subseteq ToSet(r)
    <3>1. ASSUME NEW i \in DOMAIN q, q[i] # w PROVE q[i] \in ToSet(r)
      <4>1. i < k => i \in DOMAIN r /\ r[i] = q[i]
        BY <1>1, <2>6, <2>7
      <4>2. i > k => i - 1 \in DOMAIN r /\ r[i - 1] = q[i]
        BY <1>1, <2>6, <2>7
      <4>3. i # k
        BY <1>3, <3>1
      <4> QED BY <1>1, <4>1, <4>2, <4>3 DEF ToSet
    <3> QED BY <3>1 DEF ToSet
  <2> QED BY <2>3, <2>6, <2>8, <2>9, <2>10
<1> QED BY <1>2, <1>3

\* The end of a queue.
LEMMA SuffixKeeps ==
  ASSUME NEW S, NEW q \in Seq(S), NEW m \in 1 .. Len(q) + 1
  PROVE  LET r == SubSeq(q, m, Len(q)) IN
           /\ r \in Seq(S) /\ ToSet(r) \subseteq ToSet(q)
           /\ IsInjective(q) => IsInjective(r)
<1> DEFINE r == SubSeq(q, m, Len(q))
<1>1. DOMAIN q = 1 .. Len(q) /\ Len(q) \in Nat
  BY LenProperties
<1>2. /\ r \in Seq(S) /\ Len(r) = Len(q) - m + 1
      /\ \A i \in 1 .. Len(q) - m + 1 : r[i] = q[m + i - 1]
  <2>1. \A i \in m .. Len(q) : q[i] \in S
    BY <1>1, ElementOfSeq
  <2> QED BY <1>1, <2>1, SubSeqProperties
<1> HIDE DEF r
<1>3. DOMAIN r = 1 .. Len(q) - m + 1
  BY <1>2, LenProperties
<1>4. \A i \in DOMAIN r : m + i - 1 \in DOMAIN q /\ r[i] = q[m + i - 1]
  BY <1>1, <1>2, <1>3
<1>5. ToSet(r) \subseteq ToSet(q)
  BY <1>4 DEF ToSet
<1>6. IsInjective(q) => IsInjective(r)
  BY <1>1, <1>3, <1>4 DEF IsInjective
<1> QED BY <1>2, <1>5, <1>6 DEF r

\* One more at the end.
LEMMA AppendKeeps ==
  ASSUME NEW S, NEW q \in Seq(S), NEW w \in S
  PROVE  /\ Append(q, w) \in Seq(S) /\ ToSet(Append(q, w)) = ToSet(q) \cup {w}
         /\ IsInjective(q) /\ w \notin ToSet(q) => IsInjective(Append(q, w))
<1>1. /\ Append(q, w) \in Seq(S) /\ Len(Append(q, w)) = Len(q) + 1
      /\ \A i \in 1 .. Len(q) : Append(q, w)[i] = q[i]
      /\ Append(q, w)[Len(q) + 1] = w
  BY AppendProperties
<1>2. /\ DOMAIN q = 1 .. Len(q) /\ DOMAIN Append(q, w) = 1 .. Len(q) + 1 /\ Len(q) \in Nat
  BY <1>1, LenProperties
<1> QED BY <1>1, <1>2 DEF ToSet, IsInjective

-----------------------------------------------------------------------------
WakeTypes ==
  /\ tickets \in Seq(Ids) /\ cancelled \in Seq(Ids) /\ delivered \in Seq(Ids)
  /\ session \in [Ids -> Sessions] /\ pending \in [Sessions -> Seq(Ids)]
  /\ hand \in [Threads -> Ids \cup {Nothing}]

\* An id is at one place only, and at most once there.
OnePlace ==
  /\ IsInjective(tickets) /\ IsInjective(delivered) /\ IsInjective(cancelled)
  /\ \A s \in Sessions : IsInjective(pending[s])
  /\ \A s \in Sessions : \A w \in ToSet(pending[s]) :
       /\ session[w] = s
       /\ w \notin ToSet(tickets) \cup ToSet(delivered) \cup withdrawn
  /\ \A t \in Threads : hand[t] # Nothing =>
       /\ hand[t] \notin ToSet(tickets) \cup ToSet(delivered) \cup withdrawn
       /\ \A s \in Sessions : hand[t] \notin ToSet(pending[s])
       /\ \A u \in Threads : hand[u] = hand[t] => u = t
  /\ ToSet(tickets) \cap (ToSet(delivered) \cup withdrawn) = {}
  /\ withdrawn \cap ToSet(delivered) = {}

\* Only what was reserved is anywhere, and only what was withdrawn counts as cancelled.
OnlyIssued ==
  /\ ToSet(tickets) \cup ToSet(delivered) \cup withdrawn \subseteq issued
  /\ \A s \in Sessions : ToSet(pending[s]) \subseteq issued
  /\ \A t \in Threads : hand[t] # Nothing => hand[t] \in issued
  /\ ToSet(cancelled) \subseteq withdrawn

WakeInv == WakeTypes /\ OnePlace /\ OnlyIssued

LEMMA NoneKept ==
  /\ ToSet(<< >>) = {} /\ IsInjective(<< >>) /\ \A S : << >> \in Seq(S)
  BY DEF ToSet, IsInjective

LEMMA NewestKeeps ==
  ASSUME NEW S, NEW q \in Seq(S), NEW w \in S, IsInjective(q), NEW max \in Nat \ {0}
  PROVE  /\ Newest(q, w, max) \in Seq(S) /\ IsInjective(Newest(q, w, max))
         /\ ToSet(Newest(q, w, max)) \subseteq ToSet(q) \cup {w}
<1> DEFINE others == RemoveFirst(q, w)
           kept == IF Len(others) < max THEN others
                   ELSE SubSeq(others, Len(others) - max + 2, Len(others))
<1>1. /\ others \in Seq(S) /\ IsInjective(others) /\ ToSet(others) = ToSet(q) \ {w}
      /\ Newest(q, w, max) = Append(kept, w)
  BY RemoveFirstKeeps DEF Newest, Popped
<1> HIDE DEF others
<1>2. kept \in Seq(S) /\ IsInjective(kept) /\ ToSet(kept) \subseteq ToSet(others)
  <2>1. CASE Len(others) < max
    BY <1>1, <2>1
  <2>2. CASE ~(Len(others) < max)
    <3>1. Len(others) - max + 2 \in 1 .. Len(others) + 1
      BY <1>1, <2>2, LenProperties
    <3> QED BY <1>1, <2>2, <3>1, SuffixKeeps
  <2> QED BY <2>1, <2>2
<1> HIDE DEF kept
<1> QED BY <1>1, <1>2, AppendKeeps

LEMMA ConcatKeeps ==
  ASSUME NEW S, NEW p \in Seq(S), NEW q \in Seq(S)
  PROVE  /\ p \o q \in Seq(S) /\ ToSet(p \o q) \subseteq ToSet(p) \cup ToSet(q)
         /\ IsInjective(p) /\ IsInjective(q) /\ ToSet(p) \cap ToSet(q) = {} =>
              IsInjective(p \o q)
<1> DEFINE r == p \o q
<1>1. /\ r \in Seq(S) /\ Len(r) = Len(p) + Len(q)
      /\ \A i \in 1 .. Len(p) + Len(q) : r[i] = IF i <= Len(p) THEN p[i] ELSE q[i - Len(p)]
  BY ConcatProperties
<1> HIDE DEF r
<1>2. /\ DOMAIN p = 1 .. Len(p) /\ DOMAIN q = 1 .. Len(q) /\ DOMAIN r = 1 .. Len(p) + Len(q)
      /\ Len(p) \in Nat /\ Len(q) \in Nat
  BY <1>1, LenProperties
<1>3. ASSUME NEW i \in DOMAIN r
      PROVE  \/ i <= Len(p) /\ i \in DOMAIN p /\ r[i] = p[i]
             \/ i > Len(p) /\ i - Len(p) \in DOMAIN q /\ r[i] = q[i - Len(p)]
  BY <1>1, <1>2
<1>4. ToSet(r) \subseteq ToSet(p) \cup ToSet(q)
  BY <1>3 DEF ToSet
<1>5. ASSUME IsInjective(p), IsInjective(q), ToSet(p) \cap ToSet(q) = {}
      PROVE  IsInjective(r)
  <2>1. SUFFICES ASSUME NEW i \in DOMAIN r, NEW j \in DOMAIN r, r[i] = r[j]
                 PROVE  i = j
    BY DEF IsInjective
  <2>2. CASE i <= Len(p) /\ j <= Len(p)
    BY <1>2, <1>3, <1>5, <2>1, <2>2 DEF IsInjective
  <2>3. CASE i > Len(p) /\ j > Len(p)
    <3>1. i - Len(p) = j - Len(p)
      BY <1>2, <1>3, <1>5, <2>1, <2>3 DEF IsInjective
    <3> QED BY <1>2, <3>1
  <2>4. CASE i <= Len(p) /\ j > Len(p)
    <3>1. r[i] \in ToSet(p) /\ r[j] \in ToSet(q)
      BY <1>2, <1>3, <2>4 DEF ToSet
    <3> QED BY <1>5, <2>1, <3>1
  <2>5. CASE i > Len(p) /\ j <= Len(p)
    <3>1. r[j] \in ToSet(p) /\ r[i] \in ToSet(q)
      BY <1>2, <1>3, <2>5 DEF ToSet
    <3> QED BY <1>5, <2>1, <3>1
  <2> QED BY <1>2, <2>2, <2>3, <2>4, <2>5
<1> QED BY <1>1, <1>4, <1>5 DEF r

LEMMA WakeInvInit ==
  ASSUME WakeInit PROVE WakeInv
<1>1. session \in [Ids -> Sessions]
  BY NothingAssumption DEF WakeInit
<1>2. /\ tickets = << >> /\ cancelled = << >> /\ delivered = << >>
      /\ pending = [s \in Sessions |-> << >>] /\ hand = [t \in Threads |-> Nothing]
      /\ withdrawn = {}
  BY DEF WakeInit, NothingKept
<1> QED BY <1>1, <1>2, NoneKept DEF WakeInv, WakeTypes, OnePlace, OnlyIssued

LEMMA WakeInvNext ==
  ASSUME WakeInv, [WakeNext]_wakeVars
  PROVE  WakeInv'
<1> USE DEF WakeInv, WakeTypes, OnePlace, OnlyIssued
<1>1. CASE UNCHANGED wakeVars
  BY <1>1 DEF wakeVars, bookVars, historyVars
<1>2. ASSUME NEW w \in Ids, NEW s \in Sessions, Reserve(w, s) PROVE WakeInv'
  <2>1. PICK old \in 0 .. Len(tickets) :
          tickets' = Newest(SubSeq(tickets, old + 1, Len(tickets)), w, MaxTickets)
    BY <1>2 DEF Reserve
  <2> DEFINE fresh == SubSeq(tickets, old + 1, Len(tickets))
  <2>2. fresh \in Seq(Ids) /\ IsInjective(fresh) /\ ToSet(fresh) \subseteq ToSet(tickets)
    <3>1. old + 1 \in 1 .. Len(tickets) + 1
      BY LenProperties
    <3> QED BY <3>1, SuffixKeeps
  <2> HIDE DEF fresh
  <2>3. /\ tickets' \in Seq(Ids) /\ IsInjective(tickets')
        /\ ToSet(tickets') \subseteq ToSet(tickets) \cup {w}
    <3>1. tickets' = Newest(fresh, w, MaxTickets)
      BY <2>1 DEF fresh
    <3>2. /\ Newest(fresh, w, MaxTickets) \in Seq(Ids)
          /\ IsInjective(Newest(fresh, w, MaxTickets))
          /\ ToSet(Newest(fresh, w, MaxTickets)) \subseteq ToSet(fresh) \cup {w}
      <4> HIDE DEF WakeInv, WakeTypes, OnePlace, OnlyIssued
      <4> QED BY <2>2, LimitAssumption, NewestKeeps
    <3> QED BY <2>2, <3>1, <3>2
  <2>4. /\ w \notin issued /\ issued' = issued \cup {w}
        /\ session' = [session EXCEPT ![w] = s]
        /\ UNCHANGED <<cancelled, pending, hand, delivered, withdrawn>>
    BY <1>2 DEF Reserve
  <2>5. WakeTypes' /\ OnlyIssued'
    BY <2>3, <2>4
  <2>6. \A r \in Sessions : \A v \in ToSet(pending'[r]) :
          session'[v] = r /\ v \notin ToSet(tickets')
    BY <2>3, <2>4
  <2>7. \A t \in Threads : hand'[t] # Nothing => hand'[t] \notin ToSet(tickets')
    BY <2>3, <2>4
  <2>8. ToSet(tickets') \cap (ToSet(delivered') \cup withdrawn') = {}
    BY <2>3, <2>4
  <2>9. OnePlace'
    BY <2>3, <2>4, <2>6, <2>7, <2>8
  <2> QED BY <2>5, <2>9
<1>3. ASSUME NEW w \in Ids, Expire(w) PROVE WakeInv'
  BY <1>3 DEF Expire, bookVars, historyVars
<1>4. ASSUME NEW t \in Threads, NEW w \in Ids, RedeemTake(t, w) PROVE WakeInv'
  <2>1. /\ tickets' \in Seq(Ids) /\ IsInjective(tickets')
        /\ ToSet(tickets') = ToSet(tickets) \ {w} /\ w \in ToSet(tickets)
    BY <1>4, RemoveFirstKeeps DEF RedeemTake, Popped
  <2>2. /\ hand' = [hand EXCEPT ![t] = w] /\ hand[t] = Nothing
        /\ UNCHANGED <<cancelled, session, pending, issued, delivered, withdrawn>>
    BY <1>4 DEF RedeemTake, historyVars
  <2>3. WakeTypes' /\ OnlyIssued'
    BY <2>1, <2>2
  <2>4. \A u \in Threads : hand'[u] = IF u = t THEN w ELSE hand[u]
    BY <2>2
  <2>5. \A s \in Sessions : w \notin ToSet(pending[s])
    BY <2>1
  <2>6. \A u \in Threads : hand[u] # w
    BY <2>1, NothingAssumption
  <2>7. ASSUME NEW u \in Threads, hand'[u] # Nothing
        PROVE  /\ hand'[u] \notin ToSet(tickets') \cup ToSet(delivered) \cup withdrawn
               /\ \A s \in Sessions : hand'[u] \notin ToSet(pending[s])
               /\ \A v \in Threads : hand'[v] = hand'[u] => v = u
    BY <2>1, <2>4, <2>5, <2>6, <2>7
  <2>8. OnePlace'
    BY <2>1, <2>2, <2>7
  <2> QED BY <2>3, <2>8
<1>5. ASSUME NEW t \in Threads, RedeemEnqueue(t) PROVE WakeInv'
  <2> DEFINE w == hand[t]
             s == session[w]
  <2>1. /\ w # Nothing /\ w \in Ids /\ s \in Sessions
        /\ pending' = [pending EXCEPT ![s] = Append(Room(pending[s]), w)]
        /\ hand' = [hand EXCEPT ![t] = Nothing]
        /\ UNCHANGED <<tickets, cancelled, session, issued, delivered, withdrawn>>
    BY <1>5 DEF RedeemEnqueue, bookVars, historyVars
  <2>2. /\ \A r \in Sessions : w \notin ToSet(pending[r])
        /\ w \notin ToSet(tickets) \cup ToSet(delivered) \cup withdrawn
        /\ \A u \in Threads : hand[u] = w => u = t
        /\ w \in issued
    BY <2>1
  <2> HIDE DEF w, s
  <2> DEFINE q == pending[s]
  <2>3. /\ Room(q) \in Seq(Ids) /\ IsInjective(Room(q)) /\ ToSet(Room(q)) \subseteq ToSet(q)
    <3>1. q \in Seq(Ids) /\ IsInjective(q)
      BY <2>1
    <3> HIDE DEF q
    <3>2. CASE Len(q) >= MaxPerSession
      <4>1. q # << >> /\ Len(q) \in Nat /\ Len(q) > 0
        BY <3>1, <3>2, LimitAssumption, LenProperties, EmptySeq
      <4>2. Tail(q) = SubSeq(q, 2, Len(q)) /\ 2 \in 1 .. Len(q) + 1
        BY <3>1, <4>1, TailIsSubSeq
      <4>3. LET r == SubSeq(q, 2, Len(q)) IN
              r \in Seq(Ids) /\ ToSet(r) \subseteq ToSet(q) /\ IsInjective(r)
        BY <3>1, <4>2, SuffixKeeps
      <4>4. Room(q) = SubSeq(q, 2, Len(q))
        BY <3>2, <4>2 DEF Room
      <4> QED BY <4>3, <4>4
    <3>3. CASE ~(Len(q) >= MaxPerSession)
      BY <3>1, <3>3 DEF Room
    <3> QED BY <3>2, <3>3
  <2> DEFINE room == Room(q)
  <2>4. /\ Append(room, w) \in Seq(Ids) /\ IsInjective(Append(room, w))
        /\ ToSet(Append(room, w)) \subseteq ToSet(q) \cup {w}
    <3>1. w \notin ToSet(room)
      BY <2>1, <2>2, <2>3
    <3> HIDE DEF room
    <3> QED BY <2>1, <2>3, <3>1, AppendKeeps DEF room
  <2>5. /\ \A r \in Sessions : r # s => pending'[r] = pending[r]
        /\ pending'[s] = Append(room, w)
        /\ \A u \in Threads : hand'[u] = IF u = t THEN Nothing ELSE hand[u]
    BY <2>1
  <2>6. pending' \in [Sessions -> Seq(Ids)] /\ hand' \in [Threads -> Ids \cup {Nothing}]
    BY <2>1, <2>4
  <2>7. \A r \in Sessions : /\ IsInjective(pending'[r])
                            /\ ToSet(pending'[r]) \subseteq ToSet(pending[r]) \cup {w}
                            /\ w \in ToSet(pending'[r]) => r = s
    <3>1. ASSUME NEW r \in Sessions, r = s
          PROVE  /\ IsInjective(pending'[r])
                 /\ ToSet(pending'[r]) \subseteq ToSet(pending[r]) \cup {w}
                 /\ w \in ToSet(pending'[r]) => r = s
      <4>1. pending'[r] = Append(room, w) /\ pending[r] = q
        BY <2>5, <3>1
      <4> HIDE DEF room, q
      <4> QED BY <2>4, <3>1, <4>1
    <3>2. ASSUME NEW r \in Sessions, r # s
          PROVE  /\ IsInjective(pending'[r])
                 /\ ToSet(pending'[r]) \subseteq ToSet(pending[r]) \cup {w}
                 /\ w \in ToSet(pending'[r]) => r = s
      <4>1. pending'[r] = pending[r] /\ IsInjective(pending[r])
        BY <2>5, <3>2
      <4> HIDE DEF room, q
      <4> QED BY <2>2, <4>1
    <3> QED BY <3>1, <3>2
  <2> HIDE DEF room, q
  <2>8. WakeTypes' /\ OnlyIssued'
    BY <2>1, <2>2, <2>5, <2>6, <2>7
  <2>9. OnePlace'
    BY <2>1, <2>2, <2>5, <2>7 DEF s
  <2> QED BY <2>8, <2>9
<1>6. ASSUME NEW w \in Ids, Cancel(w) PROVE WakeInv'
  <2>1. /\ tickets' \in Seq(Ids) /\ IsInjective(tickets')
        /\ ToSet(tickets') = ToSet(tickets) \ {w}
    BY <1>6, RemoveFirstKeeps DEF Cancel, Popped
  <2>2. /\ pending' = [s \in Sessions |-> Without(pending[s], w)]
        /\ UNCHANGED <<session, hand, issued, delivered>> /\ w \in issued
    BY <1>6 DEF Cancel
  <2>3. \A s \in Sessions : /\ pending'[s] \in Seq(Ids) /\ IsInjective(pending'[s])
                            /\ ToSet(pending'[s]) = ToSet(pending[s]) \ {w}
    <3>1. \A s \in Sessions : pending[s] \in Seq(Ids) /\ IsInjective(pending[s])
      OBVIOUS
    <3>2. ASSUME NEW s \in Sessions
          PROVE  /\ Without(pending[s], w) \in Seq(Ids)
                 /\ IsInjective(Without(pending[s], w))
                 /\ ToSet(Without(pending[s], w)) = ToSet(pending[s]) \ {w}
      BY <3>1, RemoveFirstKeeps DEF Without
    <3> QED BY <2>2, <3>2
  <2>4. pending' \in [Sessions -> Seq(Ids)]
    BY <2>2, <2>3
  <2>5. CASE w \notin ToSet(tickets) \cup Queued
    <3>1. UNCHANGED <<cancelled, withdrawn>>
      BY <1>6, <2>5 DEF Cancel
    <3>2. WakeTypes' /\ OnlyIssued'
      BY <2>1, <2>2, <2>3, <2>4, <3>1
    <3>3. OnePlace'
      BY <2>1, <2>2, <2>3, <3>1
    <3> QED BY <3>2, <3>3
  <2>6. CASE w \in ToSet(tickets) \cup Queued
    <3> DEFINE left == RemoveFirst(cancelled, w)
               later == Append(left, w)
    <3>1. /\ left \in Seq(Ids) /\ IsInjective(left) /\ ToSet(left) = ToSet(cancelled) \ {w}
      BY RemoveFirstKeeps
    <3> HIDE DEF left
    <3>2. /\ later \in Seq(Ids) /\ IsInjective(later)
          /\ ToSet(later) \subseteq ToSet(cancelled) \cup {w}
      BY <3>1, AppendKeeps
    <3>3. /\ withdrawn' = withdrawn \cup {w}
          /\ cancelled' = IF Len(later) < MaxTickets THEN later
                          ELSE SubSeq(later, Len(later) - MaxTickets + 2, Len(later))
      BY <1>6, <2>6 DEF Cancel, Popped, left
    <3> HIDE DEF later
    <3>4. /\ cancelled' \in Seq(Ids) /\ IsInjective(cancelled')
          /\ ToSet(cancelled') \subseteq ToSet(cancelled) \cup {w}
      <4>1. CASE Len(later) < MaxTickets
        BY <3>2, <3>3, <4>1
      <4>2. CASE ~(Len(later) < MaxTickets)
        <5>1. Len(later) - MaxTickets + 2 \in 1 .. Len(later) + 1
          BY <3>2, <4>2, LimitAssumption, LenProperties
        <5> QED BY <3>2, <3>3, <4>2, <5>1, SuffixKeeps
      <4> QED BY <4>1, <4>2
    <3>5. /\ w \notin ToSet(delivered) \cup ToSet(tickets')
          /\ \A s \in Sessions : w \notin ToSet(pending'[s])
          /\ \A t \in Threads : hand[t] # w
      <4>1. w \notin ToSet(delivered)
        <5>1. CASE w \in ToSet(tickets)
          BY <5>1
        <5>2. CASE w \in Queued
          <6>1. PICK s \in Sessions : w \in ToSet(pending[s])
            BY <5>2 DEF Queued
          <6> QED BY <6>1
        <5> QED BY <2>6, <5>1, <5>2
      <4>2. ASSUME NEW t \in Threads, hand[t] = w PROVE FALSE
        <5>1. hand[t] # Nothing
          BY <1>6, <4>2, NothingAssumption
        <5>2. CASE w \in ToSet(tickets)
          BY <4>2, <5>1, <5>2
        <5>3. CASE w \in Queued
          <6>1. PICK s \in Sessions : w \in ToSet(pending[s])
            BY <5>3 DEF Queued
          <6> QED BY <4>2, <5>1, <6>1
        <5> QED BY <2>6, <5>2, <5>3
      <4>3. \A t \in Threads : hand[t] # w
        BY <4>2
      <4>4. w \notin ToSet(tickets')
        BY <2>1
      <4>5. ASSUME NEW s \in Sessions PROVE w \notin ToSet(pending'[s])
        <5>1. ToSet(pending'[s]) = ToSet(pending[s]) \ {w}
          BY <2>3
        <5> QED BY <5>1
      <4> QED BY <4>1, <4>3, <4>4, <4>5
    <3>6. WakeTypes' /\ OnlyIssued'
      BY <2>1, <2>2, <2>3, <2>4, <3>3, <3>4
    <3>7. OnePlace'
      BY <2>1, <2>2, <2>3, <3>3, <3>4, <3>5
    <3> QED BY <3>6, <3>7
  <2> QED BY <2>5, <2>6
<1>7. ASSUME NEW s \in Sessions, Drain(s) PROVE WakeInv'
  <2>1. /\ delivered' = delivered \o pending[s]
        /\ pending' = [pending EXCEPT ![s] = << >>]
        /\ UNCHANGED <<tickets, cancelled, session, hand, issued, withdrawn>>
    BY <1>7 DEF Drain, bookVars
  <2>2. /\ delivered \in Seq(Ids) /\ pending[s] \in Seq(Ids)
        /\ IsInjective(delivered) /\ IsInjective(pending[s])
        /\ ToSet(delivered) \cap ToSet(pending[s]) = {}
    OBVIOUS
  <2>3. /\ delivered' \in Seq(Ids) /\ IsInjective(delivered')
        /\ ToSet(delivered') \subseteq ToSet(delivered) \cup ToSet(pending[s])
    BY <2>1, <2>2, ConcatKeeps
  <2>4. /\ pending' \in [Sessions -> Seq(Ids)] /\ pending'[s] = << >>
        /\ \A r \in Sessions : r # s => pending'[r] = pending[r]
    BY <2>1, NoneKept
  <2>5. ASSUME NEW r \in Sessions, r # s, NEW w \in ToSet(pending[r])
        PROVE  w \notin ToSet(pending[s])
    <3>1. session[w] = r
      OBVIOUS
    <3>2. w \in ToSet(pending[s]) => session[w] = s
      OBVIOUS
    <3> QED BY <2>5, <3>1, <3>2
  <2>6. WakeTypes' /\ OnlyIssued'
    BY <2>1, <2>3, <2>4, NoneKept
  <2>7. OnePlace'
    BY <2>1, <2>2, <2>3, <2>4, <2>5, NoneKept
  <2> QED BY <2>6, <2>7
<1>8. CASE Restart
  <2>1. /\ tickets' = << >> /\ cancelled' = << >>
        /\ pending' = [s \in Sessions |-> << >>] /\ hand' = [t \in Threads |-> Nothing]
        /\ UNCHANGED <<session, issued, delivered, withdrawn>>
    BY <1>8 DEF Restart, historyVars
  <2> QED BY <2>1, NoneKept
<1> QED BY <1>1, <1>2, <1>3, <1>4, <1>5, <1>6, <1>7, <1>8 DEF WakeNext

\* However reserve, redeem, cancel and drain interleave, with any number of sessions,
\* threads and ids: a chat is woken at most once, a cancel is final, and what status
\* answered stays true (pcwake.py).
THEOREM AnswersAlwaysKept == WakeSpec => []AnswersAreKept
<1>1. WakeInv => AnswersAreKept
  <2>1. SUFFICES ASSUME WakeInv PROVE AnswersAreKept
    OBVIOUS
  <2> USE <2>1 DEF WakeInv, OnePlace, OnlyIssued
  <2>2. WokenAtMostOnce /\ WithdrawnNeverWakes
    BY DEF WokenAtMostOnce, WithdrawnNeverWakes
  <2>3. \A w : /\ Status(w) = "pending" => w \in ToSet(tickets)
               /\ Status(w) = "cancelled" => w \in ToSet(cancelled)
    BY DEF Status
  <2>4. BooksAgree
    BY <2>3 DEF BooksAgree, InHand, Queued
  <2> QED BY <2>2, <2>4 DEF AnswersAreKept
<1> QED BY <1>1, WakeInvInit, WakeInvNext, PTL DEF WakeSpec
=============================================================================

--------------------------- MODULE CameraControls ---------------------------
(***************************************************************************)
(* The controls of the camera as parameters of its node                    *)
(* (ParameterHandler.cpp, ParameterConflictHandler.cpp): how they are      *)
(* declared, how a request to set some of them is completed, checked and   *)
(* applied, and how the processing threads hand them to the camera with    *)
(* the requests.  A request to set parameters runs on the executor, under  *)
(* the lock of the node's parameters; the threads work in between.         *)
(*                                                                         *)
(* Three controls stand for all: "auto" (ExposureTimeMode, or AeEnable     *)
(* before libcamera 0.5), "exposure" (ExposureTime) and "gain", which has  *)
(* nothing to do with the others.  A value is a number; auto is on with 1  *)
(* and off with 2.                                                         *)
(***************************************************************************)
EXTENDS Naturals, Sequences, FiniteSets, SequencesExt

CONSTANTS
  Requests,     \* the requests, each with its thread
  SetRequests,  \* the lists of parameters that are asked to be set
  PassOrder,    \* the order in which the controls are kept (an unordered_map)
  MaxChanges    \* requests to set parameters, and wake-ups that nobody asked for

On  == 1
Off == 2
Unset == 0        \* PARAMETER_NOT_SET
Undeclared == 9
Default == 1      \* of the exposure time
Good == {1, 2}    \* values between minimum and maximum
Wide == 5         \* 2^32 and more: 1 when it is narrowed to 32 bits
Narrow(v) == IF v = Wide THEN 1 ELSE v

Names == {"auto", "exposure", "gain"}
Nothing == [c \in Names |-> Unset]
Entries == [name : Names, v : Nat \ {Undeclared}]

ASSUME ControlsAssumption ==
  /\ Requests # {} /\ IsFiniteSet(Requests)
  /\ SetRequests \subseteq Seq(Entries)
  /\ PassOrder \in [1 .. 3 -> Names] /\ {PassOrder[i] : i \in 1 .. 3} = Names
  /\ MaxChanges \in Nat

VARIABLES
  params,     \* the parameters
  ranged,     \* controls whose descriptor has the range
  stored,     \* store: the exposure time to restore, or Unset
  tmpStore,   \* tmp_store
  control,    \* control_values: what the next request takes along; Unset if not in it
  turn,       \* where a processing thread is: "camera", "redeclare", "declare", "take", "queue"
  pass,       \* the control a thread looks at, by PassOrder
  carries,    \* the controls of a request
  queued,     \* the requests at the camera, in order
  applied,    \* what the camera works with
  dead,       \* an exception nobody caught, or an assertion, has ended the node
  changes,    \* history: requests to set parameters, and wake-ups nobody asked for, so far
  muddled,    \* history: controls to which the last list that named them gave two meanings
  latest,     \* history: the thread that took the last value of a control
  lost,       \* history: controls whose last value was given up, or overtaken by an older one
  reused      \* history: a request was reused while the camera had it

paramVars == <<params, ranged, stored, tmpStore, control>>
threadVars == <<turn, pass, carries, queued, applied>>
historyVars == <<muddled, latest, lost, reused>>
controlsVars == <<paramVars, threadVars, dead, changes, historyVars>>

-----------------------------------------------------------------------------
(* ParameterConflictHandler.  A list of parameters may name one more than *)
(* once: of those that are set, the checks look at the first and the       *)
(* camera gets the last.                                                   *)

Is(name, v) == [name |-> name, v |-> v]
NamesIn(list) == {list[i].name : i \in DOMAIN list}
SetAt(list, name) == {i \in DOMAIN list : list[i].name = name /\ list[i].v # Unset}
IsSet(list, name) == SetAt(list, name) # {}
\* The first that is set counts.
FirstSet(list, name) == IF IsSet(list, name) THEN list[Min(SetAt(list, name))].v ELSE Unset

\* Automatic exposure gives the exposure time up, manual exposure gets back the one
\* that was put aside, whatever exposure time is set beside it.
Restore(list, kept) ==
  IF ~IsSet(list, "auto") THEN [list |-> list, kept |-> kept]
  ELSE IF FirstSet(list, "auto") = Off
       THEN IF kept # Unset THEN [list |-> Append(list, Is("exposure", kept)), kept |-> Unset]
            ELSE [list |-> list, kept |-> kept]
       ELSE [list |-> Append(list, Is("exposure", Unset)), kept |-> kept]

\* Mutant: only the new parameters are looked at.
ConflictsAlone(old, list) == FirstSet(list, "auto") = On /\ IsSet(list, "exposure")
\* An exposure time must not be set while the exposure is automatic, by the old
\* parameters and the new ones taken together.
Conflicts(old, list) ==
  LET auto == IF IsSet(list, "auto") THEN FirstSet(list, "auto") ELSE old["auto"]
  IN auto = On /\ IsSet(list, "exposure")

\* Defaults: automatic exposure is preferred, and the default exposure time put aside.
\* Overrides: an exposure time that was provided is preferred.
ResolveDefaults(p) ==
  LET auto == IF p["auto"] = Unset THEN On ELSE p["auto"]
  IN IF auto = On /\ p["exposure"] # Unset
     THEN [p |-> [p EXCEPT !["auto"] = On, !["exposure"] = Unset], kept |-> p["exposure"]]
     ELSE [p |-> [p EXCEPT !["auto"] = auto], kept |-> Unset]

ResolveOverrides(p, kept) ==
  LET q == IF p["auto"] = On /\ p["exposure"] # Unset THEN [p EXCEPT !["auto"] = Off] ELSE p
  IN IF q["auto"] = Off /\ q["exposure"] = Unset /\ kept # Unset
     THEN [p |-> [q EXCEPT !["exposure"] = kept], kept |-> Unset]
     ELSE [p |-> q, kept |-> kept]

-----------------------------------------------------------------------------
(* Setting parameters.                                                     *)

\* The last entry for a name, of those the list has.
Final(list, name) == list[Max({i \in DOMAIN list : list[i].name = name})].v

Gives(list, name, v) == \E i \in DOMAIN list : list[i] = Is(name, v)

\* A parameter that had a value is undeclared if any entry sets it to none.
Stored(list) ==
  [c \in Names |->
     IF c \notin NamesIn(list) THEN params[c]
     ELSE IF Gives(list, c, Unset) /\ params[c] # Unset THEN Undeclared ELSE Final(list, c)]

\* A control that is set and unset by one list, and a mode that is set both ways.
Muddled(list) ==
  {c \in Names : \E i, j \in DOMAIN list :
     /\ list[i].name = c /\ list[j].name = c /\ list[i].v # list[j].v
     /\ c = "auto" \/ list[i].v = Unset}

\* PostSetApply: what was not taken yet is given up, for any request.
Applies(list) ==
  [c \in Names |-> IF IsSet(list, c) THEN Narrow(list[Max(SetAt(list, c))].v) ELSE Unset]

\* The node's own check, before its callbacks: declared, and in the range if there is one.
Admits(list) ==
  /\ \A c \in NamesIn(list) : params[c] # Undeclared
  /\ \A i \in DOMAIN list : list[i].name \in ranged => list[i].v \in Good \cup {Unset}

\* OnSetValidate: it reads all controls first, and fails if one is undeclared.
Readable == \A c \in Names : params[c] # Undeclared
Validates(list) ==
  /\ ~Conflicts(params, list)
  /\ \A i \in DOMAIN list : Narrow(list[i].v) \in Good \cup {Unset}

Accept(list) ==
  /\ params' = Stored(list)
  /\ control' = Applies(list)
  /\ muddled' = (muddled \ NamesIn(list)) \cup Muddled(list)
  /\ lost' = lost \cup {c \in Names : control[c] # Unset /\ ~IsSet(list, c)}

\* set_parameters_atomically: PreSetResolve, the node's check, OnSetValidate, the
\* parameters, PostSetApply.  The store put aside is left where the node's check fails.
SetParameters(request) ==
  LET r == Restore(request, stored)
      list == r.list
  IN /\ IF Admits(list) /\ Readable
        THEN /\ tmpStore' = Unset
             /\ stored' = IF Validates(list) THEN r.kept ELSE stored
        ELSE tmpStore' = r.kept /\ UNCHANGED stored
     /\ IF Admits(list) /\ Readable /\ Validates(list) THEN Accept(list)
        ELSE UNCHANGED <<params, control, muddled, lost>>

\* restore asserts that nothing was left aside.  With assertions compiled out it goes on.
Asserts == tmpStore # Unset /\ dead' = TRUE /\ UNCHANGED <<paramVars, muddled, lost>>

Sets ==
  /\ ~dead /\ changes < MaxChanges
  /\ \/ Asserts
     \/ \E request \in SetRequests : SetParameters(request) /\ UNCHANGED <<ranged, dead>>
  /\ changes' = changes + 1
  /\ UNCHANGED <<threadVars, latest, reused>>

-----------------------------------------------------------------------------
(* declare: defaults, overrides, then all parameters set at once through   *)
(* the same callbacks.  Another control's default or override that is      *)
(* refused, by the node's check or by OnSetValidate, takes all along.      *)

Declared(defaults, overrides) ==
  LET d == ResolveDefaults(defaults)
      p == [c \in Names |-> IF overrides[c] # Unset THEN overrides[c] ELSE d.p[c]]
      o == ResolveOverrides(p, d.kept)
      r == Restore([i \in 1 .. 3 |-> Is(PassOrder[i], o.p[PassOrder[i]])], o.kept)
  IN [list |-> r.list, before |-> o.kept, kept |-> r.kept]

ControlsInit ==
  /\ \E default \in {Unset, Default} :
     \E overrides \in [auto : {Unset, On, Off}, exposure : {Unset} \cup Good, gain : {Unset}] :
       LET d == Declared([auto |-> Unset, exposure |-> default, gain |-> 1], overrides)
       IN \/ /\ ~Conflicts(Nothing, d.list)
             /\ params = [c \in Names |-> Final(d.list, c)] /\ control = Applies(d.list)
             /\ stored = d.kept /\ tmpStore = Unset
             /\ muddled = Muddled(d.list)
          \/ /\ params = Nothing /\ control = Nothing
             /\ stored = d.before /\ tmpStore \in {Unset, d.kept}
             /\ muddled = {}
  /\ ranged = Names
  /\ turn = [b \in Requests |-> "camera"] /\ pass = [b \in Requests |-> 1]
  /\ carries = [b \in Requests |-> Nothing]
  /\ queued \in SetToSeqs(Requests)
  /\ applied = control   \* camera->start(&get_control_values())
  /\ dead = FALSE /\ changes = 0
  /\ latest = [c \in Names |-> Head(queued)] /\ lost = {} /\ reused = FALSE

-----------------------------------------------------------------------------
(* The threads, from the frame on.                                         *)

Begins(b) == turn' = [turn EXCEPT ![b] = "redeclare"] /\ pass' = [pass EXCEPT ![b] = 1]

\* A request completes: what it brought replaces what the camera had.  If it is
\* cancelled, that is lost.  The thread may not be waiting, and then sleeps on.
RequestDone(b) ==
  /\ ~dead /\ queued # << >> /\ b = Head(queued)
  /\ queued' = Tail(queued)
  /\ \/ /\ applied' = [c \in Names |->
                       IF carries[b][c] # Unset THEN carries[b][c] ELSE applied[c]]
        /\ UNCHANGED lost
     \/ /\ lost' = lost \cup {c \in Names : latest[c] = b /\ carries[b][c] # Unset}
        /\ UNCHANGED applied
  /\ (turn[b] = "camera" /\ Begins(b)) \/ UNCHANGED <<turn, pass>>
  /\ UNCHANGED <<paramVars, carries, dead, changes, muddled, latest, reused>>

\* The wait has no condition (CameraNode.cpp, process): it may end by itself.
WakesByItself(b) ==
  /\ ~dead /\ changes < MaxChanges /\ turn[b] = "camera"
  /\ Begins(b)
  /\ changes' = changes + 1
  /\ UNCHANGED <<paramVars, carries, queued, applied, dead, historyVars>>

Passes(b) ==
  IF pass[b] = 3 THEN turn' = [turn EXCEPT ![b] = "take"] /\ UNCHANGED pass
  ELSE turn' = [turn EXCEPT ![b] = "redeclare"] /\ pass' = [pass EXCEPT ![b] = @ + 1]

\* redeclare: one pass over the controls; has_parameter, then declare_parameter, each on
\* its own, with the descriptor as it was kept: without the range.
Looks(b) ==
  /\ ~dead /\ turn[b] = "redeclare"
  /\ IF params[PassOrder[pass[b]]] # Undeclared THEN Passes(b)
     ELSE turn' = [turn EXCEPT ![b] = "declare"] /\ UNCHANGED pass
  /\ UNCHANGED <<paramVars, carries, queued, applied, dead, changes, historyVars>>

\* A parameter that another thread has declared meanwhile throws.
Declares(b) ==
  /\ ~dead /\ turn[b] = "declare"
  /\ LET c == PassOrder[pass[b]]
     IN \/ /\ params[c] = Undeclared
           /\ params' = [params EXCEPT ![c] = Unset] /\ ranged' = ranged \ {c}
           /\ Passes(b) /\ UNCHANGED dead
        \/ /\ params[c] # Undeclared
           /\ dead' = TRUE /\ UNCHANGED <<params, ranged, turn, pass>>
  /\ UNCHANGED <<stored, tmpStore, control, carries, queued, applied, changes, historyVars>>

\* reuse() and move_control_values, under the lock of the control values.
Takes(b) ==
  /\ ~dead /\ turn[b] = "take"
  /\ carries' = [carries EXCEPT ![b] = control]
  /\ control' = Nothing
  /\ turn' = [turn EXCEPT ![b] = "queue"]
  /\ LET taken == {c \in Names : control[c] # Unset}
     IN /\ latest' = [c \in Names |-> IF c \in taken THEN b ELSE latest[c]]
        /\ lost' = lost \ taken
  /\ reused' = (reused \/ \E i \in DOMAIN queued : queued[i] = b)
  /\ UNCHANGED <<params, ranged, stored, tmpStore, pass, queued, applied, dead, changes,
                 muddled>>

\* The thread that took a later value of a control has queued its request before.
Overtaken(b, c) ==
  LET l == latest[c] IN l # b /\ ~(turn[l] = "queue" /\ carries[l][c] # Unset)

\* queueRequest, an unlock after the controls were taken.
Queues(b) ==
  /\ ~dead /\ turn[b] = "queue"
  /\ queued' = Append(queued, b)
  /\ turn' = [turn EXCEPT ![b] = "camera"]
  /\ lost' = lost \cup {c \in Names : carries[b][c] # Unset /\ Overtaken(b, c)}
  /\ UNCHANGED <<paramVars, pass, carries, applied, dead, changes, muddled, latest,
                 reused>>

ControlsNext ==
  \/ Sets
  \/ \E b \in Requests : \/ RequestDone(b) \/ WakesByItself(b)
                         \/ Looks(b) \/ Declares(b) \/ Takes(b) \/ Queues(b)

ControlsSpec == ControlsInit /\ [][ControlsNext]_controlsVars

-----------------------------------------------------------------------------
HasValue(c) == params[c] \notin {Unset, Undeclared}

(* The exposure is never automatic and fixed at once, through whatever     *)
(* sequence of defaults, overrides, restored and unset values, requests    *)
(* that fail and parameters declared again (ParameterConflictHandler.cpp), *)
(* unless one list gave the mode both ways: the check then looks at the    *)
(* first, and the last is kept.                                            *)
ExposureExclusive == "auto" \notin muddled => ~ (params["auto"] = On /\ HasValue("exposure"))

(* What the next request takes to the camera is what the parameters say,   *)
(* to 32 bits; a number with more passes once the parameter was declared   *)
(* again without its range.  Only after a list that both sets and unsets a *)
(* control it may be taken without being a parameter (PostSetApply).       *)
TakenIsCurrent ==
  \A c \in Names :
    /\ control[c] # Unset => \/ control[c] = Narrow(params[c])
                             \/ c \in muddled /\ ~HasValue(c)
    /\ c \in ranged => params[c] # Wide

Pending(c) ==
  \/ control[c] # Unset
  \/ \E i \in DOMAIN queued : carries[queued[i]][c] # Unset
  \/ \E b \in Requests : turn[b] = "queue" /\ carries[b][c] # Unset

(* Once nothing of a control waits any more, the camera works with what    *)
(* the parameter says, whichever threads took the values and in whatever   *)
(* order they queued them (move_control_values, CameraNode.cpp process).   *)
(* Three ways to lose a value are the code's: a list that does not set the *)
(* control again gives up what waits (PostSetApply), a thread queues an    *)
(* older value after a later one, a request is cancelled.                  *)
AppliedIsCurrent ==
  \A c \in Names \ lost :
    ~reused /\ ~Pending(c) /\ HasValue(c) => applied[c] = Narrow(params[c])

(* The controls can be obeyed, and are those of the parameters.            *)
ControlsAreSound == ExposureExclusive /\ TakenIsCurrent /\ AppliedIsCurrent
=============================================================================

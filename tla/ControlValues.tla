---------------------------- MODULE ControlValues ----------------------------
(***************************************************************************)
(* How the camera's controls become parameters and parameters controls     *)
(* (clamp.cpp, cv_to_pv.cpp, pv_to_cv.cpp, type_extent.cpp of the camera   *)
(* node): a control's default is clamped to its range, converted to a      *)
(* parameter value, set with all the others, and on the way back checked   *)
(* against the type, the extent and the range of the control.              *)
(*                                                                         *)
(* Of the types there are one number (Integer32 stands for the other       *)
(* integers and Float), one that is not clamped (Bool), one whose arrays   *)
(* have a parameter type of their own (Byte), and one that is an array as  *)
(* a parameter (Rectangle).  A rectangle's corner is signed, its width and *)
(* height are unsigned, and so is every sum of the two.                    *)
(***************************************************************************)
EXTENDS Integers, Sequences

CONSTANTS
  Numbers,     \* values of Integer32, and those of Byte that are not negative
  Rectangles,  \* records with x, y, width and height
  Word,        \* 2^32, where unsigned integers wrap around
  Dynamic      \* dynamic_extent

ASSUME ValuesAssumption ==
  /\ Numbers \subseteq Int /\ Dynamic \in Nat \ 0 .. 3 /\ Word \in Nat \ {0}
  /\ Rectangles \subseteq [x : Int, y : Int, width : Nat, height : Nat]

Types == {"Integer32", "Bool", "Byte", "Rectangle"}
Elements(type) ==
  CASE type = "Bool" -> {0, 1} [] type = "Byte" -> Numbers \cap Nat
    [] type = "Rectangle" -> Rectangles [] type = "Integer32" -> Numbers

\* A ControlValue: its elements, and whether they are an array.
Scalar(e) == [array |-> FALSE, v |-> <<e>>]
Array(s)  == [array |-> TRUE, v |-> s]
None == [array |-> FALSE, v |-> <<>>]

ControlValuesOf(type) ==
  LET E == Elements(type) IN
  {Scalar(e) : e \in E}
    \cup (IF type = "Rectangle" THEN {}
          ELSE {Array(s) : s \in [1 .. 1 -> E] \cup [1 .. 2 -> E]})

VARIABLES
  info,   \* the control: its type, extent, min, max and default
  value,  \* the parameter value of its default, or "unsupported"
  state   \* "known", "declared", "set" or "rejected"

valuesVars == <<info, value, state>>

-----------------------------------------------------------------------------
(* clamp.cpp                                                               *)

\* The bound for element i: bounds are arrays, or one bound for all.
At(bound, i) == bound.v[IF bound.array THEN i ELSE 1]

Clamped(x, lo, hi) == IF x < lo THEN lo ELSE IF x > hi THEN hi ELSE x

Unsigned(x) == x % Word
Right(r) == Unsigned(r.x + r.width)
Top(r) == Unsigned(r.y + r.height)

\* std::clamp is undefined for bounds out of order; the library's returns one of them.
Side(x, lo, hi) == IF lo <= hi THEN {Clamped(x, lo, hi)} ELSE {lo, hi}

\* Mutant: the corner of a rectangle is clamped, its sides are kept.
ClampedAtCorner(r, lo, hi) ==
  {[r EXCEPT !.x = Clamped(@, lo.x, hi.x), !.y = Clamped(@, lo.y, hi.y)]}
ClampedRectangles(r, lo, hi) ==
  LET x == Clamped(r.x, lo.x, hi.x)
      y == Clamped(r.y, lo.y, hi.y) IN
  {[x |-> x, y |-> y, width |-> Unsigned(right - x), height |-> Unsigned(top - y)] :
     right \in Side(Unsigned(x + r.width), Right(lo), Right(hi)),
     top \in Side(Unsigned(y + r.height), Top(lo), Top(hi))}

\* A Bool is not clamped; of rectangles there are no arrays.
ClampedValues(type, cv, min, max) ==
  IF type = "Rectangle" /\ cv # None
  THEN {Scalar(r) : r \in ClampedRectangles(cv.v[1], min.v[1], max.v[1])}
  ELSE {[cv EXCEPT !.v = [i \in DOMAIN cv.v |->
                            IF type = "Bool" THEN cv.v[i]
                            ELSE Clamped(cv.v[i], At(min, i), At(max, i))]]}

\* A rectangle is less than one that encloses it on all sides.
Less(type, a, b) ==
  IF type = "Rectangle"
  THEN a.x > b.x /\ a.y > b.y /\ Right(a) < Right(b) /\ Top(a) < Top(b)
  ELSE a < b

\* operator< and operator>: any element that is beyond its bound.
BelowBound(type, cv, min) == \E i \in DOMAIN cv.v : Less(type, cv.v[i], At(min, i))
AboveBound(type, cv, max) == \E i \in DOMAIN cv.v : Less(type, At(max, i), cv.v[i])

-----------------------------------------------------------------------------
(* cv_to_pv.cpp, pv_to_cv.cpp                                              *)

Parameter(type, v) == [type |-> type, v |-> v]
Supported(type, extent) == extent = 0 \/ type # "Rectangle"

\* cv_to_pv_type: what the parameter of a control should be.
ParameterType(type, extent) ==
  CASE type = "Bool" -> IF extent = 0 THEN "bool" ELSE "bool_array"
    [] type = "Rectangle" -> "integer_array"
    [] OTHER -> IF extent = 0 THEN "integer" ELSE "integer_array"

\* cv_to_pv: one element is a scalar, be it an array of one.
ToParameter(type, cv) ==
  CASE cv.v = <<>> -> Parameter("not_set", <<>>)
    [] Len(cv.v) = 1 /\ type = "Rectangle" ->
         LET r == cv.v[1] IN Parameter("integer_array", <<r.x, r.y, r.width, r.height>>)
    [] Len(cv.v) = 1 /\ type # "Rectangle" -> Parameter(ParameterType(type, 0), cv.v)
    [] Len(cv.v) > 1 /\ type = "Byte" -> Parameter("byte_array", cv.v)
    [] Len(cv.v) > 1 /\ type # "Byte" -> Parameter(ParameterType(type, Dynamic), cv.v)

\* pv_to_cv throws invalid_conversion.
Convertible(p, type) ==
  /\ p.type # "bool_array"
  /\ p.type = "integer_array" => /\ type \notin {"Bool", "Byte"}
                                 /\ type = "Rectangle" => Len(p.v) = 4

ToControl(p, type) ==
  CASE p.type \in {"bool", "integer"} -> Scalar(p.v[1])
    [] p.type = "integer_array" /\ type = "Rectangle" ->
         Scalar([x |-> p.v[1], y |-> p.v[2], width |-> p.v[3], height |-> p.v[4]])
    [] OTHER -> Array(p.v)

-----------------------------------------------------------------------------
(* ParameterHandler: declare, the node's check, validate_new_parameters.   *)

\* max of the minima and min of the maxima.
RangeOf(c) ==
  LET of(b) == {b.v[i] : i \in DOMAIN b.v} IN
  [from |-> CHOOSE a \in of(c.min) : \A b \in of(c.min) : b <= a,
   to   |-> CHOOSE a \in of(c.max) : \A b \in of(c.max) : a <= b]

\* A default that is no array is left out for a control of a fixed extent.
DefaultOf(c) ==
  IF c.extent \notin {0, Dynamic} /\ ~c.def.array THEN None ELSE c.def

DeclaresDefault ==
  /\ state = "known" /\ state' = "declared"
  /\ \E cv \in ClampedValues(info.type, DefaultOf(info), info.min, info.max) :
       value' = ToParameter(info.type, cv)
  /\ UNCHANGED info

\* rclcpp: a number is in the range of its descriptor.
InRange(c, p) ==
  p.type = "integer" /\ c.type = "Integer32" =>
    LET r == RangeOf(c) IN r.from <= p.v[1] /\ p.v[1] <= r.to

Valid(c, p) ==
  \/ p.type = "not_set"
  \/ /\ p.type = ParameterType(c.type, c.extent)
     /\ Convertible(p, c.type)
     /\ LET cv == ToControl(p, c.type) IN
          /\ cv.array /\ c.extent # Dynamic => Len(cv.v) = c.extent
          /\ ~BelowBound(c.type, cv, c.min) /\ ~AboveBound(c.type, cv, c.max)

\* All defaults are set at once: one that is rejected takes the others along.
SetsDefault ==
  /\ state = "declared"
  /\ state' = IF InRange(info, value) /\ Valid(info, value) THEN "set" ELSE "rejected"
  /\ UNCHANGED <<info, value>>

-----------------------------------------------------------------------------
\* What a camera may offer: bounds of one shape, in order as plain numbers, and a default
\* that has an element for each of theirs; a control without extent has no arrays.
Ordered(type, a, b) ==
  IF type = "Rectangle"
  THEN /\ a.x <= b.x /\ a.x + a.width <= b.x + b.width
       /\ a.y <= b.y /\ a.y + a.height <= b.y + b.height
  ELSE a <= b
SameShape(a, b) == a.array = b.array /\ Len(a.v) = Len(b.v)

Offered ==
  UNION {
    LET V == ControlValuesOf(type) IN
    {c \in [type : {type}, extent : {0, 2, 3, Dynamic}, min : V, max : V, def : V \cup {None}] :
       /\ Supported(type, c.extent)
       /\ SameShape(c.min, c.max)
       /\ \A i \in DOMAIN c.min.v : Ordered(type, c.min.v[i], c.max.v[i])
       /\ c.extent = 0 => ~c.min.array /\ ~c.def.array
       /\ c.min.array => c.def = None \/ SameShape(c.def, c.min)} :
    type \in Types}

ValuesInit == info \in Offered /\ value = Parameter("not_set", <<>>) /\ state = "known"
ValuesNext == DeclaresDefault \/ SetsDefault
ValuesSpec == ValuesInit /\ [][ValuesNext]_valuesVars

-----------------------------------------------------------------------------
\* The defaults that do not survive the way into a parameter and back: of a control with
\* an extent, one element, as a scalar or an array, as many as the extent does not say,
\* and arrays of Bool and of Byte; a Bool out of its range, which nothing clamps; and a
\* rectangle between bounds whose far sides wrap around out of order.
Misfit(c) ==
  /\ DefaultOf(c) # None
  /\ \/ c.extent # 0 /\ (Len(c.def.v) = 1 \/ c.type # "Integer32")
     \/ c.extent \notin {0, Dynamic} /\ Len(c.def.v) # c.extent
     \/ c.extent = 0 /\ c.type = "Bool" /\ c.def.v[1] \notin c.min.v[1] .. c.max.v[1]
     \/ /\ c.type = "Rectangle"
        /\ Right(c.max.v[1]) < Right(c.min.v[1]) /\ Top(c.max.v[1]) < Top(c.min.v[1])

(* A default is rejected, and takes the defaults of all the controls       *)
(* along, only if it is one of the misfits; any other comes back from the  *)
(* parameter, brought into its range, as a value that is accepted.  And    *)
(* every misfit is rejected, but for rectangles, of which the undefined    *)
(* clamp may hit an accepted one (ParameterHandler::declare, clamp,        *)
(* cv_to_pv, pv_to_cv, validate_new_parameters).                           *)
OnlyMisfitsAreRejected ==
  /\ state = "rejected" => Misfit(info)
  /\ state = "set" /\ info.type # "Rectangle" => ~Misfit(info)
=============================================================================

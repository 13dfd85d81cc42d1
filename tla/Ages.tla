-------------------------------- MODULE Ages --------------------------------
(***************************************************************************)
(* Time stamps seen from now.  The nodes keep the moment of an event and   *)
(* only ever compare "now - moment" with a constant, so a module keeps the *)
(* age of the event and lets it saturate above the largest constant it is  *)
(* compared with.                                                          *)
(***************************************************************************)
EXTENDS Integers

OneOlder(age, cap) == IF age < cap THEN age + 1 ELSE cap
=============================================================================

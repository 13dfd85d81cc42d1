--------------------------- MODULE CommandLease ----------------------------
(***************************************************************************)
(* What the driver promises about motion: a drive command is a lease.  The *)
(* car may be told to move only by a command, the lease lasts Window ticks *)
(* unless a command renews it, and time does not pass over an expired      *)
(* lease before it is withdrawn.                                           *)
(***************************************************************************)
EXTENDS Integers

CONSTANT Window

VARIABLES moving, age
leaseVars == <<moving, age>>

LeaseCap == Window + 1

LeaseInit == moving = FALSE /\ age = LeaseCap

Renew == age' = 0 /\ moving' \in BOOLEAN

Revoke == age' = LeaseCap /\ moving' = FALSE

Elapse ==
  /\ moving => age <= Window
  /\ age' = IF age < LeaseCap THEN age + 1 ELSE age
  /\ UNCHANGED moving

LeaseNext == Renew \/ Revoke \/ Elapse

LeaseSpec == LeaseInit /\ [][LeaseNext]_leaseVars
=============================================================================

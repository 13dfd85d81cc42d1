---------------------------- MODULE MCWebServer ----------------------------
(* SpeedControl and WakeTickets for TLC.  They have no variable in common: in *)
(* a behaviour one of them moves, and the other is where it begins.           *)
(*                                                                            *)
(* Two streams and POSTs, two speeds, one hold longer than the car's window   *)
(* and one shorter; the times keep the order of 0.2 s, 0.7 s, 1 s and 1.2 s.  *)
(* Three reservations against room for two tickets and two queued messages:   *)
(* purging, eviction and overflow all happen; two threads, so that            *)
(* redemptions of one ticket overlap.                                         *)
EXTENDS SpeedControl, WakeTickets, TLC

VARIABLE router

MCValues == {1, 2}
MCDurations == {2, 5}
EitherStream == Permutations(Streams)

WebInit == SpeedInit /\ WakeInit /\ router \in {"speed", "wake"}

WebNext ==
  \/ router = "speed" /\ SpeedNext /\ UNCHANGED <<router, wakeVars>>
  \/ router = "wake"  /\ WakeNext  /\ UNCHANGED <<router, speedVars>>

WebSpec == WebInit /\ [][WebNext]_<<router, speedVars, wakeVars>>
=============================================================================

---------------------------- MODULE MCFollowUps ----------------------------
(* Values of FollowUps' constants for TLC. *)
EXTENDS FollowUps, TLC

AllEvents == Event
Deliveries == {"duplicate"}
Symmetric == Permutations(Hook) \cup Permutations(Cron)
=============================================================================

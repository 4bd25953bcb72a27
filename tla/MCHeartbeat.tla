---------------------------- MODULE MCHeartbeat ----------------------------
(* Small instances of Heartbeat: two sessions of the game.                 *)
EXTENDS Heartbeat, TLC
=============================================================================

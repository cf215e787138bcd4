---------------------------- MODULE MCSkunkworks ----------------------------
(* Small cells for TLC: two processes are enough for a race on the lock and  *)
(* for a sweep of one by the other, two days for a midnight between them.    *)
EXTENDS Skunkworks
=============================================================================

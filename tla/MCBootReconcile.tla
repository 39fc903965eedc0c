-------------------------- MODULE MCBootReconcile --------------------------
(* Three workers, two boots: a leader, a follower that waits and a follower *)
(* that is respawned; a second boot that meets the first one's marker.      *)
EXTENDS BootReconcile
=============================================================================

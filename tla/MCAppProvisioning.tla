------------------------- MODULE MCAppProvisioning -------------------------
(* Workers are interchangeable; the apps are one that loads and one broken. *)
EXTENDS AppProvisioning, TLC

Symmetry == Permutations(Workers)
=============================================================================

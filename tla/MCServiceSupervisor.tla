------------------------ MODULE MCServiceSupervisor ------------------------
(* Workers are interchangeable: nothing in the supervisor orders them.     *)
EXTENDS ServiceSupervisor, TLC

\* bound: operators and dying workers with three runs, or a service that keeps
\* dying with an outage of Redis and one request.
Followed ==
  \/ used <= 3 /\ exits <= 1 /\ blips = 0
  \/ requests <= 1 /\ crashes = 0

Symmetry == Permutations(Workers)
=============================================================================

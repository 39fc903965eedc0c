--------------------------- MODULE BootLeadership ---------------------------
(***************************************************************************)
(* What src/apps/boot_reconcile_coord.py promises, with no lock file, no   *)
(* marker file and no polling: within one fleet boot at most one worker is *)
(* inside the boot provisioning pass, and once a pass of this boot is on   *)
(* record as finished nobody starts another.  A pass may be abandoned (its *)
(* worker died, or its end could not be recorded); then the boot is open   *)
(* again.  BootReconcile implements this specification.                    *)
(***************************************************************************)
EXTENDS Naturals

CONSTANTS Workers,   \* the uvicorn worker slots of one container
          NoWorker   \* "nobody is leading"

VARIABLES epoch,     \* which fleet boot this is
          active,    \* the worker inside the pass, or NoWorker
          finished   \* a pass of this boot is on record as finished

leadershipVars == <<epoch, active, finished>>

Init ==
  /\ epoch = 1
  /\ active = NoWorker
  /\ finished = FALSE

Begin(w) ==
  /\ active = NoWorker
  /\ ~finished
  /\ active' = w
  /\ UNCHANGED <<epoch, finished>>

Complete ==
  /\ active # NoWorker
  /\ active' = NoWorker
  /\ finished' = TRUE
  /\ UNCHANGED epoch

Abandon ==
  /\ active # NoWorker
  /\ active' = NoWorker
  /\ UNCHANGED <<epoch, finished>>

NewBoot ==
  /\ epoch' = epoch + 1
  /\ active' = NoWorker
  /\ finished' = FALSE

Next ==
  \/ \E w \in Workers : Begin(w)
  \/ Complete
  \/ Abandon
  \/ NewBoot

Spec == Init /\ [][Next]_leadershipVars
=============================================================================

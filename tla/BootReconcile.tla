--------------------------- MODULE BootReconcile ---------------------------
(***************************************************************************)
(* Which worker runs the boot provisioning pass.                           *)
(*                                                                         *)
(* N uvicorn worker processes of one container start together and each     *)
(* runs _boot_reconcile_and_sync (src/api/app.py).  They agree through two *)
(* files: the flock boot-reconcile.lock, held by the leader for the whole  *)
(* pass and dropped by the kernel when it dies, and the marker             *)
(* boot-reconcile-done-<boot_id>, written once when the pass ends.  The    *)
(* module follows BootReconcileCoordinator.coordinate()/finish() file      *)
(* operation by file operation, because every hazard of this code is what  *)
(* another process does between two of them.                               *)
(*                                                                         *)
(* Abstractions.  The pass itself (reconcile_on_boot, bounded by a timeout *)
(* and never raising) is one step that ends.  The deadline of coordinate() *)
(* chooses when a warning is logged and nothing else, so a failed attempt  *)
(* before and after it is the same step, Busy; sleeping is the delay       *)
(* before that worker's next step.  Container restarts kill all workers    *)
(* (the parent is PID 1).  AW_WORKSPACE_WORKERS <= 1 takes no lock at all  *)
(* and is outside the module.                                              *)
(***************************************************************************)
EXTENDS Naturals, FiniteSets

CONSTANTS Workers,     \* worker slots; a respawned process takes its slot
          NoWorker,
          MaxBoots,    \* bound: fleet boots
          MaxCrashes,  \* bound: worker deaths
          MaxFaults    \* bound: file operations that raise

ASSUME BootAssumption ==
  /\ NoWorker \notin Workers
  /\ MaxBoots \in Nat \ {0}
  /\ MaxCrashes \in Nat
  /\ MaxFaults \in Nat

VARIABLES
  boot,        \* AW_WORKSPACE_BOOT_ID, minted by the parent: an ordinal here
  pc,          \* where each worker is in _boot_reconcile_and_sync
  lock,        \* the process whose open fd holds boot-reconcile.lock
  markers,     \* the boots whose done marker exists in the lock directory
  crashes,     \* worker deaths so far
  faults,      \* raised file operations so far
  begun,       \* history: coordinated passes begun in this boot
  unrecorded   \* history: those that ended without a marker on disk

bootVars == <<boot, pc, lock, markers, crashes, faults, begun, unrecorded>>

\* "look", "try" and "recheck" are the three file operations of one turn of
\* coordinate()'s loop; "mark", "sweep" and "free" those of finish(); "alone"
\* is a pass without a coordinator, after the lock directory failed.
Phases == {"look", "try", "recheck", "pass", "mark", "sweep", "free",
           "alone", "attach", "sync", "serving", "dead"}

\* The phases in which the process has the lock file's fd open and locked.
Holding == {"recheck", "pass", "mark", "sweep", "free"}

\* The phases of a pass that is neither recorded nor given up yet.
InPass == {"pass", "mark"}

Boots == 1 .. MaxBoots

Init ==
  /\ boot = 1
  /\ pc = [w \in Workers |-> "look"]
  /\ lock = NoWorker
  /\ markers = {}
  /\ crashes = 0
  /\ faults = 0
  /\ begun = 0
  /\ unrecorded = 0

Goto(w, phase) == pc' = [pc EXCEPT ![w] = phase]

-----------------------------------------------------------------------------
(* coordinate() *)

\* The first _is_done(): a finished boot means attach, otherwise contend.
Look(w) ==
  /\ pc[w] = "look"
  /\ Goto(w, IF boot \in markers THEN "attach" ELSE "try")
  /\ UNCHANGED <<boot, lock, markers, crashes, faults, begun, unrecorded>>

\* try_acquire() won: LOCK_EX | LOCK_NB on a file nobody holds.
Acquire(w) ==
  /\ pc[w] = "try"
  /\ lock = NoWorker
  /\ lock' = w
  /\ Goto(w, "recheck")
  /\ UNCHANGED <<boot, markers, crashes, faults, begun, unrecorded>>

\* Fault variant: the deadline branch decides to run a pass of its own
\* without asking whether the holder is alive.
BusyPreempts(w) ==
  /\ pc[w] = "try"
  /\ lock # NoWorker
  /\ begun' = begun + 1
  /\ Goto(w, "pass")
  /\ UNCHANGED <<boot, lock, markers, crashes, faults, unrecorded>>

\* try_acquire() returned None: a live process holds the lock.  Reaching the
\* deadline here only logs and extends it; sleep and look again.
Busy(w) ==
  /\ pc[w] = "try"
  /\ lock # NoWorker
  /\ Goto(w, "look")
  /\ UNCHANGED <<boot, lock, markers, crashes, faults, begun, unrecorded>>

\* Fault variant: the second _is_done() is dropped.
RecheckSkipped(w) ==
  /\ pc[w] = "recheck"
  /\ begun' = begun + 1
  /\ Goto(w, "pass")
  /\ UNCHANGED <<boot, lock, markers, crashes, faults, unrecorded>>

\* The second _is_done(), with the lock held: the leader may have finished
\* between our first look and our acquire.
Recheck(w) ==
  /\ pc[w] = "recheck"
  /\ IF boot \in markers
       THEN /\ lock' = NoWorker
            /\ Goto(w, "attach")
            /\ UNCHANGED begun
       ELSE /\ begun' = begun + 1
            /\ Goto(w, "pass")
            /\ UNCHANGED lock
  /\ UNCHANGED <<boot, markers, crashes, faults, unrecorded>>

\* The lock directory is unusable (read-only, full): coordinate() raises and
\* _is_boot_provisioner falls back to an uncoordinated pass.
LockDirFails(w) ==
  /\ pc[w] \in {"look", "try"}
  /\ faults < MaxFaults
  /\ faults' = faults + 1
  /\ Goto(w, "alone")
  /\ UNCHANGED <<boot, lock, markers, crashes, begun, unrecorded>>

-----------------------------------------------------------------------------
(* The pass and finish() *)

\* reconcile_on_boot returns: success, its own timeout, or a logged exception.
PassEnds(w) ==
  /\ pc[w] \in {"pass", "alone"}
  /\ Goto(w, IF pc[w] = "pass" THEN "mark" ELSE "sync")
  /\ UNCHANGED <<boot, lock, markers, crashes, faults, begun, unrecorded>>

\* Fault variant: finish() closes the lock before the marker exists.
WriteMarkerAfterRelease(w) ==
  /\ pc[w] = "mark"
  /\ IF lock = w
       THEN lock' = NoWorker /\ UNCHANGED <<markers, pc>>
       ELSE /\ markers' = markers \union {boot}
            /\ Goto(w, "sweep")
            /\ UNCHANGED lock
  /\ UNCHANGED <<boot, crashes, faults, begun, unrecorded>>

\* Fault variant: the marker is named for the boot after this one.
WriteMarkerAhead(w) ==
  /\ pc[w] = "mark"
  /\ markers' = markers \union {boot + 1}
  /\ Goto(w, "sweep")
  /\ UNCHANGED <<boot, lock, crashes, faults, begun, unrecorded>>

\* _write_marker: tmp file and os.replace, so it appears complete or not.
WriteMarker(w) ==
  /\ pc[w] = "mark"
  /\ markers' = markers \union {boot}
  /\ Goto(w, "sweep")
  /\ UNCHANGED <<boot, lock, crashes, faults, begun, unrecorded>>

\* _write_marker raised; finish() logs it and goes on.
MarkerLost(w) ==
  /\ pc[w] = "mark"
  /\ faults < MaxFaults
  /\ faults' = faults + 1
  /\ unrecorded' = unrecorded + 1
  /\ Goto(w, "sweep")
  /\ UNCHANGED <<boot, lock, markers, crashes, begun>>

\* Fault variant: the sweep forgets to spare this boot's own marker.
SweepAll(w) ==
  /\ pc[w] = "sweep"
  /\ markers' = {}
  /\ Goto(w, "free")
  /\ UNCHANGED <<boot, lock, crashes, faults, begun, unrecorded>>

\* _sweep_other_markers: other boots' markers go; an unlink that fails is
\* passed over, so any of them may stay.
Sweep(w) ==
  /\ pc[w] = "sweep"
  /\ \E kept \in SUBSET (markers \ {boot}) :
       markers' = (markers \intersect {boot}) \union kept
  /\ Goto(w, "free")
  /\ UNCHANGED <<boot, lock, crashes, faults, begun, unrecorded>>

\* Fault variant: an early return leaves the fd open.
FreeLeaks(w) ==
  /\ pc[w] = "free"
  /\ Goto(w, "sync")
  /\ UNCHANGED <<boot, lock, markers, crashes, faults, begun, unrecorded>>

\* Last, and always: close the fd.
Free(w) ==
  /\ pc[w] = "free"
  /\ lock' = NoWorker
  /\ Goto(w, "sync")
  /\ UNCHANGED <<boot, markers, crashes, faults, begun, unrecorded>>

\* sync_on_boot, after the pass, on the provisioning worker only; attach_on_boot
\* on the others.  Both end in a worker that serves.
Settle(w) ==
  /\ pc[w] \in {"sync", "attach"}
  /\ Goto(w, "serving")
  /\ UNCHANGED <<boot, lock, markers, crashes, faults, begun, unrecorded>>

-----------------------------------------------------------------------------
(* Processes die and come back *)

\* kill -9, OOM, a missed liveness ping: the kernel closes the fd.
Crash(w) ==
  /\ pc[w] # "dead"
  /\ crashes < MaxCrashes
  /\ crashes' = crashes + 1
  /\ lock' = IF lock = w THEN NoWorker ELSE lock
  /\ unrecorded' = unrecorded + (IF pc[w] \in InPass THEN 1 ELSE 0)
  /\ Goto(w, "dead")
  /\ UNCHANGED <<boot, markers, faults, begun>>

\* uvicorn's supervisor replaces it; the boot id is inherited, not minted.
Respawn(w) ==
  /\ pc[w] = "dead"
  /\ Goto(w, "look")
  /\ UNCHANGED <<boot, lock, markers, crashes, faults, begun, unrecorded>>

\* The container restarts: main() mints a new boot id and starts every worker.
NewBoot ==
  /\ boot < MaxBoots
  /\ boot' = boot + 1
  /\ pc' = [w \in Workers |-> "look"]
  /\ lock' = NoWorker
  /\ begun' = 0
  /\ unrecorded' = 0
  /\ UNCHANGED <<markers, crashes, faults>>

\* What one worker process does by itself, failures aside.
Step(w) ==
  \/ Look(w) \/ Acquire(w) \/ Busy(w) \/ Recheck(w)
  \/ PassEnds(w) \/ WriteMarker(w) \/ Sweep(w) \/ Free(w) \/ Settle(w)

Next ==
  \/ \E w \in Workers :
       Step(w) \/ LockDirFails(w) \/ MarkerLost(w) \/ Crash(w) \/ Respawn(w)
  \/ NewBoot

\* Every running process goes on running, and uvicorn respawns dead workers.
Fairness == \A w \in Workers : WF_bootVars(Step(w)) /\ WF_bootVars(Respawn(w))

Spec == Init /\ [][Next]_bootVars

FairSpec == Spec /\ Fairness

-----------------------------------------------------------------------------
(* Properties *)

\* Every variable has its type.
TypeOK ==
  /\ boot \in Boots
  /\ pc \in [Workers -> Phases]
  /\ lock \in Workers \union {NoWorker}
  /\ markers \subseteq Boots
  /\ crashes \in Nat
  /\ faults \in Nat
  /\ begun \in Nat
  /\ unrecorded \in Nat

\* Two coordinated passes never overlap (coordinate()/finish()): a worker that
\* is between winning and closing the lock is the only one there.
PassesNeverOverlap ==
  \A v, w \in Workers : pc[v] \in Holding /\ pc[w] \in Holding => v = w

\* A boot runs one coordinated pass, plus one for each pass that died or whose
\* end could not be written down: a respawned worker never repeats a recorded
\* pass (the W4 incident), and a late follower never adds one (W5).
OnePassPerBoot == begun <= 1 + unrecorded

\* A worker that skips provisioning and attaches does so because a pass of
\* this very boot was recorded, and that record outlives every sweep.
AttachOnlyBehindAPass ==
  \A w \in Workers : pc[w] = "attach" => boot \in markers

\* Once crashes and faults are over every worker of the last boot ends up
\* serving: nobody waits for a leader that is gone or a lock nobody releases.
AllServe == <>[](\A w \in Workers : pc[w] = "serving")

-----------------------------------------------------------------------------
(* The abstract leadership this protocol implements *)

ActiveWorker ==
  IF lock # NoWorker /\ pc[lock] \in InPass THEN lock ELSE NoWorker

Leadership == INSTANCE BootLeadership
                WITH epoch <- boot, active <- ActiveWorker,
                     finished <- boot \in markers

ImplementsLeadership == Leadership!Spec
=============================================================================

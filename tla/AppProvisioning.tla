-------------------------- MODULE AppProvisioning --------------------------
(***************************************************************************)
(* Installing, removing and reconciling apps with several workers.         *)
(*                                                                         *)
(* Every worker process has a Reconciler (src/apps/reconciler.py) over its *)
(* own set of loaded apps.  What is shared is the mirror (one row per      *)
(* installed app), the package directories on disk, the provisioning lock  *)
(* (src/apps/lifecycle.py: an asyncio.Lock per worker in front of one file *)
(* lock) and the apps:changed broadcast.  A worker provisions in tasks: an *)
(* install or uninstall somebody asked for ("request"), and a reconcile    *)
(* pass of the boot, the convergence watchdog or a caller ("pass").  The   *)
(* handler of apps:changed converges the loaded apps to the mirror.        *)
(*                                                                         *)
(* An action is what a task does between two awaits that matter: getting a *)
(* lock, one runtime.load or unload, one write of the mirror, one publish. *)
(*                                                                         *)
(* Abstractions.  An app has one version and no dependencies.  The desired *)
(* set of a pass is what the cloud registry answers, a set read once; the  *)
(* fallback to the mirror is one of the answers.  A load that fails is     *)
(* that of a broken app and always fails.  Redis delivers every message; a *)
(* worker that subscribes late converges right after.                      *)
(***************************************************************************)
EXTENDS Naturals

CONSTANTS
  Workers,
  Apps,
  BrokenApps,     \* apps whose activate() raises
  MaxRequests,    \* bound: installs and uninstalls asked for
  MaxPasses,      \* bound: reconcile passes started
  MaxCancels,     \* bound: passes cut by their timeout
  MaxCrashes,     \* bound: worker deaths
  MaxTimeouts     \* bound: waits for the file lock that give up

ASSUME ProvisioningAssumption ==
  /\ BrokenApps \subseteq Apps
  /\ {MaxRequests, MaxPasses, MaxCancels, MaxCrashes, MaxTimeouts} \subseteq Nat

VARIABLES
  rows,     \* app_installs: the apps the mirror lists
  disk,     \* apps whose package directory exists
  up,       \* the worker process is alive
  loaded,   \* AppRuntime._apps of each worker
  local,    \* who holds AppLifecycle._local_lock of each worker
  file,     \* workers holding the file lock
  depth,    \* Reconciler._provision_depth
  pending,  \* Reconciler._pending_broadcast: "off" is None
  task,     \* each worker's request and pass
  conv,     \* each worker's convergence handler
  inbox,    \* apps:changed messages not handled yet
  lapses,   \* history: which of Lapses have happened
  requests, passes, cancels, crashes, timeouts   \* counted against the bounds

countVars == <<requests, passes, cancels, crashes, timeouts>>
vars == <<rows, disk, up, loaded, local, file, depth, pending, task, conv, inbox,
          lapses, countVars>>

\* "forced": a wait for the file lock gave up; "cut": a pass was cut before its
\* worker had caught up with the mirror, or a task before it announced what it
\* committed; "torn": a refused install unloaded an app that was being served;
\* "stray": the registry dropped an app whose row no pass here forgets, because the
\* app is not loaded where the pass runs; "rode": a task entered _provisioning while
\* another of its worker was inside, and went on without a lock of its own.
Lapses == {"forced", "cut", "torn", "stray", "rode"}

\* The lapses so far, with this one if it happened.
With(lapse, happened) == IF happened THEN lapses \union {lapse} ELSE lapses

Tasks == {"request", "pass"}
Stages == {"none", "load", "row", "unload", "forget"}

Nothing == [a \in Apps |-> "none"]

\* wanted: the desired set of a pass; outer: this task took the locks; held: it
\* has the file lock; changed: it committed something it has not announced.
NoTask == [pc |-> "idle", op |-> "none", todo |-> Nothing, wanted |-> {},
           outer |-> FALSE, held |-> FALSE, changed |-> FALSE]

NoConverge == [pc |-> "idle", rows |-> {}, todo |-> {}]

\* Where a task is inside the side-effecting half.
Inside == {"plan", "work", "prune", "trim", "flush"}

TypeOK ==
  /\ rows \subseteq Apps /\ disk \subseteq Apps
  /\ up \in [Workers -> BOOLEAN]
  /\ loaded \in [Workers -> SUBSET Apps]
  /\ local \in [Workers -> {"free", "request", "pass", "converge"}]
  /\ file \subseteq Workers
  /\ depth \in [Workers -> 0 .. 2]
  /\ pending \in [Workers -> {"off", "clean", "due"}]
  /\ task \in [Workers -> [Tasks ->
       [pc : {"idle", "enter", "queue", "lock", "leave", "announce"} \union Inside,
        op : {"none", "install", "uninstall", "pass"}, todo : [Apps -> Stages],
        wanted : SUBSET Apps, outer : BOOLEAN, held : BOOLEAN, changed : BOOLEAN]]]
  /\ conv \in [Workers ->
       [pc : {"idle", "queue", "run"}, rows : SUBSET Apps, todo : SUBSET Apps]]
  /\ inbox \in [Workers -> BOOLEAN]
  /\ lapses \subseteq Lapses

Init ==
  /\ rows = {} /\ disk = {}
  /\ up = [w \in Workers |-> TRUE]
  /\ loaded = [w \in Workers |-> {}]
  /\ local = [w \in Workers |-> "free"]
  /\ file = {}
  /\ depth = [w \in Workers |-> 0]
  /\ pending = [w \in Workers |-> "off"]
  /\ task = [w \in Workers |-> [t \in Tasks |-> NoTask]]
  /\ conv = [w \in Workers |-> NoConverge]
  /\ inbox = [w \in Workers |-> FALSE]
  /\ lapses = {}
  /\ requests = 0 /\ passes = 0 /\ cancels = 0 /\ crashes = 0 /\ timeouts = 0

-----------------------------------------------------------------------------
(* Helpers *)

Goto(w, t, p) == task' = [task EXCEPT ![w][t].pc = p]
Stage(w, t, a, s) == [task EXCEPT ![w][t].todo[a] = s]

\* apps:changed reaches every live worker, the publisher included.
Published == [w \in Workers |-> up[w] \/ inbox[w]]

\* _trigger_broadcast inside a pass: remember, do not publish.
Marked(w) == [pending EXCEPT ![w] = IF @ = "off" THEN "off" ELSE "due"]

\* InstallJobs: an install of this app is already running somewhere.
InFlight(a) ==
  \E w \in Workers : /\ task[w]["request"].op = "install"
                     /\ task[w]["request"].todo[a] # "none"

-----------------------------------------------------------------------------
(* Requests and passes arrive *)

\* POST /api/apps/install, DELETE /api/apps/{slug}.
Ask(w, op, a) ==
  /\ up[w] /\ task[w]["request"].pc = "idle"
  /\ requests < MaxRequests
  /\ IF op = "install"
       THEN a \notin loaded[w] /\ ~InFlight(a)
       ELSE a \in loaded[w] \union rows
  /\ requests' = requests + 1
  /\ task' = [task EXCEPT ![w]["request"] =
       [NoTask EXCEPT !.pc = "enter", !.op = op,
                      !.todo[a] = IF op = "install" THEN "load" ELSE "unload"]]
  /\ UNCHANGED <<rows, disk, up, loaded, local, file, depth, pending, conv, inbox,
                 lapses, passes, cancels, crashes, timeouts>>

\* The boot pass, a watchdog tick or POST /api/apps/reconcile.
BeginPass(w) ==
  /\ up[w] /\ task[w]["pass"].pc = "idle"
  /\ passes < MaxPasses
  /\ passes' = passes + 1
  /\ task' = [task EXCEPT ![w]["pass"] = [NoTask EXCEPT !.pc = "enter", !.op = "pass"]]
  /\ UNCHANGED <<rows, disk, up, loaded, local, file, depth, pending, conv, inbox,
                 lapses, requests, cancels, crashes, timeouts>>

-----------------------------------------------------------------------------
(* The provisioning lock *)

FirstStep(t) == IF t = "pass" THEN "plan" ELSE "work"

\* _provisioning: depth > 0 is taken for re-entry, and rides on the locks of
\* whoever holds them.
Enter(w, t) ==
  /\ task[w][t].pc = "enter"
  /\ IF depth[w] > 0
       THEN /\ depth' = [depth EXCEPT ![w] = @ + 1]
            /\ Goto(w, t, FirstStep(t))
            /\ lapses' = lapses \union {"rode"}
       ELSE depth' = depth /\ Goto(w, t, "queue") /\ lapses' = lapses
  /\ UNCHANGED <<rows, disk, up, loaded, local, file, pending, conv, inbox,
                 countVars>>

TakeLocal(w, t) ==
  /\ task[w][t].pc = "queue"
  /\ local[w] = "free"
  /\ local' = [local EXCEPT ![w] = t]
  /\ Goto(w, t, "lock")
  /\ UNCHANGED <<rows, disk, up, loaded, file, depth, pending, conv, inbox,
                 lapses, countVars>>

\* Fault variant: the in-process lock alone, as when the shared half was Redis
\* and Redis was away.
TakeFileUnguarded(w, t) ==
  /\ task[w][t].pc = "lock"
  /\ file' = file \union {w}
  /\ depth' = [depth EXCEPT ![w] = @ + 1]
  /\ task' = [task EXCEPT ![w][t].pc = FirstStep(t), ![w][t].outer = TRUE,
                          ![w][t].held = TRUE]
  /\ UNCHANGED <<rows, disk, up, loaded, local, pending, conv, inbox, lapses,
                 countVars>>

TakeFile(w, t) ==
  /\ task[w][t].pc = "lock"
  /\ file = {}
  /\ file' = {w}
  /\ depth' = [depth EXCEPT ![w] = @ + 1]
  /\ task' = [task EXCEPT ![w][t].pc = FirstStep(t), ![w][t].outer = TRUE,
                          ![w][t].held = TRUE]
  /\ UNCHANGED <<rows, disk, up, loaded, local, pending, conv, inbox, lapses,
                 countVars>>

\* PROVISION_LOCK_WAIT_S ran out: go on without the file lock.
GiveUpWaiting(w, t) ==
  /\ task[w][t].pc = "lock"
  /\ file # {}
  /\ timeouts < MaxTimeouts
  /\ timeouts' = timeouts + 1
  /\ lapses' = lapses \union {"forced"}
  /\ depth' = [depth EXCEPT ![w] = @ + 1]
  /\ task' = [task EXCEPT ![w][t].pc = FirstStep(t), ![w][t].outer = TRUE]
  /\ UNCHANGED <<rows, disk, up, loaded, local, file, pending, conv, inbox,
                 requests, passes, cancels, crashes>>

\* What leaving _provisioning gives back.
LocalReturned(w, t) == IF task[w][t].outer THEN [local EXCEPT ![w] = "free"] ELSE local
FileReturned(w, t) == IF task[w][t].held THEN file \ {w} ELSE file

\* Fault variant: the depth counter is not restored.
LeaveKeepsDepth(w, t) ==
  /\ task[w][t].pc = "leave"
  /\ local' = LocalReturned(w, t)
  /\ file' = FileReturned(w, t)
  /\ task' = [task EXCEPT ![w][t] =
       IF @.changed THEN [NoTask EXCEPT !.pc = "announce", !.changed = TRUE] ELSE NoTask]
  /\ UNCHANGED <<rows, disk, up, loaded, depth, pending, conv, inbox, lapses,
                 countVars>>

Leave(w, t) ==
  /\ task[w][t].pc = "leave"
  /\ depth' = [depth EXCEPT ![w] = @ - 1]
  /\ local' = LocalReturned(w, t)
  /\ file' = FileReturned(w, t)
  /\ task' = [task EXCEPT ![w][t] =
       IF @.changed THEN [NoTask EXCEPT !.pc = "announce", !.changed = TRUE] ELSE NoTask]
  /\ UNCHANGED <<rows, disk, up, loaded, pending, conv, inbox, lapses, countVars>>

\* The broadcast after a request, outside the lock.
Announce(w, t) ==
  /\ task[w][t].pc = "announce"
  /\ pending' = Marked(w)
  /\ inbox' = IF pending[w] = "off" THEN Published ELSE inbox
  /\ task' = [task EXCEPT ![w][t] = NoTask]
  /\ UNCHANGED <<rows, disk, up, loaded, local, file, depth, conv, lapses, countVars>>

-----------------------------------------------------------------------------
(* The work inside: one app at a time, in any order *)

Working(w, t) == task[w][t].pc \in {"work", "trim"}

\* _app_lock: another install of the same app is between its load and its row.
AppBusy(w, t, a) == \E u \in Tasks \ {t} : task[w][u].todo[a] = "row"

\* runtime.load succeeds, or the app is broken and what it left is reverted.
Load(w, t, a) ==
  /\ Working(w, t) /\ task[w][t].todo[a] = "load"
  /\ a \notin loaded[w] /\ ~AppBusy(w, t, a)
  /\ disk' = disk \union {a}
  /\ IF a \in BrokenApps
       THEN loaded' = loaded /\ task' = Stage(w, t, a, "none")
       ELSE /\ loaded' = [loaded EXCEPT ![w] = @ \union {a}]
            /\ task' = Stage(w, t, a, "row")
  /\ UNCHANGED <<rows, up, local, file, depth, pending, conv, inbox, lapses,
                 countVars>>

\* The app is loaded already: a pass skips it; for a request runtime.load raises
\* and the failed install reverts "its" side effects by unloading the app.
LoadRefused(w, t, a) ==
  /\ Working(w, t) /\ task[w][t].todo[a] = "load"
  /\ a \in loaded[w] /\ ~AppBusy(w, t, a)
  /\ loaded' = IF t = "pass" THEN loaded ELSE [loaded EXCEPT ![w] = @ \ {a}]
  /\ lapses' = With("torn", t = "request")
  /\ task' = Stage(w, t, a, "none")
  /\ UNCHANGED <<rows, disk, up, local, file, depth, pending, conv, inbox,
                 countVars>>

\* LocalMirror.upsert; inside a pass the broadcast is only marked.
Record(w, t, a) ==
  /\ Working(w, t) /\ task[w][t].todo[a] = "row"
  /\ rows' = rows \union {a}
  /\ pending' = IF t = "pass" THEN Marked(w) ELSE pending
  /\ task' = [Stage(w, t, a, "none") EXCEPT ![w][t].changed = (t = "request")]
  /\ UNCHANGED <<disk, up, loaded, local, file, depth, conv, inbox, lapses,
                 countVars>>

Unload(w, t, a) ==
  /\ Working(w, t) /\ task[w][t].todo[a] = "unload"
  /\ loaded' = [loaded EXCEPT ![w] = @ \ {a}]
  /\ task' = Stage(w, t, a, "forget")
  /\ UNCHANGED <<rows, disk, up, local, file, depth, pending, conv, inbox, lapses,
                 countVars>>

\* LocalMirror.forget, then the package directory goes.
Forget(w, t, a) ==
  /\ Working(w, t) /\ task[w][t].todo[a] = "forget"
  /\ rows' = rows \ {a}
  /\ disk' = disk \ {a}
  /\ pending' = IF t = "pass" THEN Marked(w) ELSE pending
  /\ task' = [Stage(w, t, a, "none") EXCEPT ![w][t].changed = (t = "request")]
  /\ UNCHANGED <<up, loaded, local, file, depth, conv, inbox, lapses, countVars>>

\* Everything this stretch of work had to do is done.
WorkDone(w, t) ==
  /\ Working(w, t) /\ task[w][t].todo = Nothing
  /\ Goto(w, t, CASE t = "request" -> "leave"
                  [] t = "pass" /\ task[w][t].pc = "work" -> "prune"
                  [] OTHER -> "flush")
  /\ UNCHANGED <<rows, disk, up, loaded, local, file, depth, pending, conv, inbox,
                 lapses, countVars>>

-----------------------------------------------------------------------------
(* A reconcile pass *)

\* Arm the coalescing flag, read the desired set, install what is missing.  The
\* registry may answer anything: the console adds and removes apps by itself.
Plan(w) ==
  /\ task[w]["pass"].pc = "plan"
  /\ pending' = [pending EXCEPT ![w] = "clean"]
  /\ \E wanted \in SUBSET Apps :
       /\ lapses' = With("stray", ~(rows \ loaded[w] \subseteq wanted))
       /\ task' = [task EXCEPT ![w]["pass"].pc = "work", ![w]["pass"].wanted = wanted,
            ![w]["pass"].todo =
              [a \in Apps |-> IF a \in wanted \ loaded[w] THEN "load" ELSE "none"]]
  /\ UNCHANGED <<rows, disk, up, loaded, local, file, depth, conv, inbox,
                 countVars>>

\* Uninstall what is loaded and not desired.
Prune(w) ==
  /\ task[w]["pass"].pc = "prune"
  /\ task' = [task EXCEPT ![w]["pass"].pc = "trim",
       ![w]["pass"].todo = [a \in Apps |->
         IF a \in loaded[w] \ task[w]["pass"].wanted THEN "unload" ELSE "none"]]
  /\ UNCHANGED <<rows, disk, up, loaded, local, file, depth, pending, conv, inbox,
                 lapses, countVars>>

\* Disarm first, then publish once if anything changed.
Flush(w) ==
  /\ task[w]["pass"].pc = "flush"
  /\ pending' = [pending EXCEPT ![w] = "off"]
  /\ inbox' = IF pending[w] = "due" THEN Published ELSE inbox
  /\ Goto(w, "pass", "leave")
  /\ UNCHANGED <<rows, disk, up, loaded, local, file, depth, conv, lapses, countVars>>

\* Fault variant: the pass that is cut leaves the flag armed (card 3fc5bf3b).
CancelPassStaysArmed(w) ==
  /\ task[w]["pass"].pc \in Inside
  /\ cancels < MaxCancels
  /\ cancels' = cancels + 1
  /\ lapses' = With("cut", pending[w] = "due" \/ loaded[w] # rows)
  /\ depth' = [depth EXCEPT ![w] = @ - 1]
  /\ local' = LocalReturned(w, "pass")
  /\ file' = FileReturned(w, "pass")
  /\ task' = [task EXCEPT ![w]["pass"] = NoTask]
  /\ UNCHANGED <<rows, disk, up, loaded, pending, conv, inbox, requests, passes,
                 crashes, timeouts>>

\* The pass is cut by its timeout wherever it is: disarmed, locks returned, and
\* what it had committed stays unannounced.
CancelPass(w) ==
  /\ task[w]["pass"].pc \in Inside
  /\ cancels < MaxCancels
  /\ cancels' = cancels + 1
  /\ lapses' = With("cut", pending[w] = "due" \/ loaded[w] # rows)
  /\ pending' = [pending EXCEPT ![w] = "off"]
  /\ depth' = [depth EXCEPT ![w] = @ - 1]
  /\ local' = LocalReturned(w, "pass")
  /\ file' = FileReturned(w, "pass")
  /\ task' = [task EXCEPT ![w]["pass"] = NoTask]
  /\ UNCHANGED <<rows, disk, up, loaded, conv, inbox, requests, passes, crashes,
                 timeouts>>

-----------------------------------------------------------------------------
(* Convergence *)

\* The relay hands the next message to the handler.
Hear(w) ==
  /\ up[w] /\ inbox[w] /\ conv[w].pc = "idle"
  /\ inbox' = [inbox EXCEPT ![w] = FALSE]
  /\ conv' = [conv EXCEPT ![w].pc = "queue"]
  /\ UNCHANGED <<rows, disk, up, loaded, local, file, depth, pending, task, lapses,
                 countVars>>

\* Fault variant: a convergence pass does not wait for provisioning passes.
BeginConvergeUnguarded(w) ==
  /\ conv[w].pc = "queue"
  /\ conv' = [conv EXCEPT ![w] = [pc |-> "run", rows |-> rows, todo |-> rows \ loaded[w]]]
  /\ UNCHANGED <<rows, disk, up, loaded, local, file, depth, pending, task,
                 inbox, lapses, countVars>>

\* in_process_exclusive, then one read of the mirror.
BeginConverge(w) ==
  /\ conv[w].pc = "queue"
  /\ local[w] = "free"
  /\ local' = [local EXCEPT ![w] = "converge"]
  /\ conv' = [conv EXCEPT ![w] = [pc |-> "run", rows |-> rows, todo |-> rows \ loaded[w]]]
  /\ UNCHANGED <<rows, disk, up, loaded, file, depth, pending, task, inbox, lapses,
                 countVars>>

Detach(w, a) ==
  /\ conv[w].pc = "run"
  /\ a \in loaded[w] \ conv[w].rows
  /\ loaded' = [loaded EXCEPT ![w] = @ \ {a}]
  /\ UNCHANGED <<rows, disk, up, local, file, depth, pending, task, conv,
                 inbox, lapses, countVars>>

\* Detach comes first.  A package that is not on disk is skipped, never fetched.
Attach(w, a) ==
  /\ conv[w].pc = "run"
  /\ loaded[w] \subseteq conv[w].rows
  /\ a \in conv[w].todo
  /\ loaded' = IF a \in disk THEN [loaded EXCEPT ![w] = @ \union {a}] ELSE loaded
  /\ conv' = [conv EXCEPT ![w].todo = @ \ {a}]
  /\ UNCHANGED <<rows, disk, up, local, file, depth, pending, task, inbox, lapses,
                 countVars>>

Converged(w) ==
  /\ conv[w].pc = "run"
  /\ loaded[w] \subseteq conv[w].rows /\ conv[w].todo = {}
  /\ conv' = [conv EXCEPT ![w] = NoConverge]
  /\ local' = [local EXCEPT ![w] = "free"]
  /\ UNCHANGED <<rows, disk, up, loaded, file, depth, pending, task, inbox, lapses,
                 countVars>>

-----------------------------------------------------------------------------
(* Worker deaths *)

\* The kernel drops the file lock; the loaded apps and the tasks are gone.
WorkerDies(w) ==
  /\ up[w]
  /\ crashes < MaxCrashes
  /\ crashes' = crashes + 1
  /\ up' = [up EXCEPT ![w] = FALSE]
  /\ lapses' = With("cut", pending[w] = "due" \/ \E t \in Tasks : task[w][t].changed)
  /\ loaded' = [loaded EXCEPT ![w] = {}]
  /\ local' = [local EXCEPT ![w] = "free"]
  /\ file' = file \ {w}
  /\ depth' = [depth EXCEPT ![w] = 0]
  /\ pending' = [pending EXCEPT ![w] = "off"]
  /\ task' = [task EXCEPT ![w] = [t \in Tasks |-> NoTask]]
  /\ conv' = [conv EXCEPT ![w] = NoConverge]
  /\ inbox' = [inbox EXCEPT ![w] = FALSE]
  /\ UNCHANGED <<rows, disk, requests, passes, cancels, timeouts>>

\* A new process subscribes to apps:changed; attach_on_boot converges it once.
ReturnAttaching(w) ==
  /\ ~up[w]
  /\ up' = [up EXCEPT ![w] = TRUE]
  /\ conv' = [conv EXCEPT ![w].pc = "queue"]
  /\ UNCHANGED <<rows, disk, loaded, local, file, depth, pending, task, inbox, lapses,
                 countVars>>

\* Or it is the one that runs this boot's pass.
ReturnProvisioning(w) ==
  /\ ~up[w]
  /\ passes < MaxPasses
  /\ passes' = passes + 1
  /\ up' = [up EXCEPT ![w] = TRUE]
  /\ task' = [task EXCEPT ![w]["pass"] = [NoTask EXCEPT !.pc = "enter", !.op = "pass"]]
  /\ UNCHANGED <<rows, disk, loaded, local, file, depth, pending, conv, inbox, lapses,
                 requests, cancels, crashes, timeouts>>

-----------------------------------------------------------------------------

TaskStep(w, t) ==
  \/ Enter(w, t) \/ TakeLocal(w, t) \/ TakeFile(w, t) \/ GiveUpWaiting(w, t)
  \/ Leave(w, t) \/ Announce(w, t) \/ WorkDone(w, t)

AppStep(w, t, a) ==
  \/ Load(w, t, a) \/ LoadRefused(w, t, a) \/ Record(w, t, a)
  \/ Unload(w, t, a) \/ Forget(w, t, a)

Next ==
  \/ \E w \in Workers, op \in {"install", "uninstall"}, a \in Apps : Ask(w, op, a)
  \/ \E w \in Workers, t \in Tasks : TaskStep(w, t)
  \/ \E w \in Workers, t \in Tasks, a \in Apps : AppStep(w, t, a)
  \/ \E w \in Workers, a \in Apps : Detach(w, a) \/ Attach(w, a)
  \/ \E w \in Workers :
       BeginPass(w) \/ Plan(w) \/ Prune(w) \/ Flush(w) \/ CancelPass(w)
         \/ Hear(w) \/ BeginConverge(w) \/ Converged(w)
         \/ WorkerDies(w) \/ ReturnAttaching(w) \/ ReturnProvisioning(w)

Spec == Init /\ [][Next]_vars

-----------------------------------------------------------------------------
(* Properties *)

\* Nobody is inside the side-effecting half (pip, git and podman into one tree) while
\* another worker is.
OneWorkerInside ==
  \A v, w \in Workers, t, u \in Tasks :
    task[v][t].pc \in Inside /\ task[w][u].pc \in Inside => v = w

\* The lock promises it to all who did not give up waiting for it.
ProvisioningSerialized == "forced" \notin lapses => OneWorkerInside

\* It keeps that promise while no task rides on the lock of another of its worker:
\* tasks may be in flight together, and queue for the lock, as they like.
ProvisioningExclusive == lapses \intersect {"forced", "rode"} = {} => OneWorkerInside

\* Between its load and its mirror row, an install is not undone by a pass or a
\* convergence that sees the app loaded and not listed, while no task rides.
InstallWindowHeld ==
  "rode" \notin lapses =>
    \A w \in Workers, t \in Tasks, a \in Apps :
      task[w][t].todo[a] = "row" => a \in loaded[w]

\* Nothing is in flight and every message has been handled.
Quiet ==
  \A w \in Workers : /\ conv[w].pc = "idle" /\ ~inbox[w]
                     /\ \A t \in Tasks : task[w][t].pc = "idle"

\* Each live worker serves exactly the apps the mirror lists.
FleetConverged == \A w \in Workers : up[w] => loaded[w] = rows

\* No worker keeps serving an app the fleet dropped, or answers 404 for one it
\* has, once all is quiet (lifecycle.py, ATTACH).
ConvergedWhenQuiet == Quiet /\ lapses = {} => FleetConverged

\* The same when an install was refused: "already loaded" is an answer to the
\* caller, and the app it names goes on being served.
RefusedInstallHarmless == Quiet /\ lapses \subseteq {"torn"} => FleetConverged

\* The same when the registry dropped an app while it was not loaded: a pass
\* uninstalls what is not desired, and the fleet follows.
DroppedAppsGoEverywhere == Quiet /\ lapses \subseteq {"stray"} => FleetConverged
=============================================================================

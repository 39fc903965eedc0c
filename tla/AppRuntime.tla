----------------------------- MODULE AppRuntime -----------------------------
(* Loading and unloading of apps inside one worker (apps/runtime.py with the *)
(* facades of apps/base.py, the journal and the watchdog registry): what an  *)
(* app registers while it activates, what a failed or cancelled load leaves, *)
(* the drain before an unload, and the reverse replay of the journal.        *)
(*                                                                           *)
(* Operations on one app do not overlap (Reconciler's locks, see             *)
(* AppProvisioning); operations on different apps do.  An app's code is any  *)
(* code: it registers what it likes in any order, and may raise.             *)
EXTENDS Naturals, FiniteSets

CONSTANTS
  Apps,
  Tier2,      \* the apps among them that are containers
  Effects,    \* what a plugin registers: a subset of PluginEffects
  None,
  MaxOps,     \* bound on operations
  MaxFaults   \* bound on cancelled operations and failing reverts

PluginEffects == {"route", "watchdog", "service", "container", "command", "cli", "secret"}
Unique == {"watchdog", "service", "container"}     \* a second registration raises
Registry == Unique \cup {"cli"}                    \* kept in this process
Worldly == {"service", "container", "command", "cli", "secret"}   \* exists outside it too
Mounts == {"path", "host"}                         \* /api/apps/<slug> and <slug>.app.*

VARIABLES
  loaded,     \* the apps in _apps
  mounts,     \* mounts[a]: its entries in the host router
  registered, \* registered[a]: its entries in this process's supervisors
  journal,    \* journal[a]: the kinds of its journal entries
  outside,    \* outside[a]: what exists of it outside this process's memory: containers,
              \* CLIs, files on PATH, secrets, the service processes this worker spawned
  done,       \* done[a]: what the plugin has registered in this activate()
  active,     \* active[a]: requests inside the drain tracker
  op,         \* op[a]: the operation on a, and the step it has reached
  lock,       \* who holds _activate_lock
  loading,    \* _loading
  cut,        \* history: apps with an operation that was cancelled
  rushed,     \* history: apps whose drain ran out of time
  spoiled,    \* history: apps with a revert that failed
  last,       \* history: last[a], the kind of the last operation that ended
  ops, faults \* counters
runtimeVars == <<loaded, mounts, registered, journal, outside, done, active, op, lock, loading,
                 cut, rushed, spoiled, last, ops, faults>>

history == <<cut, rushed, spoiled>>
counters == <<ops, faults>>
state == <<registered, journal, outside, done>>

\* "upgrade" is the unload half of an update, "new" its load half, "old" the
\* rollback; "undo" and "undonew" are the unload that a failed load is owed.
Loads == {"install", "attach", "new", "old"}
Unloads == {"uninstall", "detach", "upgrade", "undo", "undonew"}
Provisions(a) == op[a].kind \notin {"attach", "detach"}
Purges(a) == op[a].kind \in {"uninstall", "undo", "undonew"}
Steps == {"idle", "locking", "activating", "starting", "publishing",
          "unmounting", "draining", "deactivating", "reverting"}

Init ==
  /\ loaded = {} /\ mounts = [a \in Apps |-> {}]
  /\ registered = [a \in Apps |-> {}] /\ journal = [a \in Apps |-> {}]
  /\ outside = [a \in Apps |-> {}] /\ done = [a \in Apps |-> {}] /\ active = [a \in Apps |-> 0]
  /\ op = [a \in Apps |-> [kind |-> "none", step |-> "idle"]]
  /\ lock = None /\ loading = None
  /\ cut = {} /\ rushed = {} /\ spoiled = {} /\ last = [a \in Apps |-> "none"]
  /\ ops = 0 /\ faults = 0

Idle(a) == op[a].step = "idle"
At(a, step) == op[a].step = step
Step(a, step) == op' = [op EXCEPT ![a].step = step] /\ UNCHANGED last
Become(a, kind, step) == op' = [op EXCEPT ![a] = [kind |-> kind, step |-> step]] /\ UNCHANGED last
Ends(a) ==
  /\ op' = [op EXCEPT ![a] = [kind |-> "none", step |-> "idle"]]
  /\ last' = [last EXCEPT ![a] = op[a].kind]
Fault == faults < MaxFaults /\ faults' = faults + 1 /\ UNCHANGED ops

\* A provisioning load that raised is owed an unload, an attaching one nothing.
Fails(a) ==
  CASE op[a].kind \in {"install", "old"} -> Become(a, "undo", "unmounting")
    [] op[a].kind = "new" -> Become(a, "undonew", "unmounting")
    [] OTHER -> Ends(a)

-----------------------------------------------------------------------------
(* Requests.  The guard stands outside the tracker: what it refuses never     *)
(* counts.                                                                   *)

RequestIn(a) ==
  /\ mounts[a] # {} /\ active[a] = 0
  /\ active' = [active EXCEPT ![a] = 1]
  /\ UNCHANGED <<loaded, mounts, state, op, lock, loading, history, last, counters>>

RequestOut(a) ==
  /\ active[a] = 1
  /\ active' = [active EXCEPT ![a] = 0]
  /\ UNCHANGED <<loaded, mounts, state, op, lock, loading, history, last, counters>>

-----------------------------------------------------------------------------
(* Operations.                                                               *)

FirstStep(a, kind) ==
  IF kind \in Unloads THEN "unmounting" ELSE IF a \in Tier2 THEN "starting" ELSE "locking"

\* An app that is loaded is not loaded again, one that is not is not unloaded.
Begin(a, kind) ==
  /\ Idle(a) /\ ops < MaxOps
  /\ kind \in IF a \in loaded THEN {"uninstall", "detach", "upgrade"} ELSE {"install", "attach"}
  /\ ops' = ops + 1
  /\ Become(a, kind, FirstStep(a, kind))
  /\ UNCHANGED <<loaded, mounts, state, active, lock, loading, history, faults>>

\* Another worker provisions the app: what this one may then attach to.
ProvisionedElsewhere(a) ==
  /\ Idle(a) /\ a \notin loaded /\ ops < MaxOps
  /\ LET theirs == IF a \in Tier2 THEN {"container"}
                   ELSE (Effects \cap Worldly) \ {"service"}
     IN outside[a] # theirs /\ outside' = [outside EXCEPT ![a] = theirs]
  /\ last' = [last EXCEPT ![a] = "none"]
  /\ UNCHANGED <<loaded, mounts, registered, journal, done, active, op, lock, loading,
                 history, counters>>

\* The plugin is imported; nothing is registered yet.
ImportFails(a) ==
  /\ At(a, "locking") /\ Fails(a)
  /\ UNCHANGED <<loaded, mounts, state, active, lock, loading, history, counters>>

EnterActivate(a) ==
  /\ At(a, "locking") /\ lock = None
  /\ lock' = a /\ loading' = a
  /\ done' = [done EXCEPT ![a] = {}]
  /\ Step(a, "activating")
  /\ UNCHANGED <<loaded, mounts, registered, journal, outside, active, history, counters>>

Leave == lock' = None /\ loading' = None

-----------------------------------------------------------------------------
(* What the plugin does with its context.  A facade skips what is shared when *)
(* the worker only attaches, and journals either way.                        *)

Record(a, e) == journal' = [journal EXCEPT ![a] = @ \cup {e}]
Register(a, e) == registered' = [registered EXCEPT ![a] = @ \cup {e}]
Create(a, e) ==
  outside' = IF Provisions(a) THEN [outside EXCEPT ![a] = @ \cup {e}] ELSE outside
Does(a, e) ==
  /\ At(a, "activating") /\ e \in Effects \ done[a]
  /\ done' = [done EXCEPT ![a] = @ \cup {e}]
  /\ UNCHANGED <<loaded, active, op, lock, loading, history, last, counters>>

\* ctx.routes.register: onto whatever app is loading, twice in the router.
RegisterRoutes(a) ==
  /\ Does(a, "route") /\ loading = a
  /\ mounts' = [mounts EXCEPT ![a] = Mounts]
  /\ Record(a, "route") /\ UNCHANGED <<registered, outside>>

RegisterWatchdog(a) ==
  /\ Does(a, "watchdog") /\ "watchdog" \notin registered[a]
  /\ Register(a, "watchdog") /\ Record(a, "watchdog") /\ UNCHANGED <<mounts, outside>>

RegisterService(a) ==
  /\ Does(a, "service") /\ "service" \notin registered[a]
  /\ Register(a, "service") /\ Record(a, "service") /\ Create(a, "service")
  /\ UNCHANGED mounts

RegisterContainer(a) ==
  /\ Does(a, "container") /\ "container" \notin registered[a]
  /\ Register(a, "container") /\ Record(a, "container") /\ Create(a, "container")
  /\ UNCHANGED mounts

InstallCommand(a) ==
  /\ Does(a, "command")
  /\ Record(a, "command") /\ Create(a, "command") /\ UNCHANGED <<mounts, registered>>

\* The installer run by every worker that loads the app.
InstallSystemCli(a) ==
  /\ Does(a, "cli")
  /\ Register(a, "cli") /\ Record(a, "cli") /\ Create(a, "cli") /\ UNCHANGED mounts

\* The one facade without a provisioning gate.
WriteSecret(a) ==
  /\ Does(a, "secret")
  /\ Record(a, "secret") /\ outside' = [outside EXCEPT ![a] = @ \cup {"secret"}]
  /\ UNCHANGED <<mounts, registered>>

-----------------------------------------------------------------------------
(* The end of activate().                                                    *)

ActivateReturns(a) ==
  /\ At(a, "activating") /\ done[a] = Effects /\ Leave
  /\ loaded' = loaded \cup {a}
  /\ IF Provisions(a) THEN Step(a, "publishing") ELSE Ends(a)
  /\ UNCHANGED <<mounts, state, active, history, counters>>

\* The handler: mounts, journal, watchdog tasks and modules go.  What was
\* registered with the other supervisors, or created, is not looked at.
ActivateRaises(a) ==
  /\ At(a, "activating") /\ Leave
  /\ mounts' = [mounts EXCEPT ![a] = {}]
  /\ journal' = [journal EXCEPT ![a] = {}]
  /\ registered' = [registered EXCEPT ![a] = @ \ {"watchdog"}]
  /\ Fails(a)
  /\ UNCHANGED <<loaded, outside, done, active, history, counters>>

\* Migrations may raise, and so may a copy into skills/, with the app already in
\* _apps; seeded tasks and agents, templates and repos are logged and skipped.
PublishFails(a) ==
  /\ At(a, "publishing") /\ Fails(a)
  /\ UNCHANGED <<loaded, mounts, state, active, lock, loading, history, counters>>

Published(a) ==
  /\ At(a, "publishing") /\ Ends(a)
  /\ UNCHANGED <<loaded, mounts, state, active, lock, loading, history, counters>>

-----------------------------------------------------------------------------
(* Tier 2: the container is registered, started by the provisioning worker    *)
(* and mounted; no lock, and no code of the app's own.                       *)

RegisterAndStart(a) ==
  /\ At(a, "starting") /\ "container" \notin registered[a]
  /\ Register(a, "container") /\ Record(a, "container") /\ Create(a, "container")
  /\ Step(a, "activating")
  /\ UNCHANGED <<loaded, mounts, done, active, lock, loading, history, counters>>

\* register() raises on a name that is taken, and so may everything before it.
RegisterRaises(a) ==
  /\ At(a, "starting") /\ Fails(a)
  /\ UNCHANGED <<loaded, mounts, state, active, lock, loading, history, counters>>

\* A sidecar that cannot be registered raises before the handler is in place.
SidecarRaises(a) ==
  /\ At(a, "starting") /\ "container" \notin registered[a]
  /\ Register(a, "container") /\ Record(a, "container")
  /\ Fails(a)
  /\ UNCHANGED <<loaded, mounts, outside, done, active, lock, loading, history, counters>>

ContainerUp(a) ==
  /\ a \in Tier2 /\ At(a, "activating")
  /\ mounts' = [mounts EXCEPT ![a] = Mounts] /\ Record(a, "route")
  /\ loaded' = loaded \cup {a}
  /\ IF Provisions(a) THEN Step(a, "publishing") ELSE Ends(a)
  /\ UNCHANGED <<registered, outside, done, active, lock, loading, history, counters>>

StopsContainer(a, world) ==
  IF Provisions(a) THEN [world EXCEPT ![a] = @ \ {"container"}] ELSE world

ContainerStartFails(a) ==
  /\ a \in Tier2 /\ At(a, "activating")
  /\ registered' = [registered EXCEPT ![a] = @ \ {"container"}]
  /\ outside' = StopsContainer(a, outside)
  /\ journal' = [journal EXCEPT ![a] = {}]
  /\ Fails(a)
  /\ UNCHANGED <<loaded, mounts, done, active, lock, loading, history, counters>>

-----------------------------------------------------------------------------
(* unload().                                                                 *)

\* The kind an unload goes on with.
Unloaded(a) ==
  CASE op[a].kind = "upgrade" -> Become(a, "new", FirstStep(a, "new"))
    [] op[a].kind = "undonew" -> Become(a, "old", FirstStep(a, "old"))
    [] OTHER -> Ends(a)

\* No LoadedApp: containers and services are stopped, CLIs and journal forgotten.
UnloadResidue(a) ==
  /\ At(a, "unmounting") /\ a \notin loaded
  /\ registered' = [registered EXCEPT ![a] = @ \ {"container", "service", "cli"}]
  /\ outside' = [outside EXCEPT ![a] = @ \ {"container", "service"}]
  /\ journal' = [journal EXCEPT ![a] = {}]
  /\ Unloaded(a)
  /\ UNCHANGED <<loaded, mounts, done, active, lock, loading, history, counters>>

\* The subdomain's entry left in the router.
UnmountPathOnly(a) ==
  /\ At(a, "unmounting") /\ a \in loaded
  /\ mounts' = [mounts EXCEPT ![a] = @ \ {"path"}]
  /\ registered' = [registered EXCEPT ![a] = @ \ {"watchdog"}]
  /\ Step(a, "draining")
  /\ UNCHANGED <<loaded, journal, outside, done, active, lock, loading, history, counters>>

Unmount(a) ==
  /\ At(a, "unmounting") /\ a \in loaded
  /\ mounts' = [mounts EXCEPT ![a] = {}]
  /\ registered' = [registered EXCEPT ![a] = @ \ {"watchdog"}]
  /\ Step(a, "draining")
  /\ UNCHANGED <<loaded, journal, outside, done, active, lock, loading, history, counters>>

Drained(a) ==
  /\ At(a, "draining") /\ active[a] = 0
  /\ Step(a, "deactivating")
  /\ UNCHANGED <<loaded, mounts, state, active, lock, loading, history, counters>>

DrainTimesOut(a) ==
  /\ At(a, "draining") /\ active[a] > 0
  /\ rushed' = rushed \cup {a}
  /\ Step(a, "deactivating")
  /\ UNCHANGED <<loaded, mounts, state, active, lock, loading, cut, spoiled, counters>>

\* A deactivate() that raises is logged.
Deactivated(a) ==
  /\ At(a, "deactivating")
  /\ Step(a, "reverting")
  /\ UNCHANGED <<loaded, mounts, state, active, lock, loading, history, counters>>

\* _revert_entry: the process-wide registry is cleared everywhere, the world
\* outside by the provisioning worker.
Revert(a, e) ==
  /\ At(a, "reverting") /\ e \in journal[a]
  /\ journal' = [journal EXCEPT ![a] = @ \ {e}]
  /\ registered' = [registered EXCEPT ![a] = @ \ ({e} \ {"cli"})]
  /\ outside' = IF Provisions(a) THEN [outside EXCEPT ![a] = @ \ ({e} \ {"secret"})]
                                 ELSE outside
  /\ UNCHANGED <<loaded, mounts, done, active, op, lock, loading, history, last, counters>>

RevertFails(a, e) ==
  /\ At(a, "reverting") /\ e \in journal[a] /\ Fault
  /\ journal' = [journal EXCEPT ![a] = @ \ {e}]
  /\ spoiled' = spoiled \cup {a}
  /\ UNCHANGED <<loaded, mounts, registered, outside, done, active, op, lock, loading, cut, rushed, last>>

\* Secrets go unless the unload is one half of an upgrade; CLIs are forgotten.
UnloadEnds(a) ==
  /\ At(a, "reverting") /\ journal[a] = {}
  /\ outside' = IF Purges(a) THEN [outside EXCEPT ![a] = @ \ {"secret"}] ELSE outside
  /\ registered' = [registered EXCEPT ![a] = @ \ {"cli"}]
  /\ loaded' = loaded \ {a}
  /\ rushed' = rushed \ {a}
  /\ Unloaded(a)
  /\ UNCHANGED <<mounts, journal, done, active, lock, loading, cut, spoiled, counters>>

\* wait_for around a pass runs out, or its task is cancelled: not an Exception,
\* no handler runs.  Only the lock is released.
Cancelled(a) ==
  /\ ~Idle(a) /\ Fault
  /\ lock' = IF lock = a THEN None ELSE lock
  /\ cut' = cut \cup {a}
  /\ Ends(a)
  /\ UNCHANGED <<loaded, mounts, state, active, loading, rushed, spoiled>>

-----------------------------------------------------------------------------
Next ==
  \E a \in Apps :
    \/ RequestIn(a) \/ RequestOut(a)
    \/ \E kind \in Loads \cup Unloads : Begin(a, kind)
    \/ ProvisionedElsewhere(a)
    \/ /\ a \notin Tier2
       /\ \/ ImportFails(a) \/ EnterActivate(a)
          \/ RegisterRoutes(a) \/ RegisterWatchdog(a) \/ RegisterService(a)
          \/ RegisterContainer(a) \/ InstallCommand(a) \/ InstallSystemCli(a) \/ WriteSecret(a)
          \/ ActivateReturns(a) \/ ActivateRaises(a)
    \/ PublishFails(a) \/ Published(a)
    \/ RegisterAndStart(a) \/ RegisterRaises(a) \/ SidecarRaises(a)
    \/ ContainerUp(a) \/ ContainerStartFails(a)
    \/ UnloadResidue(a) \/ Unmount(a) \/ Drained(a) \/ DrainTimesOut(a) \/ Deactivated(a)
    \/ \E e \in PluginEffects : Revert(a, e) \/ RevertFails(a, e)
    \/ UnloadEnds(a) \/ Cancelled(a)

Spec == Init /\ [][Next]_runtimeVars

-----------------------------------------------------------------------------
\* The shape of the state.
TypeOK ==
  /\ loaded \subseteq Apps /\ mounts \in [Apps -> SUBSET Mounts]
  /\ registered \in [Apps -> SUBSET Registry]
  /\ journal \in [Apps -> SUBSET PluginEffects] /\ outside \in [Apps -> SUBSET Worldly]
  /\ done \in [Apps -> SUBSET PluginEffects]
  /\ active \in [Apps -> 0..1]
  /\ op \in [Apps -> [kind : Loads \cup Unloads \cup {"none"}, step : Steps]]
  /\ lock \in Apps \cup {None} /\ loading \in Apps \cup {None}
  /\ cut \subseteq Apps /\ rushed \subseteq Apps /\ spoiled \subseteq Apps
  /\ last \in [Apps -> Loads \cup Unloads \cup {"none"}]
  /\ ops \in 0..MaxOps /\ faults \in 0..MaxFaults

\* _loading is this app's own for as long as its plugin activates, however many
\* apps load at the same time: an app's routes can only land on itself.
LoadingIsMine == \A a \in Apps \ Tier2 : At(a, "activating") => loading = a

\* The plugin is torn down, and what it registered reverted, with no request of
\* its own inside: none is let in after the unmount, by either address, and the
\* drain has waited for the others unless its time ran out.
NoRequestUnderTeardown ==
  \A a \in Apps : op[a].step \in {"deactivating", "reverting"} /\ a \notin rushed \cup cut
    => active[a] = 0

\* An uninstall takes back everything the app has in this process and all that was
\* installed for it outside, whichever worker had installed it: the worker that
\* serves the uninstall may only have attached.
UninstallTakesAllBack ==
  \A a \in Apps \ (loaded \cup cut \cup spoiled) : Idle(a) /\ last[a] = "uninstall"
    => mounts[a] = {} /\ registered[a] = {} /\ outside[a] = {}

\* After a provisioning load that failed, at whatever point, nothing of the app is
\* mounted or registered and no process or container of it is left: the retry
\* meets no duplicate.
RetryStartsClean ==
  \A a \in Apps \ (loaded \cup cut \cup spoiled) : Idle(a) /\ last[a] = "undo"
    => /\ mounts[a] = {} /\ registered[a] = {}
       /\ outside[a] \cap {"service", "container"} = {}

\* Only an uninstall throws an app's secrets away (docstring of unload()): an update,
\* also one that fails and is rolled back, keeps them.
UpdateKeepsSecrets ==
  [][\A a \in Apps : op[a].kind \in {"upgrade", "new", "undonew", "old"}
       => outside[a] \cap {"secret"} \subseteq outside'[a]]_runtimeVars

\* A load that failed leaves no registration behind, also where the worker only
\* attached (the comment on the handler, "residue-free failed load").
FailedAttachClean ==
  \A a \in Apps \ (loaded \cup cut) : Idle(a) /\ last[a] = "attach" => registered[a] = {}
=============================================================================

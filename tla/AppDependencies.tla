--------------------------- MODULE AppDependencies ---------------------------
(***************************************************************************)
(* One reconcile pass of the worker that provisions, and the apps that     *)
(* need other apps (src/apps/reconciler.py): _install_missing installs     *)
(* what is missing, the priority apps alone and the rest in a bounded      *)
(* pool; _install_dependencies installs what an app requires before it;    *)
(* two tasks that want one app meet at its lock; _reconcile_pass then      *)
(* upgrades, and removes what nothing needs.                               *)
(*                                                                         *)
(* A task is the install of one missing app.  Its stack is the chain of    *)
(* dependencies it is in the middle of, each with the next entry of its    *)
(* manifest's list.  Who may start a pass, and what rides along with one,  *)
(* is AppProvisioning's; what a load consists of is AppRuntime's.          *)
(***************************************************************************)
EXTENDS Naturals, Sequences, FiniteSets

CONSTANTS
    Apps,
    Priority,     \* BOOT_PRIORITY
    Manifests,    \* what the apps may require: functions to sequences of apps
    Concurrency,  \* AW_APPS_RECONCILE_CONCURRENCY
    MaxOps,       \* bound: passes, and changes of what is desired
    MaxFaults     \* bound: failed fetches, loads and removals, cancelled passes

VARIABLES
    deps,      \* app -> its required dependencies.apps, in order
    known,     \* the apps the registry, the mirror or the catalog can name
    desired,   \* the registry's rows
    stale,     \* loaded apps whose row has another version by now
    plan,      \* the pass's desired_active
    phase,     \* how far the pass is
    missing,   \* apps it has still to submit
    stack,     \* task -> frames [app, next]; <<>>: it is not running
    step,      \* what the innermost frame of a task is at
    lock,      \* _app_locks: app -> the tasks that hold it, one or none
    upgrades,  \* apps the pass has still to upgrade
    again,     \* tasks of an upgrade that have the old version to go back to
    doomed,    \* what the pass removes
    loaded,
    removed,   \* history: apps that were loaded and went
    failed,    \* history: apps at which an install of this pass failed
    ops, faults

depVars == <<deps, known, desired, stale, plan, phase, missing, stack, step, lock,
             upgrades, again, doomed, loaded, removed, failed, ops, faults>>
registry == <<deps, known, desired>>
pool == <<stack, step, lock, again>>

Running == {t \in Apps : stack[t] # <<>>}
Steps == {"idle", "lock", "fetch", "deps", "load"}
Phases == {"idle", "install", "upgrade", "remove"}

TypeOK ==
    /\ \A a \in Apps : \A i \in DOMAIN deps[a] : deps[a][i] \in Apps
    /\ desired \subseteq known /\ known \subseteq Apps
    /\ plan \cup missing \cup stale \cup upgrades \cup again \subseteq Apps
    /\ doomed \cup loaded \cup removed \cup failed \subseteq Apps
    /\ again \subseteq Running
    /\ phase \in Phases
    /\ step \in [Apps -> Steps]
    /\ \A a \in Apps :
          /\ (stack[a] = <<>>) = (step[a] = "idle")
          /\ \A i \in DOMAIN stack[a] : stack[a][i].next \in 1..Len(deps[stack[a][i].app]) + 1
          /\ Cardinality(lock[a]) <= 1
    /\ phase = "idle" => \A a \in Apps : stack[a] = <<>> /\ lock[a] = {}
    /\ ops \in 0..MaxOps
    /\ faults \in 0..MaxFaults

Init ==
    /\ deps \in Manifests
    /\ known \in SUBSET Apps
    /\ desired \in SUBSET known
    /\ stale = {} /\ plan = {} /\ missing = {} /\ upgrades = {} /\ again = {} /\ doomed = {}
    /\ phase = "idle"
    /\ stack = [a \in Apps |-> <<>>]
    /\ step = [a \in Apps |-> "idle"]
    /\ lock = [a \in Apps |-> {}]
    /\ loaded = {} /\ removed = {} /\ failed = {}
    /\ ops = 0 /\ faults = 0

Operation == ops < MaxOps /\ ops' = ops + 1
Fault == faults < MaxFaults /\ faults' = faults + 1

Top(t) == stack[t][Len(stack[t])]
At(t, s) == stack[t] # <<>> /\ step[t] = s
Goes(t, s) == step' = [step EXCEPT ![t] = s]
Required(a) == {deps[a][i] : i \in DOMAIN deps[a]}

(***************************************************************************)
(* The pass.                                                               *)
(***************************************************************************)
BeginPass ==
    /\ phase = "idle"
    /\ Operation
    /\ phase' = "install"
    /\ plan' = desired
    /\ missing' = desired \ loaded
    /\ upgrades' = desired \cap loaded \cap stale
    /\ failed' = {}
    /\ UNCHANGED <<registry, stale, pool, doomed, loaded, removed, faults>>

\* The next of the priority lane, one by one, or one for a free slot of the pool.
Submit(a) ==
    /\ phase = "install"
    /\ a \in missing
    /\ IF missing \cap Priority # {}
       THEN a \in Priority /\ Running = {}
       ELSE /\ Cardinality(Running) < Concurrency
            /\ Running \cap Priority = {}
    /\ missing' = missing \ {a}
    /\ stack' = [stack EXCEPT ![a] = <<[app |-> a, next |-> 1]>>]
    /\ Goes(a, "lock")
    /\ UNCHANGED <<registry, stale, plan, phase, lock, again, upgrades, doomed, loaded,
                   removed, failed, ops, faults>>

InstallsDone ==
    /\ phase = "install"
    /\ missing = {}
    /\ Running = {}
    /\ phase' = "upgrade"
    /\ UNCHANGED <<registry, stale, plan, missing, pool, upgrades, doomed, loaded,
                   removed, failed, ops, faults>>

(***************************************************************************)
(* One task: _install_provisioned, _install_locked, _install_dependencies. *)
(***************************************************************************)
\* The frame on top ends well: its lock goes, and the one below takes up its list
\* after it.
Return(t) ==
    LET n == Len(stack[t])
        below == SubSeq(stack[t], 1, n - 1)
    IN /\ stack' = [stack EXCEPT ![t] =
                       IF n = 1 THEN <<>> ELSE [below EXCEPT ![n - 1].next = @ + 1]]
       /\ Goes(t, IF n = 1 THEN "idle" ELSE "deps")
       /\ again' = IF n = 1 THEN again \ {t} ELSE again

\* An exception takes every frame of the task with it; install_one records it and the
\* pool goes on, an upgrade installs the version that was there.
Raise(t) ==
    /\ stack' = [stack EXCEPT ![t] =
                    IF t \in again THEN <<[app |-> t, next |-> 1]>> ELSE <<>>]
    /\ Goes(t, IF t \in again THEN "lock" ELSE "idle")
    /\ again' = again \ {t}
    /\ lock' = [a \in Apps |-> lock[a] \ {t}]
    /\ failed' = failed \cup {Top(t).app}

\* Whoever had the lock may have installed this very app: it is asked again.
TakeLock(t) ==
    /\ At(t, "lock")
    /\ LET a == Top(t).app
       IN /\ lock[a] = {}
          /\ IF a \in loaded
             THEN Return(t) /\ UNCHANGED lock
             ELSE /\ lock' = [lock EXCEPT ![a] = {t}]
                  /\ Goes(t, "fetch")
                  /\ UNCHANGED <<stack, again>>
    /\ UNCHANGED <<registry, stale, plan, phase, missing, upgrades, doomed, loaded,
                   removed, failed, ops, faults>>

\* _APP_LOCK_TIMEOUT: another task holds it, slow or in its turn waiting for this one.
LockTimesOutNever(t) == FALSE /\ UNCHANGED depVars

LockTimesOut(t) ==
    /\ At(t, "lock")
    /\ lock[Top(t).app] # {}
    /\ Raise(t)
    /\ UNCHANGED <<registry, stale, plan, phase, missing, upgrades, doomed, loaded,
                   removed, ops, faults>>

Fetch(t) ==
    /\ At(t, "fetch")
    /\ Goes(t, "deps")
    /\ UNCHANGED <<registry, stale, plan, phase, missing, stack, lock, again, upgrades,
                   doomed, loaded, removed, failed, ops, faults>>

\* A fetch that fails, a manifest that is not valid, a load that raises and is reverted.
InstallFails(t) ==
    /\ At(t, "fetch") \/ At(t, "load")
    /\ Fault
    /\ Raise(t)
    /\ UNCHANGED <<registry, stale, plan, phase, missing, upgrades, doomed, loaded,
                   removed, ops>>

NextDependency(t) == deps[Top(t).app][Top(t).next]
\* _known_dependency_rows, then the catalog.
Named(t) == NextDependency(t) \in known
Cyclic(t) == \E i \in DOMAIN stack[t] : stack[t][i].app = NextDependency(t)
HasDependency(t) == At(t, "deps") /\ Top(t).next <= Len(deps[Top(t).app])

DependencyIsLoaded(t) ==
    /\ HasDependency(t)
    /\ ~Cyclic(t)
    /\ NextDependency(t) \in loaded
    /\ stack' = [stack EXCEPT ![t][Len(stack[t])].next = @ + 1]
    /\ UNCHANGED <<registry, stale, plan, phase, missing, step, lock, again, upgrades,
                   doomed, loaded, removed, failed, ops, faults>>

DependencyMissing(t) ==
    /\ HasDependency(t)
    /\ ~Cyclic(t)
    /\ NextDependency(t) \notin loaded
    /\ Named(t)
    /\ stack' = [stack EXCEPT ![t] = Append(@, [app |-> NextDependency(t), next |-> 1])]
    /\ Goes(t, "lock")
    /\ UNCHANGED <<registry, stale, plan, phase, missing, lock, again, upgrades, doomed,
                   loaded, removed, failed, ops, faults>>

\* A chain that comes back to itself, or a dependency nobody can name.
DependencyRefused(t) ==
    /\ HasDependency(t)
    /\ Cyclic(t) \/ (NextDependency(t) \notin loaded /\ ~Named(t))
    /\ Raise(t)
    /\ UNCHANGED <<registry, stale, plan, phase, missing, upgrades, doomed, loaded,
                   removed, ops, faults>>

BeginLoad(t) ==
    /\ At(t, "deps")
    /\ Top(t).next > Len(deps[Top(t).app])
    /\ Goes(t, "load")
    /\ UNCHANGED <<registry, stale, plan, phase, missing, stack, lock, again, upgrades,
                   doomed, loaded, removed, failed, ops, faults>>

Load(t) ==
    /\ At(t, "load")
    /\ LET a == Top(t).app
       IN /\ loaded' = loaded \cup {a}
          /\ removed' = removed \ {a}
          /\ stale' = stale \ {a}
          /\ lock' = [lock EXCEPT ![a] = {}]
    /\ Return(t)
    /\ UNCHANGED <<registry, plan, phase, missing, upgrades, doomed, failed, ops,
                   faults>>

(***************************************************************************)
(* Upgrades and removals.                                                  *)
(***************************************************************************)
\* An app that is on both sides is taken down and installed again, one at a time.
Upgrade(a) ==
    /\ phase = "upgrade"
    /\ Running = {}
    /\ a \in upgrades \cap loaded
    /\ upgrades' = upgrades \ {a}
    /\ again' = again \cup {a}
    /\ loaded' = loaded \ {a}
    /\ removed' = removed \cup {a}
    /\ stale' = stale \ {a}
    /\ stack' = [stack EXCEPT ![a] = <<[app |-> a, next |-> 1]>>]
    /\ Goes(a, "lock")
    /\ UNCHANGED <<registry, plan, phase, missing, lock, doomed, failed, ops, faults>>

\* _loaded_dependency_closure: what is reached from the plan through loaded apps.
Closure ==
    LET grown[n \in 0..Cardinality(Apps)] ==
            IF n = 0 THEN plan
            ELSE grown[n - 1] \cup UNION {Required(a) : a \in grown[n - 1] \cap loaded}
    IN grown[Cardinality(Apps)]

UpgradesDone ==
    /\ phase = "upgrade"
    /\ Running = {}
    /\ upgrades \cap loaded = {}
    /\ doomed' = loaded \ Closure
    /\ phase' = "remove"
    /\ UNCHANGED <<registry, stale, plan, missing, pool, upgrades, loaded, removed,
                   failed, ops, faults>>

Remove(a) ==
    /\ phase = "remove"
    /\ a \in doomed
    /\ doomed' = doomed \ {a}
    /\ loaded' = loaded \ {a}
    /\ removed' = removed \cup {a}
    /\ stale' = stale \ {a}
    /\ UNCHANGED <<registry, plan, phase, missing, pool, failed, ops, faults, upgrades>>

RemoveFails(a) ==
    /\ phase = "remove"
    /\ a \in doomed
    /\ Fault
    /\ doomed' = doomed \ {a}
    /\ UNCHANGED <<registry, stale, plan, phase, missing, pool, upgrades, loaded, removed,
                   failed, ops>>

EndPass ==
    /\ phase = "remove"
    /\ doomed = {}
    /\ phase' = "idle"
    /\ plan' = {}
    /\ UNCHANGED <<registry, stale, missing, pool, upgrades, doomed, loaded, removed,
                   failed, ops, faults>>

\* The boot's budget runs out: every task of the pool is cancelled with the pass.
CancelPass ==
    /\ phase # "idle"
    /\ Fault
    /\ phase' = "idle"
    /\ plan' = {} /\ missing' = {} /\ upgrades' = {} /\ again' = {} /\ doomed' = {}
    /\ stack' = [a \in Apps |-> <<>>]
    /\ step' = [a \in Apps |-> "idle"]
    /\ lock' = [a \in Apps |-> {}]
    /\ UNCHANGED <<registry, stale, loaded, removed, failed, ops>>

(***************************************************************************)
(* Outside: the operator installs, uninstalls and updates elsewhere.       *)
(***************************************************************************)
Desire(rows) ==
    /\ Operation
    /\ desired' = rows
    /\ UNCHANGED <<deps, known, stale, plan, phase, missing, pool, upgrades, doomed,
                   loaded, removed, failed, faults>>

Bump(a) ==
    /\ a \in loaded \ stale
    /\ Operation
    /\ stale' = stale \cup {a}
    /\ UNCHANGED <<registry, plan, phase, missing, pool, upgrades, doomed, loaded,
                   removed, failed, faults>>

\* Nothing asks whether another app requires it.
Uninstall(a) ==
    /\ phase = "idle"
    /\ a \in loaded
    /\ Operation
    /\ desired' = desired \ {a}
    /\ loaded' = loaded \ {a}
    /\ removed' = removed \cup {a}
    /\ stale' = stale \ {a}
    /\ UNCHANGED <<deps, known, plan, phase, missing, pool, upgrades, doomed, failed, faults>>

TaskStep(t) ==
    \/ TakeLock(t) \/ LockTimesOut(t) \/ Fetch(t) \/ DependencyIsLoaded(t)
    \/ DependencyMissing(t) \/ DependencyRefused(t) \/ BeginLoad(t) \/ Load(t)

PassStep ==
    \/ \E a \in Apps : Submit(a) \/ TaskStep(a) \/ Upgrade(a) \/ Remove(a)
    \/ InstallsDone \/ UpgradesDone \/ EndPass

Next ==
    \/ BeginPass
    \/ PassStep
    \/ \E t \in Apps : InstallFails(t) \/ RemoveFails(t) \/ Bump(t) \/ Uninstall(t)
    \/ CancelPass
    \/ \E rows \in SUBSET known : Desire(rows)

Spec == Init /\ [][Next]_depVars

(***************************************************************************)
(* Properties                                                              *)
(***************************************************************************)
\* What an app requires was loaded before it, in whatever order the pool finished;
\* only a dependency that was taken away since may be lacking.
DependenciesFirst == \A a \in loaded : Required(a) \subseteq loaded \cup removed

\* The removals of a pass never take what an app that stays requires.
NothingNeededGoes ==
    doomed # {} => \A a \in plan \cap loaded : doomed \cap Required(a) = {}

\* Two tasks that want one app load it once.
LoadedOnce == \A t \in Apps : At(t, "load") => Top(t).app \notin loaded

\* One app's failure stays with the apps that require it: an app the pass leaves
\* out was refused for itself, or for one it requires.
Needs(a) ==
    LET grown[n \in 0..Cardinality(Apps)] ==
            IF n = 0 THEN {a}
            ELSE grown[n - 1] \cup UNION {Required(b) : b \in grown[n - 1]}
    IN grown[Cardinality(Apps)]

FailuresStayLocal ==
    phase = "upgrade" /\ Running = {} =>
        \A a \in plan \ loaded : Needs(a) \cap failed # {}

\* No pass gets stuck: there is a step that takes it further, also when two of its
\* tasks wait for each other's app.  (Every step of a pass takes it further, so one
\* whose tasks and timers run comes to its end.)
NoPassStuck == phase # "idle" => ENABLED PassStep
=============================================================================

----------------------------- MODULE MCRepairs -----------------------------
(***************************************************************************)
(* What the watchdog of the leading worker repairs, each on its own: the   *)
(* containers of an app and its command line. A behaviour is about one of  *)
(* the two, chosen at the start; the other stays at its first state.       *)
(***************************************************************************)
EXTENDS Naturals, Sequences, FiniteSets, TLC

CONSTANTS Workers, Slots, None,
          MaxCalls, MaxCallFaults,      \* bounds on what is asked of the containers
          MaxFails, MaxFaults, MaxOps   \* the breaker's limit; bounds on the watchdog

\* The bounds are numbers, and None is nobody.
ASSUME BoxesAssumption == MaxCalls \in Nat /\ MaxCallFaults \in Nat
ASSUME WatchdogAssumption ==
    /\ None \notin Workers
    /\ None \notin Workers \X {"heal", "job"}
    /\ MaxFails \in Nat
    /\ MaxFaults \in Nat
    /\ MaxOps \in Nat

VARIABLES
    which,   \* the component a behaviour is about
    boxesInstalled, boxesEnv, boxesAuto, boxesSpec, boxesEngine, boxesHost,
    boxesTask, boxesLanded, boxesStopped, boxesRemoval, boxesOps, boxesFaults,
    watchUp, watchFlock, watchLease, watchLeading, watchTasks, watchLoops,
    watchTracked, watchFails, watchHeal, watchJob, watchLock, watchOwed,
    watchApp, watchCli, watchFaults, watchOps

boxesVars == <<boxesInstalled, boxesEnv, boxesAuto, boxesSpec, boxesEngine,
               boxesHost, boxesTask, boxesLanded, boxesStopped, boxesRemoval,
               boxesOps, boxesFaults>>
watchVars == <<watchUp, watchFlock, watchLease, watchLeading, watchTasks,
               watchLoops, watchTracked, watchFails, watchHeal, watchJob,
               watchLock, watchOwed, watchApp, watchCli, watchFaults,
               watchOps>>

Boxes == INSTANCE Containers WITH
    installed <- boxesInstalled, env <- boxesEnv, auto <- boxesAuto,
    spec <- boxesSpec, engine <- boxesEngine, host <- boxesHost,
    task <- boxesTask, landed <- boxesLanded, stopped <- boxesStopped,
    removal <- boxesRemoval, ops <- boxesOps, faults <- boxesFaults,
    Tasks <- Slots, MaxOps <- MaxCalls, MaxFaults <- MaxCallFaults

Watch == INSTANCE WatchdogLease WITH
    up <- watchUp, flock <- watchFlock, lease <- watchLease,
    leading <- watchLeading, tasks <- watchTasks, loops <- watchLoops,
    tracked <- watchTracked, fails <- watchFails, heal <- watchHeal,
    job <- watchJob, lock <- watchLock, owed <- watchOwed, app <- watchApp,
    cli <- watchCli, faults <- watchFaults, ops <- watchOps

Components == {"boxes", "watch"}

Init ==
    /\ which \in Components
    /\ Boxes!Init
    /\ Watch!Init

Unmoved(others) == UNCHANGED <<which, others>>

BoxesMoves ==
    /\ which = "boxes"
    /\ Boxes!Next
    /\ Unmoved(<<watchVars>>)

WatchMoves ==
    /\ which = "watch"
    /\ Watch!Next
    /\ Unmoved(<<boxesVars>>)

Next == BoxesMoves \/ WatchMoves

\* Nothing that Boxes!Fairness asks for is enabled in its first state; a server that
\* starts its workers is, so the watchdog's fairness is asked of its own behaviours only.
Fairness ==
    /\ Boxes!Fairness
    /\ which = "watch" => Watch!Fairness

vars == <<which, boxesVars, watchVars>>

Spec == Init /\ [][Next]_vars /\ Fairness

(***************************************************************************)
(* Properties                                                              *)
(***************************************************************************)
\* The component at work keeps its variables in their types.
TypeOK ==
    /\ which = "boxes" => Boxes!TypeOK
    /\ which = "watch" => Watch!TypeOK

\* A watchdog task spins in one live worker at most, and of the package scripts of
\* installs, reverts and the healer one runs at a time.
OneAtATime == Watch!TasksSpinOnce /\ Watch!OneScript

\* What breaks is repaired, whichever worker leads the watchdog then: in the end no
\* registered container, app or sidecar, dials a workspace that no longer exists, and a
\* command line that breaks while its app is installed is installed again, unless the app
\* goes or the leader has failed so often that it stops trying
\* (runtime._heal_workspace_host_drift, CommandInstaller.check_system_cli).
DriftIsRepaired == Boxes!DriftHeals /\ Watch!DriftRepaired
=============================================================================

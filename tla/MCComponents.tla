---------------------------- MODULE MCComponents ----------------------------
(***************************************************************************)
(* What is checked for safety alone, each component on its own: the        *)
(* settings of an app and how they reach the workers, the panel that       *)
(* follows an install, loading and unloading (of two plugins, or one and   *)
(* an app that is containers), containers, VPN profiles, releases and      *)
(* their power, the trees and volumes of a container *)
(* app, a pass that installs apps which need each other, what the MCP      *)
(* gateway serves, and the tasks and agents that apps seed and correct. A  *)
(* behaviour is about one of them, chosen at the start; the others stay at *)
(* their first state.                                                      *)
(***************************************************************************)
EXTENDS Naturals, Sequences, FiniteSets, TLC

CONSTANTS Workers, Requests, Tasks, Names, Panels, AppA, AppB, AppC, Gateway,
          Leader, SettingKeys, None,
          Loadable,          \* the apps loaded and unloaded,
          Contained,         \* and those of them that are containers
          MaxSaves,          \* bounds of the settings,
          MaxConfigFaults,
          MaxJobsFaults,     \* of the install jobs,
          MaxLoads,          \* of loads,
          MaxLoadFaults,
          MaxUpdates,        \* of updates,
          MaxFiles,          \* of an app's data,
          MaxOps,            \* and of the others
          MaxFaults,
          Releases, Hosts,   \* what updates choose from: see AppSettings
          Packages, Mapped,  \* container apps: see AppTrees,
          Manifests, Priority, Concurrency,   \* passes: see AppDependencies,
          Tries, BootTries,  \* posts to the gateway: see McpGateway,
          Texts              \* and profiles: see VpnDialing

\* A plugin has a setting, and a request is no worker.
ASSUME SettingsAssumption ==
    /\ SettingKeys # {}
    /\ Workers \cap Requests = {} /\ None \notin Workers \cup Requests

\* No worker, no profile, of no kind.
ASSUME ProfilesAssumption == None \notin Workers \cup Names \cup {"wireguard", "openvpn"}

ASSUME JobsAssumption == MaxJobsFaults \in Nat

ASSUME BoundsAssumption == MaxOps \in Nat /\ MaxFaults \in Nat

ASSUME LoadsAssumption == None \notin Loadable

VARIABLES
    which,   \* the component a behaviour is about
    configMem, configMirror, configSnap, configToken, configSeen,
    configHeard, configLock, configGate, configRows, configReq, configSaves,
    configFaults, configStamped, configAcked, configSlips,
    jobsJob, jobsMirror, jobsSending, jobsLoaded, jobsWanted, jobsReq,
    jobsPushes, jobsLinked, jobsInbox, jobsPanel, jobsDue, jobsFaults,
    appLoaded, appMounts, appRegistered, appJournal, appOutside, appDone,
    appActive, appOp, appLock, appLoading, appCut, appRushed, appSpoiled,
    appLast, appOps, appFaults,
    boxesInstalled, boxesEnv, boxesAuto, boxesSpec, boxesEngine, boxesHost,
    boxesTask, boxesLanded, boxesStopped, boxesRemoval, boxesOps, boxesFaults,
    vpnLock, vpnFiles, vpnIndex, vpnReq, vpnKeyFiles, vpnDial, vpnTunnel,
    vpnRouted, vpnKept, vpnAnswer, vpnOps, vpnFaults,
    settingsHost, settingsVersion, settingsRow, settingsSnap, settingsApp,
    settingsBox, settingsDatadir, settingsJob, settingsMinted, settingsHeld,
    settingsOps, settingsFaults,
    treesWanted, treesTree, treesAside, treesCheckout, treesFiles, treesTop,
    treesUid, treesFolders, treesJob, treesSpec, treesBox, treesSwept,
    treesLost, treesOps, treesFaults,
    depsDeps, depsKnown, depsDesired, depsStale, depsPlan, depsPhase,
    depsMissing, depsStack, depsStep, depsLock, depsUpgrades, depsAgain,
    depsDoomed, depsLoaded, depsRemoved, depsFailed, depsOps, depsFaults,
    toolsThere, toolsWants, toolsPackage, toolsCopy, toolsLoaded, toolsBoot,
    toolsPass, toolsPending, toolsPosts, toolsRescan, toolsGw, toolsServed,
    toolsOwed, toolsOps, toolsFaults,
    seedsKind, seedsCapable, seedsWanted, seedsHosted, seedsMem, seedsProv,
    seedsPending, seedsBoot, seedsRun, seedsLive, seedsLocal, seedsRemote,
    seedsLate, seedsSlips, seedsUndone, seedsOps, seedsFaults

configVars == <<configMem, configMirror, configSnap, configToken, configSeen,
                configHeard, configLock, configGate, configRows, configReq,
                configSaves, configFaults, configStamped, configAcked,
                configSlips>>
jobsVars == <<jobsJob, jobsMirror, jobsSending, jobsLoaded, jobsWanted,
              jobsReq, jobsPushes, jobsLinked, jobsInbox, jobsPanel, jobsDue,
              jobsFaults>>
appVars == <<appLoaded, appMounts, appRegistered, appJournal, appOutside,
             appDone, appActive, appOp, appLock, appLoading, appCut,
             appRushed, appSpoiled, appLast, appOps, appFaults>>
boxesVars == <<boxesInstalled, boxesEnv, boxesAuto, boxesSpec, boxesEngine,
               boxesHost, boxesTask, boxesLanded, boxesStopped, boxesRemoval,
               boxesOps, boxesFaults>>
vpnVars == <<vpnLock, vpnFiles, vpnIndex, vpnReq, vpnKeyFiles, vpnDial,
             vpnTunnel, vpnRouted, vpnKept, vpnAnswer, vpnOps, vpnFaults>>
settingsVars == <<settingsHost, settingsVersion, settingsRow, settingsSnap,
                  settingsApp, settingsBox, settingsDatadir, settingsJob,
                  settingsMinted, settingsHeld, settingsOps, settingsFaults>>
treesVars == <<treesWanted, treesTree, treesAside, treesCheckout, treesFiles,
               treesTop, treesUid, treesFolders, treesJob, treesSpec,
               treesBox, treesSwept, treesLost, treesOps, treesFaults>>
depsVars == <<depsDeps, depsKnown, depsDesired, depsStale, depsPlan,
              depsPhase, depsMissing, depsStack, depsStep, depsLock,
              depsUpgrades, depsAgain, depsDoomed, depsLoaded, depsRemoved,
              depsFailed, depsOps, depsFaults>>
toolsVars == <<toolsThere, toolsWants, toolsPackage, toolsCopy, toolsLoaded,
               toolsBoot, toolsPass, toolsPending, toolsPosts, toolsRescan,
               toolsGw, toolsServed, toolsOwed, toolsOps, toolsFaults>>
seedsVars == <<seedsKind, seedsCapable, seedsWanted, seedsHosted, seedsMem,
               seedsProv, seedsPending, seedsBoot, seedsRun, seedsLive,
               seedsLocal, seedsRemote, seedsLate, seedsSlips, seedsUndone,
               seedsOps, seedsFaults>>

\* What the plugin that is not a container registers.
Plugged == {"route", "service", "command", "cli"}

\* WireGuard profiles: one to be dialled, and one with a hook and two peers.
TwoTexts == {<<"[interface]", "private", "[peer]", "public">>,
             <<"[interface]", "private", "hook", "[peer]", "public", "[peer]", "public">>}

Release(needs, required, optional, perms, signed, standalone) ==
    [needs |-> needs, required |-> required, optional |-> optional, perms |-> perms,
     signed |-> signed, standalone |-> standalone]
FiveReleases == {Release(1, {"kvm"}, {"gpu"}, {"kvm", "gpu"}, TRUE, TRUE),
                 Release(2, {}, {"gpu"}, {"gpu"}, TRUE, FALSE),
                 Release(1, {}, {"gpu"}, {"gpu"}, FALSE, TRUE),
                 Release(1, {"gpu"}, {}, {}, TRUE, TRUE),
                 Release(1, {}, {"privileged"}, {"privileged"}, TRUE, FALSE)}
ThreeHosts == {{}, {"kvm", "gpu"}, {"privileged"}}

\* A container told its user by its environment, one told by a flag that mounts
\* its checkout, and one that asks for more than an unsigned app gets.
Volume(source, mode) == [source |-> source, mode |-> mode]
ThreePackages == {
    [ver |-> 1, signed |-> FALSE, user |-> "env", repo |-> FALSE,
     perms |-> {"fs:workspace-data"},
     volumes |-> {Volume("package", "ro"), Volume("$AW_APP_DATA", "rw"),
                  Volume("$AW_WORKSPACE_FOLDERS", "rw")}],
    [ver |-> 2, signed |-> TRUE, user |-> "flag", repo |-> TRUE,
     perms |-> {"fs:workspace-data", "repos:contribute"},
     volumes |-> {Volume("$AW_WORKSPACE_REPO", "rw"), Volume("$AW_APP_DATA", "rw")}],
    [ver |-> 2, signed |-> FALSE, user |-> "flag", repo |-> FALSE,
     perms |-> {"fs:workspace-read", "fs:workspace-write"},
     volumes |-> {Volume("$AW_WORKSPACE_ROOT", "rw")}]}
\* An app that shares a dependency with what it requires, and two that require each other.
TwoManifests == {AppA :> <<AppB, AppC>> @@ AppB :> <<AppC>> @@ AppC :> <<>>,
                 AppA :> <<AppB>> @@ AppB :> <<AppA>> @@ AppC :> <<>>}

OneFolder == {[name |-> "notes", path |-> "/home/notes", mode |-> "ro"]}

Config == INSTANCE ConfigPropagation WITH
    mem <- configMem, mirror <- configMirror, snap <- configSnap,
    token <- configToken, seen <- configSeen, heard <- configHeard,
    lock <- configLock, gate <- configGate, rows <- configRows,
    req <- configReq, saves <- configSaves, faults <- configFaults,
    stamped <- configStamped, acked <- configAcked, slips <- configSlips,
    Keys <- SettingKeys, MaxFaults <- MaxConfigFaults

Jobs == INSTANCE InstallJobs WITH
    job <- jobsJob, mirror <- jobsMirror, sending <- jobsSending,
    loaded <- jobsLoaded, wanted <- jobsWanted, req <- jobsReq,
    pushes <- jobsPushes, linked <- jobsLinked, inbox <- jobsInbox,
    panel <- jobsPanel, due <- jobsDue, faults <- jobsFaults,
    Requests <- Panels, MaxFaults <- MaxJobsFaults, Watching <- TRUE

Mixed == INSTANCE AppRuntime WITH
    loaded <- appLoaded, mounts <- appMounts, registered <- appRegistered,
    journal <- appJournal, outside <- appOutside, done <- appDone,
    active <- appActive, op <- appOp, lock <- appLock, loading <- appLoading,
    cut <- appCut, rushed <- appRushed, spoiled <- appSpoiled,
    last <- appLast, ops <- appOps, faults <- appFaults,
    Apps <- Loadable, Tier2 <- Contained, Effects <- Plugged,
    MaxOps <- MaxLoads, MaxFaults <- MaxLoadFaults

Twins == INSTANCE AppRuntime WITH
    loaded <- appLoaded, mounts <- appMounts, registered <- appRegistered,
    journal <- appJournal, outside <- appOutside, done <- appDone,
    active <- appActive, op <- appOp, lock <- appLock, loading <- appLoading,
    cut <- appCut, rushed <- appRushed, spoiled <- appSpoiled,
    last <- appLast, ops <- appOps, faults <- appFaults,
    Apps <- Loadable, Tier2 <- {},
    Effects <- {"watchdog", "container", "secret"}, MaxOps <- MaxLoads,
    MaxFaults <- MaxLoadFaults

Boxes == INSTANCE Containers WITH
    installed <- boxesInstalled, env <- boxesEnv, auto <- boxesAuto,
    spec <- boxesSpec, engine <- boxesEngine, host <- boxesHost,
    task <- boxesTask, landed <- boxesLanded, stopped <- boxesStopped,
    removal <- boxesRemoval, ops <- boxesOps, faults <- boxesFaults,
    MaxFaults <- 0

\* No version of the settings, and no container.
ASSUME ContainersAssumption ==
    None \notin Nat /\ None \notin [env : Nat, host : Nat, by : Workers]

Vpn == INSTANCE VpnDialing WITH
    lock <- vpnLock, files <- vpnFiles, index <- vpnIndex, req <- vpnReq,
    keyFiles <- vpnKeyFiles, dial <- vpnDial, tunnel <- vpnTunnel,
    routed <- vpnRouted, kept <- vpnKept, answer <- vpnAnswer, ops <- vpnOps,
    faults <- vpnFaults

Settings == INSTANCE AppSettings WITH
    host <- settingsHost, version <- settingsVersion, row <- settingsRow,
    snap <- settingsSnap, app <- settingsApp, box <- settingsBox,
    datadir <- settingsDatadir, job <- settingsJob, minted <- settingsMinted,
    held <- settingsHeld, ops <- settingsOps, faults <- settingsFaults,
    Manifests <- Releases, Offers <- Hosts, Versions <- 0..1,
    MaxOps <- MaxUpdates

\* No settings, no row and no install.
ASSUME UpdatesAssumption ==
    LET configs == [secret : Nat, public : Settings!Publics]
        rows == [man : Releases, cfg : configs]
    IN /\ None \notin configs
       /\ None \notin rows
       /\ None \notin [step : Settings!Steps, man : Releases, cfg : configs,
                       prev : rows \cup {None}, was : Releases \cup {None}]

Trees == INSTANCE AppTrees WITH
    wanted <- treesWanted, tree <- treesTree, aside <- treesAside,
    checkout <- treesCheckout, files <- treesFiles, top <- treesTop,
    uid <- treesUid, folders <- treesFolders, job <- treesJob,
    spec <- treesSpec, box <- treesBox, swept <- treesSwept,
    lost <- treesLost, ops <- treesOps, faults <- treesFaults,
    Releases <- Packages, Folders <- Mapped, Uids <- 1..2

\* No user, no tree and no job.
ASSUME TreesAssumption ==
    /\ None \notin 1..2
    /\ None \notin [ver : Trees!Versions, whole : BOOLEAN, data : Trees!Versions \cup {None}]
    /\ None \notin [step : Trees!Steps, rel : Packages, env : 1..2]

Deps == INSTANCE AppDependencies WITH
    deps <- depsDeps, known <- depsKnown, desired <- depsDesired,
    stale <- depsStale, plan <- depsPlan, phase <- depsPhase,
    missing <- depsMissing, stack <- depsStack, step <- depsStep,
    lock <- depsLock, upgrades <- depsUpgrades, again <- depsAgain,
    doomed <- depsDoomed, loaded <- depsLoaded, removed <- depsRemoved,
    failed <- depsFailed, ops <- depsOps, faults <- depsFaults,
    Apps <- {AppA, AppB, AppC}

\* Three apps, which require some of them.
ASSUME PassesAssumption ==
    /\ AppA # AppB /\ AppA # AppC /\ AppB # AppC
    /\ Manifests # {} /\ Manifests \subseteq [{AppA, AppB, AppC} -> Seq({AppA, AppB, AppC})]

Tools == INSTANCE McpGateway WITH
    there <- toolsThere, wants <- toolsWants, package <- toolsPackage,
    copy <- toolsCopy, loaded <- toolsLoaded, boot <- toolsBoot,
    pass <- toolsPass, pending <- toolsPending, posts <- toolsPosts,
    rescan <- toolsRescan, gw <- toolsGw, served <- toolsServed,
    owed <- toolsOwed, ops <- toolsOps, faults <- toolsFaults,
    Apps <- {AppA, AppB}, Sideloaded <- {AppB}, MaxOps <- 2

\* Whoever posts tries.
ASSUME PostsAssumption ==
    /\ None \notin Workers
    /\ Tries \in Nat \ {0} /\ BootTries \in Nat \ {0}

Seeds == INSTANCE SeededContent WITH
    kind <- seedsKind, capable <- seedsCapable, wanted <- seedsWanted,
    hosted <- seedsHosted, mem <- seedsMem, prov <- seedsProv,
    pending <- seedsPending, boot <- seedsBoot, run <- seedsRun,
    live <- seedsLive, local <- seedsLocal, remote <- seedsRemote,
    late <- seedsLate, slips <- seedsSlips, undone <- seedsUndone,
    ops <- seedsOps, faults <- seedsFaults, Apps <- {AppA}, Provider <- AppB,
    Releases <- 2..3

\* The provider is another app, and None no object, and no seeding.
ASSUME SeedsAssumption ==
    /\ AppA # AppB /\ Leader \in Workers
    /\ None \notin [content : (2..3) \cup {Seeds!Own}, by : {"app", "user"}]
    /\ None \notin [by : Workers, todo : Seq([app : {AppA}, rel : 2..3]) \ {<<>>},
                    step : {"create", "read", "write", "record"},
                    seen : (2..3) \cup {Seeds!Own}]

Components == {"config", "jobs", "mixed", "twins", "boxes", "vpn", "settings", "trees",
               "deps", "tools", "seeds"}

Init ==
    /\ which \in Components
    /\ Config!Init
    /\ Jobs!Init
    /\ Mixed!Init
    /\ Boxes!Init
    /\ Vpn!Init
    /\ Settings!Init
    /\ Trees!Init
    /\ Deps!Init
    /\ Tools!Init
    /\ Seeds!Init
    /\ which # "jobs" => ~jobsWanted
    /\ which # "settings" => settingsHost = {} /\ settingsVersion = 0
    /\ which # "trees" => treesUid = 1
    /\ which # "tools" =>
           toolsBoot = [w \in Workers |-> IF w = Leader THEN "provisions" ELSE "attaches"]
    /\ which # "deps" => depsKnown = {} /\ depsDeps = CHOOSE m \in Manifests : TRUE
    /\ which # "seeds" => seedsKind = "tasks" /\ ~seedsHosted /\ seedsLive[AppA] = None

Unmoved(others) == UNCHANGED <<which, others>>

ConfigMoves ==
    /\ which = "config"
    /\ Config!Next
    /\ Unmoved(<<jobsVars, appVars, boxesVars, vpnVars, settingsVars,
                 treesVars, depsVars, toolsVars, seedsVars>>)

JobsMoves ==
    /\ which = "jobs"
    /\ Jobs!Next
    /\ Unmoved(<<configVars, appVars, boxesVars, vpnVars, settingsVars,
                 treesVars, depsVars, toolsVars, seedsVars>>)

MixedMoves ==
    /\ which = "mixed"
    /\ Mixed!Next
    /\ Unmoved(<<configVars, jobsVars, boxesVars, vpnVars, settingsVars,
                 treesVars, depsVars, toolsVars, seedsVars>>)

TwinsMoves ==
    /\ which = "twins"
    /\ Twins!Next
    /\ Unmoved(<<configVars, jobsVars, boxesVars, vpnVars, settingsVars,
                 treesVars, depsVars, toolsVars, seedsVars>>)

BoxesMoves ==
    /\ which = "boxes"
    /\ Boxes!Next
    /\ Unmoved(<<configVars, jobsVars, appVars, vpnVars, settingsVars,
                 treesVars, depsVars, toolsVars, seedsVars>>)

VpnMoves ==
    /\ which = "vpn"
    /\ Vpn!Next
    /\ Unmoved(<<configVars, jobsVars, appVars, boxesVars, settingsVars,
                 treesVars, depsVars, toolsVars, seedsVars>>)

SettingsMoves ==
    /\ which = "settings"
    /\ Settings!Next
    /\ Unmoved(<<configVars, jobsVars, appVars, boxesVars, vpnVars,
                 treesVars, depsVars, toolsVars, seedsVars>>)

TreesMoves ==
    /\ which = "trees"
    /\ Trees!Next
    /\ Unmoved(<<configVars, jobsVars, appVars, boxesVars, vpnVars,
                 settingsVars, depsVars, toolsVars, seedsVars>>)

DepsMoves ==
    /\ which = "deps"
    /\ Deps!Next
    /\ Unmoved(<<configVars, jobsVars, appVars, boxesVars, vpnVars,
                 settingsVars, treesVars, toolsVars, seedsVars>>)

ToolsMoves ==
    /\ which = "tools"
    /\ Tools!Next
    /\ Unmoved(<<configVars, jobsVars, appVars, boxesVars, vpnVars,
                 settingsVars, treesVars, depsVars, seedsVars>>)

SeedsMoves ==
    /\ which = "seeds"
    /\ Seeds!Next
    /\ Unmoved(<<configVars, jobsVars, appVars, boxesVars, vpnVars,
                 settingsVars, treesVars, depsVars, toolsVars>>)

Next ==
    \/ ConfigMoves
    \/ JobsMoves
    \/ MixedMoves
    \/ TwinsMoves
    \/ BoxesMoves
    \/ VpnMoves
    \/ SettingsMoves
    \/ TreesMoves
    \/ DepsMoves
    \/ ToolsMoves
    \/ SeedsMoves

vars == <<which, configVars, jobsVars, appVars, boxesVars, vpnVars,
          settingsVars, treesVars, depsVars, toolsVars,
          seedsVars>>

Spec == Init /\ [][Next]_vars

\* No component tells one profile's name from another.
Alike == Permutations(Names)

\* bound: one kind of loss at a time, an uninstall under way being none of them; and where
\* changes have overlapped no fault is followed, and of the last request only a read.
FewSlips ==
    /\ Cardinality(configSlips \ {"removed", "overlapped"}) <= 1
    /\ "overlapped" \in configSlips => configFaults = 0 /\ configReq[3].kind = "read"

\* Requests are alike, and workers are: requests come in the order of their numbers, and
\* the first comes to one worker.
InTurn ==
    /\ configReq[1].at \in {None, CHOOSE w \in Workers : TRUE}
    /\ \A r \in Requests : \A s \in Requests :
           r < s /\ configReq[s].phase # "new" => configReq[r].phase # "new"

(***************************************************************************)
(* Properties                                                              *)
(***************************************************************************)
\* The component at work keeps its variables in their types.
TypeOK ==
    /\ which = "config" => Config!TypeOK
    /\ which = "jobs" => Jobs!TypeOK
    /\ which = "mixed" => Mixed!TypeOK
    /\ which = "twins" => Twins!TypeOK
    /\ which = "boxes" => Boxes!TypeOK
    /\ which = "vpn" => Vpn!TypeOK
    /\ which = "settings" => Settings!TypeOK
    /\ which = "trees" => Trees!TypeOK
    /\ which = "deps" => Deps!TypeOK
    /\ which = "tools" => Tools!TypeOK
    /\ which = "seeds" => Seeds!TypeOK

\* A request is served with settings as new as the last save announced before it came, and
\* no acknowledged setting is lost, until two changes are in flight together (a save then
\* writes back the whole config it was made from); and with nothing under way and nothing
\* lost every worker has the mirror's row, overlapping changes or not (config_store's
\* generation, the middleware of app.py, refresh_configs_in_process).
SettingsAgree ==
    which = "config" =>
        /\ "overlapped" \notin configSlips => Config!FloorHolds /\ Config!SettingsKept
        /\ Config!QuietMeansSame

\* No worker shows an install under way that is not, and an open panel hears every status
\* that its worker sets, though it hears by two ways, a listener and Redis
\* (InstallJobs.set_status, _publish; the panel's route).
InstallsAreReported == which = "jobs" => Jobs!NoStuckJob /\ Jobs!PanelHearsItsWorker

\* While a plugin activates, what it registers lands on itself; no request of an app runs
\* under its teardown; an uninstall takes back all that any worker installed for it, and
\* after a failed install nothing of it is mounted, registered or running (runtime.load,
\* unload and the journal).
LoadsAndUnloadsAreWhole ==
    /\ which = "twins" => Twins!LoadingIsMine
    /\ which = "mixed" =>
        Mixed!NoRequestUnderTeardown /\ Mixed!UninstallTakesAllBack /\ Mixed!RetryStartsClean

\* However starts and restarts of an app's containers interleave, and whoever loses the
\* name to whom: when all have ended and nothing was stopped, reverted or failed, the app
\* and its sidecar run (the name conflict in ContainerSupervisor.start).
StartsLeaveItRunning == which = "boxes" => Boxes!StartsLeaveItRunning

\* A VPN profile that was saved stays in the index through other workers' saves, deletes,
\* lists and deaths, and what the host dials is a profile both rules accept (_locked and
\* _validate_wireguard of vpn/profiles.py).
ProfilesAsSaved == which = "vpn" => Vpn!SavedStaysIndexed /\ Vpn!DialsOnlyAccepted

\* A container has no more power over the host than host, release and permissions agree on,
\* and through updates, rollbacks and crashes an app keeps its generated secret
\* (hostpower.resolve, generated_config).  An app's release corrects the task or agent it
\* seeded as long as nobody has edited it, and undoes no edit it has seen
\* (seeded_state.updatable_fields and its callers).
UpdatesKeepTheRules ==
    /\ which = "settings" =>
        Settings!PowerIsEarned /\ Settings!LockHolds /\ Settings!SecretStays
    /\ which = "seeds" => Seeds!EditsHold /\ Seeds!CorrectionsLand

\* Through failed downloads, swaps and clones, kills, redeploys that chown everything and
\* images that chown some of it back, a container app runs from a whole tree of its own
\* version and a whole checkout, as the user its data belongs to, with the folders that
\* are mapped (fetch_app_repo, ReposRegistry.clone, app_data_owner, _container_volumes).
ContainersStartOnWholeTrees ==
    which = "trees" =>
        /\ Trees!LoadedTreeIsWhole /\ Trees!CheckoutIsWhole
        /\ Trees!RunsAsOwner /\ Trees!DistinctVolumesMounted

\* What an app requires is loaded before it and not removed under it, an app is loaded
\* once, and one app's failure is that of the apps that require it only
\* (_install_missing, _install_dependencies, _loaded_dependency_closure).
PassesKeepOrder ==
    which = "deps" => /\ Deps!DependenciesFirst /\ Deps!NothingNeededGoes
                      /\ Deps!LoadedOnce /\ Deps!FailuresStayLocal

\* A gateway that is up serves what stands on disk as soon as all is quiet, whatever
\* reloads a pass gathered or a request asked for (_trigger_gateway_reload).
GatewayServes == which = "tools" => Tools!ServedWhenQuiet

\* Both, and a pass that installs apps which require each other does not get stuck, also
\* when two of its tasks wait for each other's app (_APP_LOCK_TIMEOUT); a reload that was
\* lost can still be made good by the leader's task (_rescan_mcp_gateway).
PassesEndInOrder ==
    /\ PassesKeepOrder /\ GatewayServes
    /\ which = "deps" => Deps!NoPassStuck
    /\ which = "tools" => Tools!LossIsMadeGood
=============================================================================

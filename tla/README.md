# Verification of aw-workspace

TLA+ models, TLC runs and TLAPS proofs of the coordination core of this
repository: a Python service that runs as one container with several uvicorn
worker processes, each of which hosts the same set of hot-loaded apps.

## The system

One container, `AW_WORKSPACE_WORKERS` worker processes of `src/api/app.py`, a
shared disk, a Postgres database and (optionally) Redis.  No worker is special:
whatever must happen once has to be agreed on through a file, a row or a key.

| Component | State it keeps | Operations | Talks to |
|---|---|---|---|
| Boot provisioner election (`boot_reconcile_coord.py`, `fs_lock.py`, `api/app.py`) | flock `boot-reconcile.lock`, marker `boot-reconcile-done-<boot_id>` | `coordinate`, `finish`, the boot pass, attach on the other workers | the reconciler, through `reconcile_on_boot` and `attach_on_boot` |
| App provisioning (`reconciler.py`, `lifecycle.py`, `routes.py`) | mirror rows, `AppRuntime._apps` per worker, asyncio lock and file lock, depth counter, pending flags, a lock per app | `install`, `uninstall`, `reconcile`, `converge_in_process`, `attach`, `detach`, updates and their rollback | `apps:changed` over Redis, the cloud registry, the runtime |
| App runtime (`runtime.py`, `journal.py`, `proxy.py`) | loaded apps, mounts, the journal, drain counters | `load`, `unload`, reverse replay | supervisors of services, containers, watchdog tasks, commands |
| Package trees and volumes (`fetch.py`, `repos.py`, parts of `containers.py` and `runtime.py`) | `apps/<slug>`, `repos/<name>`, `data/<slug>` | staged download and swap, clone, ownership, binds | the container engine |
| Settings and power (`config_store.py`, `manifest.py`, `hostpower.py`, middleware of `api/app.py`) | mirror row, snapshot file, generation token, the memory of each worker | save, refresh, install from a snapshot, resolve grants | every request under `/api/apps/` |
| Managed services (`services.py`, `service_lease.py`) | `_Service` record per worker, `Popen`, reader thread, respawn timer, Redis lease and give-up marker | `register`, `start`, `stop`, `restart`, `_after_exit`, `_respawn`, `stop_all_for`, `forget_all_for`, heartbeat | Redis, other workers only through the lease |
| Service relay (`service_relay.py`, `redis_coord.py`) | pending correlation ids, subscriptions | `dispatch`, `_handle_command`, `_relay_loop` | the owner's worker over pub/sub |
| Containers (`containers.py`) | registrations per worker, one engine | `register`, `start`, `stop`, `restart`, `update_env`, the drift healer | the engine, sidecars |
| Watchdog and system CLIs (`watchdog.py`, `FlockLease`, `commands.py`) | registered tasks, leader lease, installer lock, heal counters | `register`, `pause`, `resume`, install, revert, heal | rescan, healers, the convergence tick |
| Install jobs (`install_jobs.py`) | job per app, mirrored to Redis, listeners | transitions, `status`, the panel's route | the install routes |
| Terminals (`terminal_manager.py`, `terminal.py`) | sessions, creation claims, owner tokens, generations, in/out streams, scrollback, subscribers | `create`, `restart`, `remove`, heartbeat, adoption, pumps, priming, the websocket | Redis keys and streams between workers |
| VPN (`vpn/profiles.py`, `vpn/dialer.py`) | profile files, `profiles.json`, `dial_state.json` | save, delete, list, connect, route, disconnect, status | the host's agent |
| MCP gateway (`mcp_template.py`, `gateway_profiles.py`, reload in `reconciler.py`, `routes.py`) | files under the apps root, pending flag, rescan task | render, copy, post, flush | the gateway container |
| Seeded content (`tasks.py`, `agents.py`, `seeded_state.py`) | held declarations, `seeded-state.json`, the provider's baselines | `register`, `sweep`, `_reconcile`, `record` | the app that keeps tasks or agents |
| Mapped folders (`folders.py`) | list of folders, a coalescing window per worker, a file lock | add, remove, remap | containers |
| Skills, state facade, migrations, identity, notifications, CLI | rows, files and in-memory records | request handlers | mostly one request, one row |

Hard behaviours, and where they bite, are listed line by line under `hazards` in
`PROJECT.json`: two workers between two file operations, threads of the service
supervisor that overlap, a lease that outlives its owner, tasks of one event loop
that interleave at an await, a pass that is cancelled half way, a broadcast that
was owed and is never sent, a message lost while a subscription is down, a crash
between two renames, a baseline that was not written.

What makes each component correct:

* election: one pass per boot, nobody attaches before it, everybody serves;
* provisioning: one worker at a time in the side-effecting half; an install is
  never undone by a convergence pass; in the end every worker serves the mirror;
  a pass over apps that need each other comes to its end, in order;
* runtime: nothing of a failed load or of an uninstalled app is left, and no
  request runs under a teardown;
* trees: what is loaded stands on a whole tree, as the user its data belongs to;
* settings: a request sees what was saved before it came; nothing acknowledged is
  lost; a container has no more power than host, release and permissions agree on;
* services: one copy, the lease follows the process, a deliberate stop holds, a
  declined or crashed start is neither lost nor repeated for ever;
* relay: one relay loop carries a command out, the requester itself beside it only
  after it has waited in vain, and an answer is real;
* containers: starts that interleave leave the app running; drift heals;
* watchdog: a task spins once, installer scripts exclude each other, what breaks
  is repaired;
* install jobs: a refusal ends, and an open panel hears what its worker sets;
* terminals: one shell per terminal, found by every worker under its own owner
  key and hash; a lapse heals and a terminal that is over is forgotten; a client
  sees what the shell wrote, in order;
* VPN: a saved profile stays, and only accepted profiles are dialled;
* gateway: it serves what stands on disk, or somebody will still ask it to;
* seeded content: an edit is never undone, a correction arrives;
* folders: whoever is told of a remount has it, and everybody is told, but for those
  who joined a caller that was cancelled.

## Modules

| Module | Models |
|---|---|
| `BootLeadership` | abstract: at most one active provisioner per boot, none after the pass is on record |
| `BootReconcile` | `BootReconcileCoordinator` and its caller, one file operation per action |
| `ServiceSupervisor` | one service on every worker: supervisor, reader threads, timers, lease, Redis, worker deaths |
| `AppProvisioning` | `Reconciler`, `AppLifecycle` and the parts of `AppRuntime` and the routes they call |
| `TerminalSessions` | one terminal on every worker: Redis keys, shells, handles, heartbeats, lists, shutdowns |
| `TerminalStreams` | the bytes of one incarnation: streams, pumps, cursors, scrollback, sockets |
| `ServiceRelay` | a service's commands between workers over lossy pub/sub |
| `InstallJobs` | one app's install record, its mirror, pushes and a panel |
| `FolderRemap` | coalesced remounts of mapped folders on several workers |
| `WatchdogLease` | `FlockLease`, task loops and the healer of system CLIs |
| `Containers` | an app and its sidecar on one engine, driven by every worker |
| `ConfigPropagation` | one app's settings in memory, row, snapshot, token and broadcast |
| `AppSettings` | releases, their settings, secrets and host power, updates and rollback |
| `AppRuntime` | load and unload effect by effect, journal, drain |
| `AppTrees` | package tree, checkout, data directory, volumes |
| `AppDependencies` | a pass, its pool, per-app locks and required apps |
| `McpGateway` | what the gateway serves and who asks it to reload |
| `VpnDialing` | profiles and their index, dialling and its remembered state |
| `SeededContent` | tasks and agents that apps seed and later correct |
| `BootReconcileProofs`, `ServiceSupervisorProofs`, `AppProvisioningProofs`, `MCTerminalsProofs`, `MCCommandsProofs`, `MCRepairsProofs`, `MCComponentsProofs`, `MCHostProofs` | the proofs |
| `MCBootReconcile`, `MCServiceSupervisor`, `MCAppProvisioning`, `MCTerminalStreams`, `MCAppSettings` | symmetry, state constraints and data of one module for TLC |
| `MCTerminals`, `MCCommands`, `MCRepairs`, `MCComponents` | several modules side by side, see below |

The components that meet are cut where they meet: each module names, in its first
comment, the module that models what it leaves to others (`AppProvisioning` for
example lets a load be one step, `AppRuntime` takes that step apart and relies on
the lock that `AppProvisioning` checks).  They are not composed into one state
space, which would be their product.

`MCTerminals`, `MCCommands`, `MCRepairs` and `MCComponents` put several modules into one
run, as alternatives: `which`, chosen in the first state, names the component that moves;
the others stay at their first state.  A property is a conjunction of those of the
modules it is about.  The state space is the sum, not the product, of theirs.

### Boot election

`pc[w]` is the place of worker `w` in `_boot_reconcile_and_sync`.  A turn of the
loop of `coordinate()` is `Look`, then `Acquire` or `Busy`, then `Recheck` under
the lock; `finish()` is `WriteMarker` (or `MarkerLost`), `Sweep`, `Free`.
`Crash` drops the flock as the kernel does, `Respawn` keeps the boot id,
`NewBoot` mints a new one and kills everybody.  `LockDirFails` is the fallback to
an uncoordinated pass.  `begun` and `unrecorded` are history.  The deadline of
`coordinate()` decides when a warning is logged and nothing else, so it is not a
variable.  `ActiveWorker` maps the state to `BootLeadership`.

### Managed services

One service, one record per worker.  `start()` is the steps `Enter` (section
under `svc.lock`), `Check`, `ClaimWon` or `ClaimDeclined`, `Defer`, `Reap`,
`Spawn`; `stop()` is `Halt`, `Signal`, `Drop`; the reader thread is
`PumpReleases`, then `PumpStandsBack` or `PumpDecides`, then `PumpActs`.  A run
is one spawn; its number doubles as the lease token.  `KeyExpires` is the TTL,
which can only run out on a key nobody renews; `RedisGoes` makes `acquire()`
degrade open as the code does.  A worker's death takes its threads and leaves
its process under pid 1 as an orphan that the next claimant's `Reap` kills.
`GiveUpAfter` and `RetryBudget` are 5 and 12 in the code and 2 and 1 in the runs.
A process that closed its output and went on running (`ClosesOutput`) gives its
lease away and is not counted as a copy; its `closed` flag remembers it.
`raced` is history: since the policy of a worker was last re-armed, a start of it began
while another start of the same worker was under way or an exit was not yet settled.
The code counts such restarts twice or not at all, so `CrashLoopBounded`, which bounds
how often a run may follow a run, says nothing of them.
`crossed` is history too: a stop and a start of one worker were under way together.
A stop may arrive between any two steps of a start and the behaviours in which it does
are explored, but the code does not survive that overlap (see Findings): what is checked
of the processes excepts behaviours in which it has happened or Redis was away
(`Smooth`), what is checked of the policy the first of the two only.

### App provisioning

A worker has two tasks: `request` (an install or uninstall somebody asked for)
and `pass` (boot, watchdog or manual reconcile), and a handler of `apps:changed`.
`Enter` is the depth test of `_provisioning`; `TakeLocal`, `TakeFile`,
`GiveUpWaiting` and `Leave` are `provision_lock`.  `Load`/`Record` and
`Unload`/`Forget` are the two halves of an install and an uninstall, with the
await between them that convergence could fall into.  `Plan` reads the registry
(any set of apps), `Prune` and `Flush` end the pass; `CancelPass` is its timeout.
`Hear`, `BeginConverge`, `Detach`, `Attach`, `Converged` are
`converge_in_process`.  `lapses` is history: it records that a wait for the file
lock ran out ("forced"), that a pass or worker was cut before it had caught up or
announced what it committed ("cut"), that a refused install unloaded a running
app ("torn"), that the registry dropped an app nobody here will forget ("stray"), that
a task entered `_provisioning` while another of its worker was inside, and went on
without a lock of its own ("rode").  A worker's request and its pass overlap as they
like, and queue for the lock; `ProvisioningExclusive` excepts behaviours in which one
rode or a wait was given up, `ProvisioningSerialized` has the second exception only and
is refuted, see Findings.

### Terminals: ownership

One session id; the incarnations of it are numbers, each standing for the pid,
the stream generation and the owner token that a fork mints together.  `meta`,
`owner` and `claim` are the Redis keys, `shells` is the shared process table,
`handle[w]` is `TerminalManager.sessions` of a worker and `op[w]` the one create,
restart or remove it runs under `_lock_for`.  `create` is `Claim`, `Fork`,
`Describe` (the hash), `Sign` (the owner key), or `AdoptWinner`/`WaitedOut` for
the worker that lost the claim.  The ending half of `restart` and `remove` is
`BeginEnd`, `CheckOwner`, `KillTree`, `ClearOwner`, `ReleaseClaim`, `ForgetMeta`.
`list_sessions` is `ListUnowned` (a scan that finds no owner key), `ListPrune`,
then `ListAssert` and `ListRestate` on the owner or `ListSweep` elsewhere; a list
whose scan finds the owner or fails can only drop a spent handle (`ListDrops`).
The heartbeat thread renews, idles and ends; a create that finds it on its way
out starts no other.  `slips` is history: the seven ways the code lets a live
session lose its place, described where `Slips` is defined.  The properties are
stated for executions in which none has happened, and each is an action the
model takes:

* `raced`: `_release_creation` in `restart()` drops the claim of whoever holds it,
  so two racing restarts both fork;
* `stale`: a restart or removal by a worker that still has a handle of an earlier
  incarnation: it takes the shell to kill from that handle, and leaves the
  one that runs (`RestartReplaces`, stated and not run);
* `lapse`: while the owner key is away, restart and removal take the shell for
  dead, and a list prunes the hash for good although the heartbeat sets the key
  again;
* `unwatched`: the heartbeat thread has decided to end before a create and ends
  after it;
* `window`: a list prunes the hash between `Describe` and `Sign`;
* `evicted`: `cleanup()` deletes the hash of an incarnation that is not its own;
* `outlived`: a list re-asserts, from an old scan, a session that ended since.

### Terminals: streams

`TerminalStreams` follows the numbered chunks of one shell: the PTY's reader and
the pump XADD them (`out`, `gone` is what MAXLEN or a deletion took), each handle's
consumer thread reads from its cursor, hops to the event loop and fans out to
queues of `Room` places; `Prime` is `prime_scrollback`, and a websocket takes the
scrollback and subscribes in two steps.  Keystrokes go through the input stream.
`slips` names what excuses a gap (`full`, `lost`, `trimmed`, `removed`, `early`,
`missed`) or a repetition (`raced`).

### Commands: relay, install jobs, folders

`ServiceRelay`: `req[r]` is where `dispatch` is, `job[r][k]` the action of the
command as the owner `k` or the requester ("local") carries it out, `inbox` and
`linked` the subscription of each relay loop.  A command is published, heard by
all, claimed by the owner or by the worker that waits for the lease, answered or
timed out; links drop, calls fail, workers die, the service exits.  A requester that
has waited in vain acts itself, so a command can be carried out twice: by the owner,
late, and by the requester.  `CarriedOutOnce` says that this is the only way: two relay
loops never do it unless the service changed hands, and the requester never does it
beside one that has replied.
`InstallJobs`: `sending` and `pushes` are the fire-and-forget tasks, taken in any
order; a panel gets its snapshot and then listens, in two steps, as the route does.
`FolderRemap`: `window[w]` is the coalescer of a worker, from collecting over
waiting for the file lock to recreating the container.  A caller may be cancelled, as a
request is when its client goes away.  If it has joined, nothing else happens
(`CallerCancelled`).  If it leads (`LeaderCancelled`), the coalescer's `except` does not
catch the cancellation and its `finally` drops the future without resolving it: those who
joined are "adrift", with no step left but the end of their worker, where the code says
that they "all wait on the SAME remap and get the same answer" (`folders.py:258-263`).  A
start that the remap had in its thread goes on without the file lock (`stray`, `loose`).

### Repairs: watchdog, CLIs, containers

`WatchdogLease`: a worker polls for the flock, leads, resumes its loops; `heal` is the
healer's thread, `job` a route's install or removal, `lock` the installers' flock, which
goes with the process that took it; a script that fails, or is killed at its timeout,
leaves what it has done so far (`ScriptFails`); the script a killed worker leaves behind
is taken to stop halfway, and one that runs on beside the next is not modelled.
`Containers`: an operation is a list of calls (`todo`), each of several engine steps;
tasks of one worker or of two interleave at every step; `host` is the workspace's own
container, whose replacement is the drift that is healed.  A save may change the
environment and `auto_start` together: the code then restarts for the environment and
returns before the stop or start that a change of `auto_start` alone brings
(`SaveSettings`, `FlipAutoStart`).

### Settings, releases, trees

`ConfigPropagation`: a setting's value is the number of the save that wrote it; a
request first compares the token (`gate` is the lock round the refresh).  A save
sends one setting and takes the others from its worker's memory.  So where that memory
was stale, because a refresh failed, the save takes another setting back, and
`FloorHolds` compares rows by their newest setting and not setting by setting; that no
acknowledged setting is lost is `SettingsKept`, which excuses the slips that are
recorded: `unfloored` (a request served although its refresh failed), `unstamped` and
`cut` (a save that was not announced), `rowless` (a loaded app had no row to refresh
from, which needs an uninstall elsewhere).  Nothing in the code serialises two saves, and
changes overlap freely in the model; `overlapped` records that they have.  From then on
`FloorHolds` and `SettingsKept` are not asked for, since a save writes back the whole
config that it was made from; that with nothing under way every worker has the mirror's
row (`QuietMeansSame`) is asked for whether they have or not.
`AppSettings`: `job` is the install under way, in the order resolve, record, start;
`prev` is what a failed upgrade goes back to.  `AppTrees`: a job fetches, swaps,
clones and starts step by step and may be killed between any two; a redeploy
chowns all files and an image some of them.

### Loads, passes, gateway

`AppRuntime`: `op[a].step` is the place in `load` or `unload`; an app's own code
registers any effects in any order and may raise.  `AppDependencies`: a task is the
install of one missing app and its stack the chain of dependencies it is in; the
lock of an app is taken for the whole install, a wait for it runs out and goes
on, `NoPassStuck` says a step of the pass is always possible (every step
takes the pass further, so this is the absence of deadlock).  Requests that ride
along with a pass are `AppProvisioning`'s subject and left out; so is a user's
uninstall of an app another requires, which the code does not refuse (`removed`
excuses it).  `McpGateway`: a surface stands for an app's files;
posts are tried `Tries` times and given up; `LossIsMadeGood` is stated as what
is still possible (the leader's task can post), since backoff makes no promise when.

### VPN and seeded content

`VpnDialing`: `req[w]` is the request of a worker under both locks; the host and
its answers are the environment.  `SeededContent`: one object per app with one
field; `run` is the dispatch under way (create, read, write, record), `local` and
`remote` are the two places of a baseline; `late` excuses a correction that waits
for the next boot, `slips` what went wrong between an object and its baseline.

## Runs

| Run | Bounds | Distinct states | Shows |
|---|---|---|---|
| `boot` | 3 workers, 2 boots, 2 crashes, 2 faults | 55,163 | TypeOK, PassesNeverOverlap, OnePassPerBoot, AttachOnlyBehindAPass, AllServe, ImplementsLeadership |
| `supervisor` | 2 workers, 4 spawns, 2 requests, 3 exits, 1 death, 1 outage; state constraint `Followed` | 1,248,466 | TypeOK, OneCopy, ClaimFollowsProcess, DeliberateStopHolds, NoSilentStranding, CrashLoopBounded |
| `provisioning` | 2 workers, 2 apps (one broken), 2 requests, 1 pass, 1 cancel, 1 death, 1 lock timeout | 2,037,843 | TypeOK, ProvisioningExclusive, InstallWindowHeld, ConvergedWhenQuiet |
| `terminals` | sessions: 2 workers, 2 incarnations, 1 list at a time, one removal, lapse or stop; streams: 2 workers, 1 client, 2 outputs, 1 keystroke, 2 connections, a stream of 2 entries, queues of 1; state constraints `Followed`, `FewSlips` | 600,712 | TypesOK, OneShell, Published, ScrollbackKept, ScreenIsFaithful |
| `terminal_lapse` | the sessions alone, under `LapseSpec` of `MCTerminals`: 2 workers, 1 incarnation, two of: removal, lapse, stop; state constraint `Lapsed` | 80,931 | OwnerRepublished, EndedIsForgotten |
| `commands` | 2 workers; relay: 1 request and 3 events; jobs: 2 requests, 1 failing call and no panel; folders: 2 requests | 95,203 | TypeOK, CommandsAreReal, RefusalEnds, RemountedStays, EveryCallerAnswered |
| `repairs` | 2 workers; containers: 1 task at a time, 4 operations, 1 failing call; watchdog: 2 faults, 2 operations | 76,481 | TypeOK, OneAtATime, DriftIsRepaired |
| `components` | 2 workers; 11 choices with 2 to 4 operations and 0 to 2 faults each (settings: 3 requests, 2 saves, 1 fault); state constraints `FewSlips`, `InTurn`, symmetry `Alike` | 574,121 | TypeOK, SettingsAgree, InstallsAreReported, LoadsAndUnloadsAreWhole, StartsLeaveItRunning, ProfilesAsSaved, UpdatesKeepTheRules, ContainersStartOnWholeTrees, PassesEndInOrder |
| `stop_race`, `provisioning_rider`, `stream_replay`, `upgrade_rollback` | as small as the case needs | until the violation | see Findings |

Bounds.  Three workers let a leader, a waiting follower and a late respawn meet, two boots
let a stale marker survive into the next.  Two workers are an owner and a rival for a
lease, or a provisioner and a converging peer; three spawns are enough for a straggling
reader thread of the first run to meet the third, four exhaust a give-up threshold of two
with a retry left over; `Followed` leaves out combinations of many requests with many
exits.  Two incarnations are a predecessor, whose handles, pump and heartbeat straggle,
and its successor.  Two apps, one of them broken, let one install fail inside a pass that
succeeds otherwise.  In the runs of several modules the bounds are those at which every
action is taken and every slip can happen with something after it: two saves are an older
and a newer one, three requests a saver, a reader and a third whose refresh overlaps; four
operations are install, edit, update and what undoes them; three apps are the smallest
graph in which a dependency is shared by an app and what it requires, two of them the
smallest cycle (`TwoManifests`); a queue of one place and a stream of two entries are full
and trimmed at the second chunk.  `FewSlips` lets one kind of loss happen to a terminal's
streams, and one to an app's settings, for two excuse everything, and follows where
changes of the settings have overlapped neither a fault nor a third change
(`SettingsAgreeHolds` covers them); `InTurn` numbers requests that are alike in the order
they come; `Alike` permutes the names of VPN profiles, which nothing tells apart.  All
bounds are constants named in the modules or in a comment; each stops an environment
action (a request, a crash, an exit), and not a step of the code, with these exceptions.
`MaxRuns` bounds `ClaimWon` in `ServiceSupervisor`: a start past its check goes no further
when all the spawns have been made (the proofs hold for any bound).  `FolderRemap` lets a
worker have one stray thread at a time.  In `TerminalSessions`, `MaxLists` lets one
session list be under way at a time, and the second of two racing restarts has no
incarnation left to fork; its safety properties say nothing of states behind a slip, so
`Followed` does not explore them, except where an action can only be reached there.
Deadlock is not checked in these runs: with the bounds used up and nothing in flight the
system is at rest, as it should be.  Where a pass could get stuck, `NoPassStuck` says that
it does not.

Fairness.  `AllServe` needs weak fairness of each worker's own steps (a process that runs
goes on running) and of `Respawn` (uvicorn's supervisor replaces dead workers).  Nothing
is assumed about crashes, faults or boots, which are bounded by the model.  Weak fairness
is enough because a follower that is refused goes back to `Look` and the leader's progress
does not depend on it.  `OwnerRepublished` and `EndedIsForgotten` need the operations, the
heartbeat thread and the output pump of a live worker to go on, session lists to be asked
for again (every terminal broadcast and every connection to `/ws/status` asks), dead
workers to be replaced and a key that nobody renews to expire.  `EveryCallerAnswered`
needs the timer of the window and the steps of a remap, and nothing of the thread a
cancelled remap leaves; who is adrift is excepted.  `RefusalEnds` needs the tasks of a
live worker and the expiry of the mirrored record, `DriftIsRepaired` the polls of live
workers, the loops and threads they have started, restarts of dead ones, and the ends of
scripts and engine calls.  In `repairs` the watchdog's fairness is asked of its own
behaviours only, since a server that starts its workers is enabled from the first state
on.

## Findings

Each is a run that TLC refutes, with the lines quoted in `PROJECT.json`.

* `stop_race`: `_respawn` checks `desired` and then calls `start()`, which sets
  it again; a `stop()` between the two is answered and undone (`StopStaysStopped`).
* `provisioning_rider`: the depth counter is the worker's and not the task's, so
  a second task rides on the first one's locks and outlives them (`ProvisioningSerialized`).
* `stream_replay`: `prime_scrollback` replaces buffer and cursor of a session whose
  consumer is at work: its client is sent the same output twice.
* `upgrade_rollback`: the update route overwrites the mirror row before the pass
  reads it as the release to go back to.

Further properties are stated in the modules, most of them in the words of the code's
docs and comments, and TLC refutes each of them; they are kept as definitions that no
run checks, next to the properties that do hold.  The constants are those of the
module's run, unless the last column says otherwise.

| Module | Property | What happens instead |
|---|---|---|
| `ServiceSupervisor` | GaveUpStays | a deferred start past its check spawns although the exit of the run before has given up in between |
| `ServiceSupervisor` | UninstallStopsService | an uninstall served by a worker that does not own the service leaves its process |
| `AppProvisioning` | RefusedInstallHarmless | an install refused as "already loaded" unloads the running app |
| `AppProvisioning` | DroppedAppsGoEverywhere | an app the registry dropped during a restart stays on the workers that attached |
| `TerminalSessions` | RestartReplaces | a restart by an old handle kills nothing and forks |
| `TerminalStreams` | LastBytesSeen | the consumer thread ends the session while the last frames wait for the event loop |
| `TerminalStreams` | DeadMeansOver | a keystroke that cannot be written ends the session with the shell alive (with one fault) |
| `ServiceRelay` | HungActionReported | the requester times out and falls back while the owner's action hangs |
| `InstallJobs` | UninstallForgets | the deletion on uninstall is overtaken by a push of an earlier status, or fails (with two requests and one failing call) |
| `FolderRemap` | HonestAnswer | who joins a window whose remap has begun is told of a remount without its folder |
| `Containers` | SavedSettingsRun | a save is answered while another save that took over its restart is still at work |
| `Containers` | StoppedStaysStopped | a start that was under way creates the container after the stop was answered |
| `ConfigPropagation` | PartialSavesKeepKeys | of two partial saves on two workers the second merges into what it had read before the first (with two settings) |
| `AppRuntime` | UpdateKeepsSecrets | the unload that undoes a failed update counts as an uninstall |
| `AppRuntime` | FailedAttachClean | a failed attach leaves what it registered with the supervisors |
| `WatchdogLease` | UninstalledStaysGone | the healer, past its check, installs a CLI whose app was just removed |
| `VpnDialing` | ActiveIsTheTunnel | a status that reads the record before a dial and measures after it names no profile |
| `AppSettings` | DatabaseOpens | an install that failed after the database was made is retried with a new secret |
| `AppTrees` | EveryVolumeMounted | of two mapped folders with one path one is mounted (with two such folders) |
| `AppTrees` | TreesAreComplete | a removal that is killed leaves half a tree |
| `McpGateway` | SideloadedAppsSeen | a save rewrites the files of a checkout and copies none of them |
| `SeededContent` | RetriesAfterUnread | the baseline moves on although the old one could not be read |

## Proofs

`BootReconcileProofs` proves, for any finite or infinite set of workers and any
number of boots, crashes and faults (assumption `BootAssumption` only):

* `TypeCorrect`, `PassesExclusive`, `OnePass`, `AttachSafe`: the safety
  properties of run `boot`;
* `ImplementsBootLeadership`: the file protocol implements `BootLeadership`.

The properties are not inductive.  The invariant `BootInv` adds that a worker is
in a `Holding` phase exactly when it has the lock, that `begun` counts the
unrecorded passes plus the running one plus the recorded one, and that after the
second look no marker of this boot exists until the pass has written it.  One
step of the proof per action; the temporal theorems only combine initiation,
consecution and consequence.

`ServiceSupervisorProofs` proves the safety properties of run `supervisor`, for any
workers, spawns, requests, exits, deaths and outages, from `SupervisorAssumption` alone:
stops and starts of one worker may overlap, and what the properties except is in them
(`Smooth`, `~crossed`), a state that the behaviour has reached and not a hypothesis about
it.  Run `stop_race` shows why: a start past its check undoes the stop.  What is said of
processes holds in `Smooth` behaviours (`Smooth => Core`): a stop has its worker to itself
(`StopAlone`); whoever is past the ownership gate is alone there and has the key, for a
run of its own (`Claimants`, `OneClaimant`); at the spawn the reaping has left nothing
alive (`AfterReap`); a process that is attended has the key and a heartbeat
(`AttendedHasKey`); so two processes are one.  The policy's part needs no Redis
(`~crossed`) and is per worker: what the timer's thread goes by stays true until it is
done (`TimerAlone`), a deliberate start has a full budget (`RequestFresh`), every respawn
has been paid for by the crash before it (`Paid`), a start that is wanted and not given up
has somebody to see to it (`SeenTo`), and a deliberate stop has left nothing (`StopHeld`).
An orphan is in no living worker's record (`Disowned`).

`AppProvisioningProofs` proves, for any workers, apps, requests, passes, cuts, crashes and
lock timeouts, `ProvisioningTypeCorrect`, `ProvisioningIsExclusive`, `InstallWindowIsHeld`
and `ConvergenceHolds` (from `FleetFollowsMirror`), from `ProvisioningAssumption` alone.
A worker's request and its pass may be in flight together and queue for the lock.  What
the code does not survive is that one of them enters `_provisioning` while the other is
inside; that is recorded when it happens ("rode"), and excepted by the properties, as run
`provisioning_rider` shows it must be.  The argument for exclusion (`LockInv`): who took
the locks of a worker is between entry and exit, and who is between them took them, unless
one rode (`Riding`); the depth counts the tasks there, so it is 0 when the next one comes
to lock (`DepthCounts`); who took them is the one `local` names (`LocalOwner`) and, unless
a wait gave up, is in `file`, which then is a singleton (`FileOwner`).  Two tasks inside
are thus of one worker.  An app between its load and its row has its task inside, so the
convergence handler, which needs `local`, is not running (`RowsLoaded`, unless one rode).
`DeadIsEmpty` is what lets a worker return.  For convergence (`FleetInv`): while no lapse
is on record, somebody has a change to announce, or every live worker has a convergence
ahead of it or serves each app that the mirror lists and no other, but for what a task or
its own convergence is about to see to (`Following`, `Settling`); what the mirror lists is
on disk (`OnDisk`), or the convergence could not load it, and for that no two tasks may be
inside at once.  Tasks are records in a function of functions: the lemmas `OneTask` and
`SamePlace` say once what writing one record changes, and each action has a lemma that
cites them.

`MCTerminalsProofs` proves the properties of run `terminals`, from `TerminalAssumption`
and `StreamsAssumption`.  `OneShell`, `Published` and `ScrollbackKept`, for any workers,
incarnations, removals, lapses, stops and lists: the invariant is `Shapes /\ Structure /\
(slips = {} => Core)`: all that relates the keys in Redis to the shells holds only while
no slip is recorded.  A running shell is in the hands of the worker that forked it
(`Held`); one operation at a time kills and forks (`OneBusy`), and each of its steps goes
by what the one before has left: no shell, or none but the one it made (`Ending`, from
which `AtMostOne`).  The hash and the owner key name the shell from the steps on that
write them (`Named`), a list that would sweep or restate them has read them since
(`Lists`), and a shutdown has killed what it is about to forget (`Ended`).  Lists,
heartbeats, lookups, exits, deaths and shutdowns share one lemma (`Beside`), each
operation's step has its own.  `ScreenIsFaithful`, for any workers, clients, connections,
faults, amounts of output and sizes of stream and queues (`StreamsInv`): what the shell
wrote, what a handle has buffered and queued, and what a client has been sent ascend
(`ScreensInOrder`) and run on without a gap, each from where the one before it ends
(`Gapless`), until a slip is recorded; and a keystroke is in one place (`KeysInOrder`).  An
earlier attempt at this proof found a loss that the model did not name and that the run is
too small to reach: `prime_scrollback` can set a cursor back before entries that were
trimmed since the stream was read, which takes two connections on one handle and more
output.  `Prime` records it as `trimmed`.

`MCCommandsProofs` proves the safety properties of run `commands`, for any workers and
requests, from `CommandsAssumption`.  Relay: a worker hears a command once (`HeardOnce`);
unless the service changes hands whoever carries it out is alone with it among the relay
loops (`TakenOnce`, from `LeaseGates`: only the lease's holder has a process); a command
that was not sent was carried out by nobody, and a requester that has acted itself has had
no reply (`NotSent`); who is told of a success can be sure of it (`RepliesAreReal`).  Jobs:
their types, and that a request that has come has a worker.  Folders: remaps run under the
file lock (`Serialized`), a folder is on record once its request has saved it (`Recorded`),
so a remap that lists after that mounts it (`VolumesCurrent`, `RemapCurrent`), as long as
no cancelled one has left a start to its thread (`StraysAreLoose`).

`MCRepairsProofs` proves type correctness and `OneAtATime` of run `repairs`, from the
assumptions of `MCRepairs`; the bounds are constants, so for any number of crashes,
installs and faults.  The watchdog's invariant has two halves that share no variable.
In the first the state of a lease is the state of the flock, and a worker that serves
without it has been paused and registers without spinning (`ServesAfterContest`: this is
what awaiting the first contest at boot gives).  In the second whoever runs a script
holds the installers' flock for it (`LockAgrees`), so two cannot, and a heal under
way was started below the limit of the breaker.  The containers' types need more than
shapes: an operation past its look-up has the environment it found, and one with calls
left has a worker.

Run `components` has its proofs in two modules.  Each carries a component's invariant
to the composed specification by the lemma that no other component writes its variables
(`DialerAlone` and its like).  `MCComponentsProofs` has what the workers keep, from
`SettingsAssumption`, `JobsAssumption`, `LoadsAssumption` and `PassesAssumption`:

* `SettingsAgreeHolds`, for any workers, requests, settings, saves and faults, changes
  overlapping as they like.  `PropagationInv` has a part that holds whatever overlaps
  (`ConfigBase`), with `Follows`, as long as nobody missed a broadcast: a worker without
  the mirror's row has been told, or a save is still to tell it, or it holds its lock and
  has read the row; this gives `QuietMeansSame`.  Its other part holds until two changes
  are in flight together, which the behaviour records: `Floor`, as long as the app is not
  uninstalled: a worker whose token is the current one, or a request past the gate, has a
  row as new as the last stamped one; `Kept`, as long as no loss is recorded: file, mirror
  and every worker that is up to date have each acknowledged setting, and the snapshot has
  what the save under way carries.  What the code loses when changes overlap is
  `PartialSavesKeepKeys` above.
* `InstallsAreReportedHolds`: a job says installing only while its own task runs; what
  is owed to an open panel is owed by its own worker, whose link is up, and is on the
  way.
* `LoadsAndUnloadsAreWholeHolds`, for any apps and any numbers of loads and faults.
  `RuntimeInv`: the journal of a loaded app has all that it owns, whoever is torn down
  or was never loaded is unmounted, and what an unload has not yet reverted is still on
  the journal.  `LoadingInv`, for the second instance: whoever activates a plugin holds
  the plugin lock.
* `PassesKeepOrderHolds`, for any manifests over the three apps, any order of the tasks'
  steps, operations and faults.  `PassInv`: a task's stack is a chain of requirements, and
  it holds the lock of each app on it but perhaps the last (`TasksHold`); what a loaded app
  requires was loaded before it (`LoadedAfter`); an app of the plan is loaded, missing, at
  work or needs one that failed (`Accounted`); nothing that the plan needs is doomed
  (`Spared`).

`MCHostProofs` has what apps have on the host, from the other assumptions of
`MCComponents`, most of which say that `None` is none of the values it stands beside:

* `ProfilesAsSavedHolds`, for any workers, profiles, texts, requests and faults: a profile
  whose save was answered stays in the index (`SavedStays`), and what the host dials is a
  text that both rules accept (`DialsOnlyAcceptedHolds`).  The store is three facts that
  hold only together: who is between a file and its index is who holds the flock, and has
  read what the index still is (`Locking`); a delete under way has already withdrawn its
  promise (`HalfDone`); a kept profile has its file, which is why a listing's
  reconciliation does not drop its entry (`KeptOnDisk`).  The dial shares the profiles and
  none of these variables, so one lemma (`OutsideTheStore`) covers its eleven steps.  What
  is dialled was accepted twice: by the workspace when it was saved, or not at all if
  somebody dropped it into the directory, and by the host always; a `PublicKey` outside of
  `[Peer]` counts for neither, as the parser ignores it.
* `ContainersStartOnWholeTreesHolds`, for any releases, folders, operations and faults.
  `TreesInv`: a job past the swap, and the spec it registers, are of the version on disk,
  and what is broken there is named in `lost` (`OnTree`); a partial checkout is there only
  while git runs, and who mounts one has a whole one (`OnCheckout`); who is taken for the
  owner of the data owns it, in the job, in the spec and in the container (`OwnerKnown`).
  The users stay the two of the run: the vote of the files for their owner is a fold over
  users, which the prover can only unfold for a given set of them.
* `UpdatesKeepTheRulesHolds`.  Releases, for any of them, any offers of the host, any
  updates and faults: the manifest a container or a row has was granted what it needs
  (`Installed`), and the secret is the same one in snapshot, row, app and the job under way
  once the database was opened with it (`OneSecret`).  Seeded content, for any workers,
  operations and faults, one app that declares an object, and two releases, as in the run:
  what no user has touched is its baseline, or what the dispatch under way has just
  written (`Baselined`); a dispatch that is about to write has read a release's text and
  not a user's (`EditsSeen`); a release that is installed is on the object, or a boot or a
  dispatch is still to bring it (`Followed`).
* `StartsLeaveItRunningHolds`, for any workers, tasks and operations.  `StartsInv`: as long
  as nothing was stopped, removed or failed, a worker that has the app has both of its
  containers' specs and the app is installed or being so (`Held`), a task under way is of
  such a worker (`Backed`), and what does not run is still on some task's list (`Owing`).
* `GatewayServesHolds`, for any workers, tries, operations and faults and the two apps of
  the run.  `ToolsInv`: only the worker with the pass gathers reloads (`Gathering`), the
  waiter belongs to the boot that provisions (`Booting`), and a gateway that serves
  something older than what stands on disk is owed a post, or has one under way or gathered
  (`StandServed`).

Model-checked only: `AllServe` and the other liveness properties (fairness and ENABLED
are out of the prover's reach, and with them `NoPassStuck` and `LossIsMadeGood`, and so
`PassesEndInOrder` as a whole, of which `PassesKeepOrder` and `GatewayServes` are the other
two parts), and `TypeOK` of run `components`, of which the invariants above have the types
they need.  What a property excepts is recorded in the state by the step that brings it
about, and no theorem assumes anything of behaviours but the specification.  Modules that
are instantiated have their assumptions stated by the module that instantiates them.

## Not modelled

Listed with reasons in `PROJECT.json` under `components`.  In `ServiceSupervisor`:
log capture, `status`.  In `TerminalSessions`: a Redis that does not answer.  In
`TerminalStreams`: panes, resizing, screen sweeps, a workspace without Redis.  In
`AppRuntime`: what single effects write.  In `Containers`: images, ports, limits.
In `ConfigPropagation`: removal of single settings.  In `SeededContent`: a field that a
release adds to an object which an older one has seeded (the branch of `updatable_fields`
that has no baseline for it, `seeded_state.py:243-255`), since the object has one field.  In
`AppTrees`: a clone or a removal that is killed leaves half of a tree, which is recorded in
`lost` and excepted.  In `WatchdogLease`: a script that outlives the worker that started it.
In `AppRuntime`: `FailedAttachClean` is stated and refuted above, and no run checks it.  In
`InstallJobs`: a status set between a panel's snapshot and its listening is lost, as in the
code, and excepted as a named loss.  In `McpGateway`: backoff.  In
`BootReconcile`: `AW_WORKSPACE_WORKERS=1`, where no lock is taken.  Migrations,
identity, notifications and the command line decide a request from one row or run
one script under a lock that is modelled, and have no protocol of their own.

## Plan

1. The types of run `components` as a theorem, and the parts of `PassesEndInOrder` that
   say ENABLED, should a prover for it become available.
2. The poll queues of `redis_coord.py` and their epochs.
3. An abstract fleet (a set of apps and the workers that serve it) that
   `AppProvisioning` implements outside of lapses.

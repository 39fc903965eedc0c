--------------------------- MODULE WatchdogLease ---------------------------
(***************************************************************************)
(* The leader lease over the periodic tasks (src/apps/fs_lock.py           *)
(* FlockLease, src/apps/watchdog.py WatchdogSupervisor, wired in           *)
(* src/api/app.py) together with its most delicate client: the system-CLI  *)
(* healer (src/apps/runtime.py _heal_system_clis, src/apps/commands.py).   *)
(*                                                                         *)
(* Every worker registers the same tasks; a task's loop spins only in the  *)
(* worker that holds the leader flock.  The healer, one of the tasks, runs *)
(* the installer of a tracked CLI that fails its check; installs and       *)
(* uninstalls of the app run the same scripts in whatever worker serves    *)
(* them, all of them behind one flock of their own.                        *)
(*                                                                         *)
(* One app with one CLI and one poller task stands for all of them.  The   *)
(* backoff of the healer is left out (a pass may always come), its circuit *)
(* breaker is kept with MaxFails in the place of 10.  The flock of a dead  *)
(* process is dropped by the kernel in the same step.                      *)
(***************************************************************************)
EXTENDS Naturals

CONSTANTS
    Workers,     \* worker processes of the workspace
    None,        \* no holder
    MaxFails,    \* HEAL_MAX_CONSECUTIVE_FAILURES
    MaxFaults,   \* bound: crashes, stops, failed scripts, failed polls, waits that run out
    MaxOps       \* bound: installs, uninstalls and breakages of the CLI

Tasks == {"healer", "poller"}   \* a runtime task, and the app's own task

VARIABLES
    up,        \* worker -> "down", "serving", "stopping"
    flock,     \* holder of the leader flock
    lease,     \* worker -> FlockLease._state
    leading,   \* worker -> WatchdogSupervisor._leader
    tasks,     \* worker -> registered tasks
    loops,     \* worker -> tasks with a live asyncio task
    tracked,   \* worker -> the CLI is in CommandInstaller._system_clis
    fails,     \* worker -> consecutive failures in _heal_state
    heal,      \* worker -> the healer's thread: "idle", "waits", "runs"
    job,       \* worker -> a route's work on the app: see Jobs
    lock,      \* holder of the installer flock: <<worker, who>> or None
    owed,      \* worker -> an apps:changed it has yet to follow
    app,       \* the registry has the app
    cli,       \* the CLI on disk: "gone", "broken", "good"
    faults, ops

leaseVars == <<up, flock, lease, leading, tasks, loops, tracked, fails, heal,
               job, lock, owed, app, cli, faults, ops>>

Jobs == {"none", "install waits", "install runs", "revert waits",
         "revert runs", "forgets"}

TypeOK ==
    /\ up \in [Workers -> {"down", "serving", "stopping"}]
    /\ flock \in Workers \cup {None}
    /\ lease \in [Workers -> {"unset", "leader", "standby"}]
    /\ leading \in [Workers -> BOOLEAN]
    /\ tasks \in [Workers -> SUBSET Tasks]
    /\ loops \in [Workers -> SUBSET Tasks]
    /\ tracked \in [Workers -> BOOLEAN]
    /\ fails \in [Workers -> 0..MaxFails]
    /\ heal \in [Workers -> {"idle", "waits", "runs"}]
    /\ job \in [Workers -> Jobs]
    /\ lock \in (Workers \X {"heal", "job"}) \cup {None}
    /\ \A w \in Workers :
        /\ lease[w] = "leader" <=> flock = w
        /\ heal[w] = "runs" <=> lock = <<w, "heal">>
        /\ job[w] \in {"install runs", "revert runs"} <=> lock = <<w, "job">>
    /\ owed \in [Workers -> BOOLEAN]
    /\ app \in BOOLEAN
    /\ cli \in {"gone", "broken", "good"}
    /\ faults \in 0..MaxFaults
    /\ ops \in 0..MaxOps

Init ==
    /\ up = [w \in Workers |-> "down"]
    /\ flock = None
    /\ lease = [w \in Workers |-> "unset"]
    /\ leading = [w \in Workers |-> TRUE]
    /\ tasks = [w \in Workers |-> {}]
    /\ loops = [w \in Workers |-> {}]
    /\ tracked = [w \in Workers |-> FALSE]
    /\ fails = [w \in Workers |-> 0]
    /\ heal = [w \in Workers |-> "idle"]
    /\ job = [w \in Workers |-> "none"]
    /\ lock = None
    /\ owed = [w \in Workers |-> FALSE]
    /\ app = TRUE
    /\ cli = "good"
    /\ faults = 0
    /\ ops = 0

Alive(w) == up[w] # "down"

Fault == faults < MaxFaults /\ faults' = faults + 1
Operation == ops < MaxOps /\ ops' = ops + 1

(***************************************************************************)
(* The lease.  _contend: one try; only a change of state calls back.       *)
(***************************************************************************)
ResumeFlagOnly(w) ==
    /\ leading' = [leading EXCEPT ![w] = TRUE]
    /\ UNCHANGED loops

Resume(w) ==
    /\ leading' = [leading EXCEPT ![w] = TRUE]
    /\ loops' = [loops EXCEPT ![w] = tasks[w]]

Pause(w) ==
    /\ leading' = [leading EXCEPT ![w] = FALSE]
    /\ loops' = [loops EXCEPT ![w] = {}]

Wins(w) ==
    /\ flock = None
    /\ flock' = w
    /\ lease' = [lease EXCEPT ![w] = "leader"]
    /\ Resume(w)

Loses(w) ==
    /\ flock # None
    /\ lease' = [lease EXCEPT ![w] = "standby"]
    /\ IF lease[w] # "standby" THEN Pause(w) ELSE UNCHANGED <<leading, loops>>
    /\ UNCHANGED flock

Contend(w) == Wins(w) \/ Loses(w)

\* The lifespan awaits the first contest before anything else.
StartUnpaused(w) ==
    /\ up[w] = "down"
    /\ up' = [up EXCEPT ![w] = "serving"]
    /\ owed' = [owed EXCEPT ![w] = TRUE]
    /\ IF flock = None THEN Wins(w)
       ELSE UNCHANGED <<flock, lease, leading, loops>>
    /\ UNCHANGED <<tasks, tracked, fails, heal, job, lock, app, cli, faults, ops>>

Start(w) ==
    /\ up[w] = "down"
    /\ up' = [up EXCEPT ![w] = "serving"]
    /\ owed' = [owed EXCEPT ![w] = TRUE]
    /\ Contend(w)
    /\ UNCHANGED <<tasks, tracked, fails, heal, job, lock, app, cli, faults, ops>>

\* The poll loop: a leader has nothing to check, a standby tries again.
Poll(w) ==
    /\ up[w] = "serving"
    /\ lease[w] = "standby"
    /\ Wins(w)
    /\ UNCHANGED <<up, tasks, tracked, fails, heal, job, lock, owed, app, cli,
                   faults, ops>>

\* A try that raises (the lock directory is broken) leaves the loop alive.
PollFails(w) ==
    /\ up[w] = "serving"
    /\ lease[w] = "standby"
    /\ flock = None
    /\ Fault
    /\ UNCHANGED <<up, flock, lease, leading, tasks, loops, tracked, fails, heal,
                   job, lock, owed, app, cli, ops>>

\* Shutdown drops the flock and does not pause: the loops go on to the end.
Stop(w) ==
    /\ up[w] = "serving"
    /\ Fault
    /\ up' = [up EXCEPT ![w] = "stopping"]
    /\ lease' = [lease EXCEPT ![w] = "standby"]
    /\ flock' = IF flock = w THEN None ELSE flock
    /\ UNCHANGED <<leading, tasks, loops, tracked, fails, heal, job, lock, owed,
                   app, cli, ops>>

\* The process goes: its flocks with it, and everything it remembered.  A
\* script it was running is an orphan whose effect is that it left off halfway.
Gone(w) ==
    /\ up' = [up EXCEPT ![w] = "down"]
    /\ flock' = IF flock = w THEN None ELSE flock
    /\ lease' = [lease EXCEPT ![w] = "unset"]
    /\ leading' = [leading EXCEPT ![w] = TRUE]
    /\ tasks' = [tasks EXCEPT ![w] = {}]
    /\ loops' = [loops EXCEPT ![w] = {}]
    /\ tracked' = [tracked EXCEPT ![w] = FALSE]
    /\ fails' = [fails EXCEPT ![w] = 0]
    /\ heal' = [heal EXCEPT ![w] = "idle"]
    /\ job' = [job EXCEPT ![w] = "none"]
    /\ lock' = IF lock \in {<<w, "heal">>, <<w, "job">>} THEN None ELSE lock
    /\ owed' = [owed EXCEPT ![w] = FALSE]
    /\ cli' = IF lock \in {<<w, "heal">>, <<w, "job">>} THEN "broken" ELSE cli
    /\ UNCHANGED <<app, ops>>

Exits(w) == up[w] = "stopping" /\ Gone(w) /\ UNCHANGED faults
Dies(w) == up[w] = "serving" /\ Fault /\ Gone(w)

(***************************************************************************)
(* Attaching: at boot and after every apps:changed.                        *)
(***************************************************************************)
\* register(): always recorded, spun only while this process leads.
Register(w, ts) ==
    /\ tasks' = [tasks EXCEPT ![w] = ts]
    /\ loops' = [loops EXCEPT ![w] = IF leading[w] THEN ts ELSE {}]

Attached(there) == IF there THEN Tasks ELSE Tasks \ {"poller"}

\* A worker that just starts to track the CLI has a clean record of it
\* (record_system_cli); one that already does keeps what it has.
Follow(w) ==
    /\ up[w] = "serving"
    /\ owed[w]
    /\ job[w] = "none"
    /\ owed' = [owed EXCEPT ![w] = FALSE]
    /\ tracked' = [tracked EXCEPT ![w] = app]
    /\ fails' = [fails EXCEPT ![w] = IF app /\ ~tracked[w] THEN 0 ELSE @]
    /\ Register(w, Attached(app))
    /\ UNCHANGED <<up, flock, lease, leading, heal, job, lock, app, cli, faults,
                   ops>>

(***************************************************************************)
(* The healer.                                                             *)
(***************************************************************************)
\* One pass over the one CLI: tracked, unhealthy, circuit closed, and no
\* thread of an earlier pass still at work.
HealStarts(w) ==
    /\ Alive(w)
    /\ "healer" \in loops[w]
    /\ heal[w] = "idle"
    /\ tracked[w]
    /\ cli # "good"
    /\ fails[w] < MaxFails
    /\ heal' = [heal EXCEPT ![w] = "waits"]
    /\ UNCHANGED <<up, flock, lease, leading, tasks, loops, tracked, fails, job,
                   lock, owed, app, cli, faults, ops>>

\* _run: the flock of the installers.
HealTakesLock(w) ==
    /\ heal[w] = "waits"
    /\ lock = None
    /\ lock' = <<w, "heal">>
    /\ heal' = [heal EXCEPT ![w] = "runs"]
    /\ UNCHANGED <<up, flock, lease, leading, tasks, loops, tracked, fails, job,
                   owed, app, cli, faults, ops>>

Record(w, ok) == fails' = [fails EXCEPT ![w] = IF ok THEN 0 ELSE @ + 1]

\* The wait runs out: the script is not run, the heal failed.
HealWaitsTooLongAndRuns(w) ==
    /\ heal[w] = "waits"
    /\ lock # None
    /\ Fault
    /\ heal' = [heal EXCEPT ![w] = "runs"]
    /\ UNCHANGED <<up, flock, lease, leading, tasks, loops, tracked, fails, job,
                   lock, owed, app, cli, ops>>

HealWaitsTooLong(w) ==
    /\ heal[w] = "waits"
    /\ lock # None
    /\ Fault
    /\ heal' = [heal EXCEPT ![w] = "idle"]
    /\ Record(w, FALSE)
    /\ UNCHANGED <<up, flock, lease, leading, tasks, loops, tracked, job, lock,
                   owed, app, cli, ops>>

\* The script ends; the check, not the exit code, settles the record.
HealEnds(w) ==
    /\ heal[w] = "runs"
    /\ heal' = [heal EXCEPT ![w] = "idle"]
    /\ lock' = None
    /\ \/ cli' = "good" /\ Record(w, TRUE) /\ UNCHANGED faults
       \/ cli' = "broken" /\ Record(w, FALSE) /\ Fault
    /\ UNCHANGED <<up, flock, lease, leading, tasks, loops, tracked, job, owed,
                   app, ops>>

(***************************************************************************)
(* The routes.  One install or uninstall at a time in the workspace: the   *)
(* provisioning lock, modelled in AppProvisioning.                         *)
(***************************************************************************)
NobodyAtWork == \A w \in Workers : job[w] = "none"

Install(w) ==
    /\ up[w] = "serving"
    /\ NobodyAtWork
    /\ ~app
    /\ ~owed[w]
    /\ Operation
    /\ job' = [job EXCEPT ![w] = "install waits"]
    /\ UNCHANGED <<up, flock, lease, leading, tasks, loops, tracked, fails, heal,
                   lock, owed, app, cli, faults>>

Uninstall(w) ==
    /\ up[w] = "serving"
    /\ NobodyAtWork
    /\ app
    /\ tracked[w]
    /\ Operation
    /\ job' = [job EXCEPT ![w] = "revert waits"]
    /\ tasks' = [tasks EXCEPT ![w] = @ \ {"poller"}]
    /\ loops' = [loops EXCEPT ![w] = @ \ {"poller"}]
    /\ UNCHANGED <<up, flock, lease, leading, tracked, fails, heal, lock, owed,
                   app, cli, faults>>

JobTakesLock(w) ==
    /\ job[w] \in {"install waits", "revert waits"}
    /\ lock = None
    /\ lock' = <<w, "job">>
    /\ job' = [job EXCEPT ![w] = IF @ = "install waits" THEN "install runs"
                                 ELSE "revert runs"]
    /\ UNCHANGED <<up, flock, lease, leading, tasks, loops, tracked, fails, heal,
                   owed, app, cli, faults, ops>>

\* An install fails on it; a revert is logged and the uninstall goes on.
JobWaitsTooLong(w) ==
    /\ job[w] \in {"install waits", "revert waits"}
    /\ lock # None
    /\ Fault
    /\ job' = [job EXCEPT ![w] = IF @ = "install waits" THEN "none" ELSE "forgets"]
    /\ UNCHANGED <<up, flock, lease, leading, tasks, loops, tracked, fails, heal,
                   lock, owed, app, cli, ops>>

\* install_system_cli tracks the CLI once its installer returned; the other
\* workers are told.
Installed(w) ==
    /\ job[w] = "install runs"
    /\ job' = [job EXCEPT ![w] = "none"]
    /\ lock' = None
    /\ cli' = "good"
    /\ app' = TRUE
    /\ tracked' = [tracked EXCEPT ![w] = TRUE]
    /\ fails' = [fails EXCEPT ![w] = 0]
    /\ Register(w, Tasks)
    /\ owed' = [v \in Workers |-> owed[v] \/ (v # w /\ up[v] = "serving")]
    /\ UNCHANGED <<up, flock, lease, leading, heal, faults, ops>>

\* The script fails, or is killed at its timeout, with whatever it has done so far: the
\* install fails; a revert is logged and the uninstall goes on.
ScriptFails(w) ==
    /\ job[w] \in {"install runs", "revert runs"}
    /\ Fault
    /\ job' = [job EXCEPT ![w] = IF @ = "install runs" THEN "none" ELSE "forgets"]
    /\ lock' = None
    /\ cli' \in {cli, "broken"}
    /\ UNCHANGED <<up, flock, lease, leading, tasks, loops, tracked, fails, heal,
                   owed, app, ops>>

Reverted(w) ==
    /\ job[w] = "revert runs"
    /\ job' = [job EXCEPT ![w] = "forgets"]
    /\ lock' = None
    /\ cli' = "gone"
    /\ UNCHANGED <<up, flock, lease, leading, tasks, loops, tracked, fails, heal,
                   owed, app, faults, ops>>

\* The end of unload() forgets the CLI; then the registry row goes and the
\* other workers are told.
Forget(w) ==
    /\ job[w] = "forgets"
    /\ job' = [job EXCEPT ![w] = "none"]
    /\ tracked' = [tracked EXCEPT ![w] = FALSE]
    /\ app' = FALSE
    /\ owed' = [v \in Workers |-> owed[v] \/ (v # w /\ up[v] = "serving")]
    /\ UNCHANGED <<up, flock, lease, leading, tasks, loops, fails, heal, lock,
                   cli, faults, ops>>

\* Drift: an update of the host, another package, a recreated container.
Breaks ==
    /\ app
    /\ cli = "good"
    /\ Operation
    /\ cli' = "broken"
    /\ UNCHANGED <<up, flock, lease, leading, tasks, loops, tracked, fails, heal,
                   job, lock, owed, app, faults>>

Quiet ==   \* every bound is used up and nothing is under way
    /\ \A w \in Workers : up[w] = "serving" /\ ~owed[w] /\ heal[w] = "idle"
    /\ NobodyAtWork
    /\ UNCHANGED leaseVars

Next ==
    \/ \E w \in Workers :
        \/ Start(w) \/ Poll(w) \/ PollFails(w) \/ Stop(w) \/ Exits(w) \/ Dies(w)
        \/ Follow(w)
        \/ HealStarts(w) \/ HealTakesLock(w) \/ HealWaitsTooLong(w) \/ HealEnds(w)
        \/ Install(w) \/ Uninstall(w) \/ JobTakesLock(w) \/ JobWaitsTooLong(w)
        \/ Installed(w) \/ ScriptFails(w) \/ Reverted(w) \/ Forget(w)
    \/ Breaks
    \/ Quiet

\* The server restarts its workers, a stopping process exits, the loops of a
\* live event loop come round, a thread and a script end; a polled flock is
\* taken by some waiter sooner or later (SF: another may hold it meanwhile).
Fairness ==
    \A w \in Workers :
        /\ WF_leaseVars(Start(w)) /\ WF_leaseVars(Exits(w))
        /\ WF_leaseVars(Follow(w))
        /\ WF_leaseVars(Poll(w))
        /\ WF_leaseVars(HealStarts(w)) /\ WF_leaseVars(HealEnds(w))
        /\ SF_leaseVars(HealTakesLock(w)) /\ SF_leaseVars(JobTakesLock(w))
        /\ WF_leaseVars(Installed(w) \/ Reverted(w) \/ ScriptFails(w))
        /\ WF_leaseVars(Forget(w))

Spec == Init /\ [][Next]_leaseVars /\ Fairness

(***************************************************************************)
(* Properties                                                              *)
(***************************************************************************)
\* A task's loop spins in at most one of the workers that are not shutting
\* down, whatever the order of boots, crashes, registrations and polls.
TasksSpinOnce ==
    \A v, w \in Workers :
        (v # w /\ up[v] = "serving" /\ up[w] = "serving")
            => loops[v] \cap loops[w] = {}

\* Two scripts of live workers never run side by side: the healer's thread, an
\* install and a revert, in one worker or in several (_run's flock).
OneScript ==
    LET Healing(w) == heal[w] = "runs"
        Working(w) == job[w] \in {"install runs", "revert runs"}
    IN  \A v, w \in Workers :
            /\ ~(Healing(v) /\ Working(w))
            /\ v # w => ~(Healing(v) /\ Healing(w)) /\ ~(Working(v) /\ Working(w))

\* A CLI that breaks while its app is installed is repaired, whoever leads
\* and however often the leader goes, unless the breaker gave up on it, a user
\* took the app away, or it broke again.
DriftRepaired ==
    (app /\ cli = "broken")
        ~> \/ cli = "good" \/ ~app
           \/ \E w \in Workers : flock = w /\ fails[w] = MaxFails

\* What commands.py says of an uninstalled app's CLI: gone on purpose, not
\* drift to heal.  Once the uninstall is over the CLI stays off the disk.
UninstalledStaysGone ==
    [][(~app /\ cli = "gone" /\ NobodyAtWork /\ NobodyAtWork') => cli' = "gone"]_leaseVars
=============================================================================

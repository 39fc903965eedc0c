------------------------- MODULE ServiceSupervisor -------------------------
(***************************************************************************)
(* One managed service of one app, on every worker of the container.       *)
(*                                                                         *)
(* Each worker process has its own ServiceSupervisor (src/apps/services.py)*)
(* with its own _Service record, request threads, a respawn timer and one  *)
(* reader ("pump") thread per process it spawned.  The workers share only  *)
(* the Redis lease key of src/apps/service_lease.py, the give-up marker    *)
(* and the operating system's process table.  An action is what one thread *)
(* does between two points where another can come in: a section under      *)
(* svc.lock, one Redis call, one wait for a process.                       *)
(*                                                                         *)
(* A "run" is one subprocess together with the ServiceLease object created *)
(* for it by the start() that spawned it, numbered in order of creation.   *)
(*                                                                         *)
(* Abstractions.  Time: a lease key expires once nothing renews it (its    *)
(* worker died, its heartbeat stopped, or Redis was away), a timer fires   *)
(* some time after it is armed, and whether a run was long enough to count *)
(* as healthy or printed a port collision is chosen when the pump decides. *)
(* Redis is reachable from every worker or from none.  A worker's in-flight*)
(* threads finish before it detaches the app, and at most one timer thread *)
(* is inside start() at a time.                                            *)
(***************************************************************************)
EXTENDS Naturals, FiniteSets

CONSTANTS
  Workers,
  GiveUpAfter,         \* _GIVE_UP_AFTER: startup-window crashes in a row
  RetryBudget,         \* _LEASE_RETRY_ATTEMPTS: declined starts in a row
  MaxRuns,             \* bound: start() calls that pass the ownership gate
  MaxRequests,         \* bound: operator requests
  MaxExits,            \* bound: runs that end, fail or close their output
  MaxCrashes,          \* bound: worker deaths
  MaxBlips             \* bound: Redis outages

ASSUME SupervisorAssumption ==
  /\ GiveUpAfter \in Nat \ {0}
  /\ RetryBudget \in Nat \ {0}
  /\ {MaxRuns, MaxRequests, MaxExits, MaxCrashes, MaxBlips} \subseteq Nat
  /\ 0 \notin Workers   \* 0 is None below

VARIABLES
  installed,  \* the app's row is in the mirror every worker converges to
  up,         \* the worker process is alive
  reg,        \* the service is registered in that worker's supervisor
  svc,        \* that worker's _Service record
  thread,     \* its request thread and its timer thread
  run,        \* every run ever started
  used,       \* how many there are
  key,        \* the Redis lease key: a run's token, or None
  marker,     \* the Redis give-up marker
  redis,      \* Redis answers
  unattended, \* history: spawns by the timer since the last re-arm
  raced,      \* history: since the last re-arm a start began while another start
              \* of its worker, or what an exit called for, was under way
  launchFailed, \* history: the last launch raised (Popen failed)
  stopped,    \* history: a deliberate stop returned and no deliberate start followed
  requests, exits, crashes, blips,   \* counted against the bounds
  crossed     \* history: a stop and a start of one worker were under way together

coordVars == <<key, marker, redis>>
countVars == <<requests, exits, crashes, blips, crossed>>
histVars == <<unattended, raced, launchFailed, stopped>>
vars == <<installed, up, reg, svc, thread, run, used, coordVars, histVars, countVars>>

-----------------------------------------------------------------------------
(* Types *)

RunIds == 1 .. MaxRuns
None == 0

Threads == {"request", "timer"}

\* _Service, field by field: desired, state, consecutive_fast_exits,
\* lease_waits, respawn_timer armed, proc and lease.
NewService == [desired |-> "stopped", state |-> "stopped", fast |-> 0,
               waits |-> 0, timer |-> FALSE, proc |-> None, lease |-> None]

\* Where a thread is: in start() at "enter" .. "spawn" ("defer" after a declined
\* claim), in stop() at "halt" .. "drop", or at "forget" in stop_all_for.
\* `next` is what the thread does after stop(), `id` the run it is creating.
Idle == [pc |-> "idle", manual |-> FALSE, id |-> None, next |-> "idle"]

\* st: "quiet" is alive with its output closed, and `closed` remembers that it
\* did, alive or dead.  pump: the reader thread.
\* mine: the _Service it was started for is still the registered one.
Unborn == [st |-> "unborn", by |-> None, owned |-> FALSE, beats |-> FALSE,
           pump |-> "none", mine |-> FALSE, orphan |-> FALSE, closed |-> FALSE]

TypeOK ==
  /\ installed \in BOOLEAN /\ redis \in BOOLEAN /\ marker \in BOOLEAN
  /\ crossed \in BOOLEAN
  /\ up \in [Workers -> BOOLEAN]
  /\ reg \in [Workers -> BOOLEAN]
  /\ svc \in [Workers ->
       [desired : {"running", "stopped"},
        state : {"running", "backing_off", "gave_up", "stopped"},
        fast : Nat, waits : 0 .. RetryBudget, timer : BOOLEAN,
        proc : RunIds \union {None}, lease : RunIds \union {None}]]
  /\ thread \in [Workers -> [Threads ->
       [pc : {"idle", "enter", "check", "claim", "defer", "reap", "spawn",
              "halt", "signal", "drop", "forget"},
        manual : BOOLEAN, id : RunIds \union {None},
        next : {"idle", "enter", "forget"}]]]
  /\ run \in [RunIds ->
       [st : {"unborn", "alive", "quiet", "dead"}, by : Workers \union {None},
        owned : BOOLEAN, beats : BOOLEAN, mine : BOOLEAN, orphan : BOOLEAN,
        closed : BOOLEAN,
        pump : {"none", "reading", "release", "decide", "schedule", "record", "done"}]]
  /\ used \in 0 .. MaxRuns
  /\ key \in RunIds \union {None}
  /\ unattended \in [Workers -> Nat]
  /\ raced \in [Workers -> BOOLEAN]
  /\ launchFailed \in [Workers -> BOOLEAN]
  /\ stopped \in [Workers -> BOOLEAN]

-----------------------------------------------------------------------------
(* Helpers *)

Alive(id) == id # None /\ run[id].st \in {"alive", "quiet"}

Starting(w) ==
  \E t \in Threads : thread[w][t].pc \in {"enter", "check", "claim", "reap", "spawn"}

Stopping(w) == \E t \in Threads : thread[w][t].pc \in {"halt", "signal", "drop"}

\* An exit is decided on and its respawn armed a moment after the process is gone.
Unsettled(w) ==
  \E id \in RunIds :
    /\ run[id].by = w /\ run[id].mine
    /\ \/ run[id].pump = "schedule"
       \/ id = svc[w].proc /\ run[id].pump \in {"release", "decide"}

Racing(w, t) ==
  \/ Unsettled(w)
  \/ \E u \in Threads \ {t} :
       thread[w][u].pc \in {"enter", "check", "claim", "defer", "reap", "spawn"}

Goto(w, t, p) == thread' = [thread EXCEPT ![w][t].pc = p]
Finish(w, t) == thread' = [thread EXCEPT ![w][t] = Idle]

\* The supervisor's knowledge of the service on worker w is gone.
Forgotten(w) == [id \in RunIds |-> IF run[id].by = w THEN [run[id] EXCEPT !.mine = FALSE]
                                   ELSE run[id]]

\* ServiceLease.release(): stop the heartbeat, and delete the key by
\* compare-and-delete if this object still believes it owns it.
ReleaseOf(r, id) == [r EXCEPT ![id].owned = FALSE, ![id].beats = FALSE]
KeyReleased(id) == IF run[id].owned /\ redis /\ key = id THEN None ELSE key

\* What _schedule_respawn does under the lock: re-check, then arm.
Armed(s) == IF s.desired = "running" /\ s.state # "gave_up" THEN [s EXCEPT !.timer = TRUE]
            ELSE s

Init ==
  /\ installed = FALSE
  /\ up = [w \in Workers |-> TRUE]
  /\ reg = [w \in Workers |-> FALSE]
  /\ svc = [w \in Workers |-> NewService]
  /\ thread = [w \in Workers |-> [t \in Threads |-> Idle]]
  /\ run = [id \in RunIds |-> Unborn]
  /\ used = 0
  /\ key = None
  /\ marker = FALSE
  /\ redis = TRUE
  /\ unattended = [w \in Workers |-> 0]
  /\ raced = [w \in Workers |-> FALSE]
  /\ launchFailed = [w \in Workers |-> FALSE]
  /\ stopped = [w \in Workers |-> FALSE]
  /\ requests = 0 /\ exits = 0 /\ crashes = 0 /\ blips = 0 /\ crossed = FALSE

-----------------------------------------------------------------------------
(* Registration: install, attach, uninstall, detach *)

\* The provisioning worker installs the app: register() with autostart.
Install(w) ==
  /\ up[w] /\ ~reg[w] /\ ~installed
  /\ requests < MaxRequests
  /\ requests' = requests + 1
  /\ installed' = TRUE
  /\ reg' = [reg EXCEPT ![w] = TRUE]
  /\ marker' = (marker /\ ~redis)
  /\ thread' = [thread EXCEPT ![w]["request"] = [Idle EXCEPT !.pc = "enter", !.manual = TRUE]]
  /\ UNCHANGED <<up, svc, run, used, key, redis, histVars, exits, crashes, blips,
                 crossed>>

\* Any other worker converges, or a worker that provisions at boot finds the
\* app installed: register(), whose autostart only the provisioning one runs.
Attach(w) ==
  /\ up[w] /\ ~reg[w] /\ installed
  /\ reg' = [reg EXCEPT ![w] = TRUE]
  /\ marker' = (marker /\ ~redis)
  /\ \E autostart \in BOOLEAN :
       thread' = IF autostart
                   THEN [thread EXCEPT ![w]["request"] =
                           [Idle EXCEPT !.pc = "enter", !.manual = TRUE]]
                   ELSE thread
  /\ UNCHANGED <<installed, up, svc, run, used, key, redis, histVars, countVars>>

\* stop_all_for's tail, after stop(): clear the marker, drop the record.  The
\* mirror row goes with it, and the other workers follow.
Forget(w) ==
  /\ thread[w]["request"].pc = "forget"
  /\ marker' = (marker /\ ~redis)
  /\ reg' = [reg EXCEPT ![w] = FALSE]
  /\ installed' = FALSE
  /\ svc' = [svc EXCEPT ![w] = NewService]
  /\ run' = Forgotten(w)
  /\ Finish(w, "request")
  /\ UNCHANGED <<up, used, key, redis, histVars, countVars>>

\* forget_all_for on a worker that converges to an uninstall done elsewhere:
\* desired = stopped, the timer cancelled, the record dropped, no signal sent.
Detach(w) ==
  /\ up[w] /\ reg[w] /\ ~installed
  /\ thread[w] = [t \in Threads |-> Idle]
  /\ reg' = [reg EXCEPT ![w] = FALSE]
  /\ svc' = [svc EXCEPT ![w] = NewService]
  /\ run' = Forgotten(w)
  /\ UNCHANGED <<installed, up, thread, used, coordVars, histVars, countVars>>

-----------------------------------------------------------------------------
(* Requests *)

\* A deliberate start, stop, restart or uninstall reaches this worker.  Nothing keeps
\* a stop from coming in while the timer's thread is inside start().
Request(w, what) ==
  /\ up[w] /\ reg[w]
  /\ thread[w]["request"] = Idle
  /\ requests < MaxRequests
  /\ crossed' = (crossed \/ (what # "start" /\ Starting(w)))
  /\ requests' = requests + 1
  /\ thread' = [thread EXCEPT ![w]["request"] =
       [pc |-> IF what = "start" THEN "enter" ELSE "halt",
        manual |-> TRUE, id |-> None,
        next |-> CASE what = "restart" -> "enter"
                   [] what = "uninstall" -> "forget"
                   [] OTHER -> "idle"]]
  /\ UNCHANGED <<installed, up, reg, svc, run, used, coordVars, histVars,
                 exits, crashes, blips>>

\* clear_gave_up_for: a config save re-arms without starting anything.
ConfigSaved(w) ==
  /\ up[w] /\ reg[w]
  /\ requests < MaxRequests
  /\ requests' = requests + 1
  /\ svc' = [svc EXCEPT ![w].fast = 0,
                        ![w].state = IF @ = "gave_up" THEN "stopped" ELSE @]
  /\ marker' = (marker /\ ~redis)
  /\ unattended' = [unattended EXCEPT ![w] = 0]
  /\ UNCHANGED <<installed, up, reg, thread, run, used, key, redis, raced, launchFailed,
                 stopped, exits, crashes, blips, crossed>>

-----------------------------------------------------------------------------
(* start() *)

\* The section under the lock.  manual is FALSE on the restart loop's re-entry.
Enter(w, t) ==
  /\ thread[w][t].pc = "enter"
  /\ LET s == [svc[w] EXCEPT !.timer = FALSE, !.desired = "running"]
         manual == thread[w][t].manual
     IN  /\ svc' = [svc EXCEPT ![w] =
              IF manual THEN [s EXCEPT !.fast = 0, !.waits = 0,
                                       !.state = IF @ = "gave_up" THEN "stopped" ELSE @]
              ELSE s]
         /\ unattended' = [unattended EXCEPT ![w] = IF manual THEN 0 ELSE @]
         /\ stopped' = [stopped EXCEPT ![w] = @ /\ ~manual]
         /\ raced' = [raced EXCEPT ![w] = Racing(w, t) \/ (@ /\ ~manual)]
  /\ launchFailed' = [launchFailed EXCEPT ![w] = FALSE]
  /\ Goto(w, t, "check")
  /\ UNCHANGED <<installed, up, reg, run, used, coordVars, countVars>>

\* A manual start clears the marker; a live local process ends the start.
Check(w, t) ==
  /\ thread[w][t].pc = "check"
  /\ marker' = (marker /\ ~(thread[w][t].manual /\ redis))
  /\ IF Alive(svc[w].proc) THEN Finish(w, t) ELSE Goto(w, t, "claim")
  /\ UNCHANGED <<installed, up, reg, svc, run, used, key, redis, histVars, countVars>>

\* The ownership gate is open: SET NX won, or Redis is away and acquire()
\* degrades open without owning anything.
ClaimWon(w, t) ==
  /\ thread[w][t].pc = "claim"
  /\ key = None \/ ~redis
  /\ used < MaxRuns
  /\ used' = used + 1
  /\ key' = IF redis THEN used' ELSE key
  /\ run' = [run EXCEPT ![used'] = [Unborn EXCEPT !.by = w, !.mine = TRUE, !.owned = redis]]
  /\ svc' = [svc EXCEPT ![w].waits = 0]
  /\ thread' = [thread EXCEPT ![w][t].pc = "reap", ![w][t].id = used']
  /\ UNCHANGED <<installed, up, reg, marker, redis, histVars, countVars>>

\* Fault variant: the refusal ends the start, as before the retry existed.
ClaimDeclinedForGood(w, t) ==
  /\ thread[w][t].pc = "claim"
  /\ redis /\ key # None
  /\ svc' = [svc EXCEPT ![w].state = "backing_off"]
  /\ Finish(w, t)
  /\ UNCHANGED <<installed, up, reg, run, used, coordVars, histVars, countVars>>

\* Fault variant: the retry budget is off by one.
ClaimDeclinedOnceMore(w, t) ==
  /\ thread[w][t].pc = "claim"
  /\ redis /\ key # None
  /\ LET more == svc[w].desired = "running" /\ svc[w].waits <= RetryBudget
     IN  /\ svc' = [svc EXCEPT ![w].waits = IF more THEN @ + 1 ELSE @]
         /\ IF more THEN Goto(w, t, "defer") ELSE Finish(w, t)
  /\ UNCHANGED <<installed, up, reg, run, used, coordVars, histVars, countVars>>

\* Declined: _arm_lease_retry's section under the lock.
ClaimDeclined(w, t) ==
  /\ thread[w][t].pc = "claim"
  /\ redis /\ key # None
  /\ LET s == svc[w]
         wanted == s.desired = "running" /\ s.state # "gave_up"
         exhausted == s.waits >= RetryBudget
     IN  /\ svc' = [svc EXCEPT ![w] =
              IF ~wanted THEN s
              ELSE IF exhausted THEN [s EXCEPT !.state = "stopped"]
              ELSE [s EXCEPT !.waits = @ + 1, !.state = "backing_off"]]
         /\ IF wanted /\ ~exhausted THEN Goto(w, t, "defer") ELSE Finish(w, t)
  /\ UNCHANGED <<installed, up, reg, run, used, coordVars, histVars, countVars>>

\* _schedule_respawn after a declined claim.
Defer(w, t) ==
  /\ thread[w][t].pc = "defer"
  /\ svc' = [svc EXCEPT ![w] = Armed(@)]
  /\ Finish(w, t)
  /\ UNCHANGED <<installed, up, reg, run, used, coordVars, histVars, countVars>>

\* Fault variant: an orphan of a dead worker is left alone.
ReapNothing(w, t) ==
  /\ thread[w][t].pc = "reap"
  /\ svc' = [svc EXCEPT ![w].lease = thread[w][t].id]
  /\ Goto(w, t, "spawn")
  /\ UNCHANGED <<installed, up, reg, run, used, coordVars, histVars, countVars>>

\* _reap_orphan kills what runs this command line under pid 1; then svc.lease
\* is set, still without the lock.
Reap(w, t) ==
  /\ thread[w][t].pc = "reap"
  /\ run' = [id \in RunIds |-> IF run[id].orphan /\ Alive(id)
                                 THEN [run[id] EXCEPT !.st = "dead"] ELSE run[id]]
  /\ svc' = [svc EXCEPT ![w].lease = thread[w][t].id]
  /\ Goto(w, t, "spawn")
  /\ UNCHANGED <<installed, up, reg, used, coordVars, histVars, countVars>>

\* Popen, state = running under the lock, heartbeat, reader thread.
Spawn(w, t) ==
  /\ thread[w][t].pc = "spawn"
  /\ LET id == thread[w][t].id
     IN  /\ run' = [run EXCEPT ![id].st = "alive", ![id].pump = "reading",
                               ![id].beats = run[id].owned]
         /\ svc' = [svc EXCEPT ![w].proc = id, ![w].state = "running"]
  /\ unattended' = [unattended EXCEPT ![w] = IF thread[w][t].manual THEN @ ELSE @ + 1]
  /\ Finish(w, t)
  /\ UNCHANGED <<installed, up, reg, used, coordVars, raced, launchFailed, stopped,
                 countVars>>

\* Popen raises (no interpreter, no package dir): the exception leaves start()
\* with the lease claimed, nothing renewing it, and no retry armed.
SpawnFails(w, t) ==
  /\ thread[w][t].pc = "spawn"
  /\ exits < MaxExits
  /\ exits' = exits + 1
  /\ run' = [run EXCEPT ![thread[w][t].id].st = "dead"]
  /\ launchFailed' = [launchFailed EXCEPT ![w] = TRUE]
  /\ Finish(w, t)
  /\ UNCHANGED <<installed, up, reg, svc, used, coordVars, unattended, raced, stopped,
                 requests, crashes, blips, crossed>>

-----------------------------------------------------------------------------
(* stop() *)

\* Fault variant: stop() signals first and sets desired when it is done.
HaltLate(w) ==
  /\ thread[w]["request"].pc = "halt"
  /\ svc' = [svc EXCEPT ![w].waits = 0]
  /\ Goto(w, "request", "signal")
  /\ UNCHANGED <<installed, up, reg, run, used, coordVars, histVars, countVars>>

\* The section under the lock, before the signal.
Halt(w) ==
  /\ thread[w]["request"].pc = "halt"
  /\ svc' = [svc EXCEPT ![w].desired = "stopped", ![w].state = "stopped",
                        ![w].fast = 0, ![w].waits = 0, ![w].timer = FALSE]
  /\ Goto(w, "request", "signal")
  /\ UNCHANGED <<installed, up, reg, run, used, coordVars, histVars, countVars>>

\* SIGTERM, then SIGKILL, and wait: the process is gone when this step is over.
Signal(w) ==
  /\ thread[w]["request"].pc = "signal"
  /\ LET id == svc[w].proc
     IN  run' = IF Alive(id)
                  THEN [run EXCEPT ![id].st = "dead",
                                   ![id].pump = IF @ = "reading" THEN "release" ELSE @]
                  ELSE run
  /\ Goto(w, "request", "drop")
  /\ UNCHANGED <<installed, up, reg, svc, used, coordVars, histVars, countVars>>

\* Release this worker's own claim, if any, and forget the process.  restart()
\* goes on to start(), stop_all_for to dropping the record.
Drop(w) ==
  /\ thread[w]["request"].pc = "drop"
  /\ LET id == svc[w].lease
     IN  /\ key' = IF id = None THEN key ELSE KeyReleased(id)
         /\ run' = IF id = None THEN run ELSE ReleaseOf(run, id)
  /\ svc' = [svc EXCEPT ![w].lease = None, ![w].proc = None]
  /\ thread' = [thread EXCEPT ![w]["request"] =
       [Idle EXCEPT !.pc = thread[w]["request"].next,
                    !.manual = (thread[w]["request"].next = "enter")]]
  /\ stopped' = [stopped EXCEPT ![w] = thread[w]["request"].next # "enter"]
  /\ UNCHANGED <<installed, up, reg, used, marker, redis, unattended, raced, launchFailed,
                 countVars>>

-----------------------------------------------------------------------------
(* The reader thread of one run and the respawn timer *)

\* Fault variant: the pump releases whatever lease the record holds now.
PumpReleasesCurrent(id) ==
  /\ run[id].pump = "release"
  /\ LET w == run[id].by
         cur == IF run[id].mine /\ svc[w].lease # None THEN svc[w].lease ELSE id
     IN  /\ key' = KeyReleased(cur)
         /\ run' = [ReleaseOf(run, cur) EXCEPT ![id].pump = "decide"]
         /\ svc' = IF run[id].mine THEN [svc EXCEPT ![w].lease = None] ELSE svc
  /\ UNCHANGED <<installed, up, reg, thread, used, marker, redis, histVars, countVars>>

\* The process ended or closed its output: release the lease captured at spawn.
PumpReleases(id) ==
  /\ run[id].pump = "release"
  /\ LET w == run[id].by
     IN  /\ key' = KeyReleased(id)
         /\ run' = [ReleaseOf(run, id) EXCEPT ![id].pump = "decide"]
         /\ svc' = IF run[id].mine /\ svc[w].lease = id
                     THEN [svc EXCEPT ![w].lease = None] ELSE svc
  /\ UNCHANGED <<installed, up, reg, thread, used, marker, redis, histVars, countVars>>

\* _after_exit, when it has nothing to decide: a straggler (svc.proc is another
\* run, or the record was dropped), a process that still runs, a deliberate stop.
PumpStandsBack(id) ==
  /\ run[id].pump = "decide"
  /\ LET w == run[id].by
         straggler == ~run[id].mine \/ svc[w].proc # id
     IN  \/ /\ straggler
            /\ svc' = svc
         \/ /\ ~straggler /\ run[id].st = "quiet"
            /\ svc' = [svc EXCEPT ![w].state = "running"]
         \/ /\ ~straggler /\ run[id].st = "dead" /\ svc[w].desired # "running"
            /\ svc' = [svc EXCEPT ![w].state = "stopped"]
  /\ run' = [run EXCEPT ![id].pump = "done"]
  /\ UNCHANGED <<installed, up, reg, thread, used, coordVars, histVars, countVars>>

\* Fault variant: the crash counter is not carried from one crash to the next.
PumpForgetsCrashes(id) ==
  /\ run[id].pump = "decide" /\ run[id].mine /\ run[id].st = "dead"
  /\ svc[run[id].by].proc = id /\ svc[run[id].by].desired = "running"
  /\ svc' = [svc EXCEPT ![run[id].by].state = "backing_off"]
  /\ run' = [run EXCEPT ![id].pump = "schedule"]
  /\ UNCHANGED <<installed, up, reg, thread, used, coordVars, histVars, countVars>>

\* _after_exit on an unexpected death.  A healthy run resets the count; a port
\* collision, or too many startup-window crashes in a row, gives up.
PumpDecides(id) ==
  /\ run[id].pump = "decide" /\ run[id].mine /\ run[id].st = "dead"
  /\ svc[run[id].by].proc = id /\ svc[run[id].by].desired = "running"
  /\ \E ending \in {"healthy", "early", "collision"} :
       LET w == run[id].by
           before == IF ending = "healthy" THEN 0 ELSE svc[w].fast
           after == IF ending = "healthy" THEN 0 ELSE before + 1
           gaveUp == ending = "collision" \/ (ending = "early" /\ after >= GiveUpAfter)
       IN  /\ svc' = [svc EXCEPT ![w].fast = after,
                                 ![w].state = IF gaveUp THEN "gave_up" ELSE "backing_off"]
           /\ run' = [run EXCEPT ![id].pump = IF gaveUp THEN "record" ELSE "schedule"]
           /\ unattended' = [unattended EXCEPT ![w] = IF ending = "healthy" THEN 0 ELSE @]
  /\ UNCHANGED <<installed, up, reg, thread, used, coordVars, raced, launchFailed,
                 stopped, countVars>>

\* set_gave_up or _schedule_respawn, after the lock was dropped.
PumpActs(id) ==
  /\ run[id].pump \in {"record", "schedule"}
  /\ marker' = (marker \/ (run[id].pump = "record" /\ redis))
  /\ svc' = IF run[id].pump = "schedule" /\ run[id].mine
              THEN [svc EXCEPT ![run[id].by] = Armed(@)] ELSE svc
  /\ run' = [run EXCEPT ![id].pump = "done"]
  /\ UNCHANGED <<installed, up, reg, thread, used, key, redis, histVars, countVars>>

\* The timer goes off: _respawn's check under the lock, then start(manual=False).
TimerFires(w) ==
  /\ up[w] /\ svc[w].timer
  /\ thread[w]["timer"] = Idle
  /\ LET go == svc[w].desired = "running" /\ svc[w].state # "gave_up" /\ ~Alive(svc[w].proc)
     IN  /\ crossed' = (crossed \/ (go /\ Stopping(w)))
         /\ thread' = IF go THEN [thread EXCEPT ![w]["timer"].pc = "enter"] ELSE thread
         /\ raced' = [raced EXCEPT ![w] = @ \/ (go /\ Racing(w, "timer"))]
  /\ svc' = [svc EXCEPT ![w].timer = FALSE]
  /\ UNCHANGED <<installed, up, reg, run, used, coordVars, unattended, launchFailed,
                 stopped, requests, exits, crashes, blips>>

-----------------------------------------------------------------------------
(* Processes, workers and Redis *)

\* A process ends by itself.  Only a reader thread still reading notices.
Exits(id) ==
  /\ Alive(id)
  /\ exits < MaxExits
  /\ exits' = exits + 1
  /\ run' = [run EXCEPT ![id].st = "dead",
                        ![id].pump = IF @ = "reading" THEN "release" ELSE @]
  /\ UNCHANGED <<installed, up, reg, svc, thread, used, coordVars, histVars,
                 requests, crashes, blips, crossed>>

\* A process closes its output and goes on running (it daemonized): the reader
\* thread gives up waiting for it after _EXIT_REAP_S.
ClosesOutput(id) ==
  /\ run[id].st = "alive" /\ run[id].pump = "reading"
  /\ exits < MaxExits
  /\ exits' = exits + 1
  /\ run' = [run EXCEPT ![id].st = "quiet", ![id].closed = TRUE,
                        ![id].pump = "release"]
  /\ UNCHANGED <<installed, up, reg, svc, thread, used, coordVars, histVars,
                 requests, crashes, blips, crossed>>

\* The worker dies: its threads, its timer and its heartbeats with it.  Its
\* service processes live on under pid 1 (start_new_session).
WorkerDies(w) ==
  /\ up[w]
  /\ crashes < MaxCrashes
  /\ crashes' = crashes + 1
  /\ up' = [up EXCEPT ![w] = FALSE]
  /\ reg' = [reg EXCEPT ![w] = FALSE]
  /\ svc' = [svc EXCEPT ![w] = NewService]
  /\ thread' = [thread EXCEPT ![w] = [t \in Threads |-> Idle]]
  /\ run' = [id \in RunIds |->
       IF run[id].by = w
         THEN [run[id] EXCEPT !.beats = FALSE, !.mine = FALSE, !.pump = "done",
                              !.owned = FALSE, !.orphan = Alive(id)]
         ELSE run[id]]
  /\ unattended' = [unattended EXCEPT ![w] = 0]
  /\ raced' = [raced EXCEPT ![w] = FALSE]
  /\ launchFailed' = [launchFailed EXCEPT ![w] = FALSE]
  /\ stopped' = [stopped EXCEPT ![w] = FALSE]
  /\ UNCHANGED <<installed, used, coordVars, requests, exits, blips, crossed>>

WorkerReturns(w) ==
  /\ ~up[w]
  /\ up' = [up EXCEPT ![w] = TRUE]
  /\ UNCHANGED <<installed, reg, svc, thread, run, used, coordVars, histVars, countVars>>

\* The TTL runs out on a key nobody renews.
KeyExpires ==
  /\ key # None
  /\ ~redis \/ ~run[key].beats
  /\ \A w \in Workers, t \in Threads : thread[w][t].id # key
  /\ key' = None
  /\ UNCHANGED <<installed, up, reg, svc, thread, run, used, marker, redis, histVars,
                 countVars>>

\* A heartbeat finds the key gone or another's: this object owns nothing now.
HeartbeatLost(id) ==
  /\ redis
  /\ run[id].beats /\ key # id
  /\ run' = [run EXCEPT ![id].owned = FALSE, ![id].beats = FALSE]
  /\ UNCHANGED <<installed, up, reg, svc, thread, used, coordVars, histVars, countVars>>

RedisGoes ==
  /\ redis /\ blips < MaxBlips
  /\ redis' = FALSE
  /\ blips' = blips + 1
  /\ UNCHANGED <<installed, up, reg, svc, thread, run, used, key, marker, histVars,
                 requests, exits, crashes, crossed>>

RedisReturns ==
  /\ ~redis
  /\ redis' = TRUE
  /\ UNCHANGED <<installed, up, reg, svc, thread, run, used, key, marker, histVars, countVars>>

-----------------------------------------------------------------------------

StartStep(w, t) ==
  \/ Enter(w, t) \/ Check(w, t) \/ ClaimWon(w, t) \/ ClaimDeclined(w, t)
  \/ Defer(w, t) \/ Reap(w, t) \/ Spawn(w, t)

StopStep(w) == Halt(w) \/ Signal(w) \/ Drop(w) \/ Forget(w)

PumpStep(id) ==
  PumpReleases(id) \/ PumpStandsBack(id) \/ PumpDecides(id) \/ PumpActs(id)

Next ==
  \/ \E w \in Workers, t \in Threads : StartStep(w, t) \/ SpawnFails(w, t)
  \/ \E w \in Workers :
       StopStep(w) \/ TimerFires(w) \/ Install(w) \/ Attach(w) \/ Detach(w)
         \/ ConfigSaved(w) \/ WorkerDies(w) \/ WorkerReturns(w)
  \/ \E w \in Workers, what \in {"start", "stop", "restart", "uninstall"} : Request(w, what)
  \/ \E id \in RunIds : PumpStep(id) \/ Exits(id) \/ ClosesOutput(id) \/ HeartbeatLost(id)
  \/ KeyExpires \/ RedisGoes \/ RedisReturns

Spec == Init /\ [][Next]_vars

-----------------------------------------------------------------------------
(* Properties *)

\* No thread of w is between two steps of a start, a stop or an exit.
Quiet(w) ==
  /\ thread[w] = [t \in Threads |-> Idle]
  /\ \A id \in RunIds : run[id].by = w => run[id].pump \in {"none", "reading", "done"}

\* What the properties below except: Redis was away, or a stop and a start of one
\* worker were under way together.  Nothing in the code rules the second out, and a
\* start that is past its check then undoes the stop (StopStaysStopped).
Smooth == blips = 0 /\ ~crossed

\* The lease and the reaping of orphans together: while Redis has answered
\* throughout and no stop crossed a start, two copies of the service never run side
\* by side, whatever workers start, die and take over.
OneCopy ==
  Smooth => Cardinality({id \in RunIds : run[id].st = "alive"}) <= 1

\* A process a living worker runs is claimed under its own token: no straggling
\* reader thread, restart or take-over ever gives its lease away.  The same two
\* exceptions.
ClaimFollowsProcess ==
  Smooth => \A id \in RunIds :
    run[id].st = "alive" /\ ~run[id].orphan => key = id /\ run[id].owned

\* A declined or crashed start is deferred, never lost: a worker that reports
\* running or backing off either has the process or has the timer armed.  Excepted
\* is a stop that crossed a start: it forgets the process the start has spawned.
NoSilentStranding ==
  ~crossed => \A w \in Workers :
    /\ Quiet(w) /\ svc[w].desired = "running" /\ ~launchFailed[w]
    /\ svc[w].state \in {"running", "backing_off"}
    => \/ Alive(svc[w].proc)
       \/ svc[w].timer
       \/ svc[w].proc # None /\ run[svc[w].proc].closed

\* A service that cannot start is not respawned forever: between two deliberate
\* re-arms its worker starts it GiveUpAfter times by itself, whatever stops, saves,
\* declined claims and exits come in between.  Excepted is a worker two of whose
\* starts overlapped, or one of whose starts overlapped with the end of the run
\* before (see GaveUpStays), and a stop that crossed a start: it resets the count of
\* crashes, and the start goes on without being deliberate.
CrashLoopBounded ==
  ~crossed => \A w \in Workers : ~raced[w] => unattended[w] <= GiveUpAfter

\* "No further respawns until a manual start/restart, an app update/reinstall or a
\* config save", says _after_exit when it gives up.  It does not hold: a start that
\* is past _respawn's check is not called off, and its Popen sets the state to
\* running again.
GaveUpStays ==
  [][\A w \in Workers : svc[w].state = "gave_up" => unattended'[w] <= unattended[w]]_vars

\* No worker that has answered a stop runs a process of the service that still talks
\* to it, until its next deliberate start.
NoneAfterStop ==
  \A w \in Workers :
    Quiet(w) /\ stopped[w] =>
      \A id \in RunIds : run[id].by = w /\ run[id].mine => run[id].st # "alive"

\* A deliberate stop stays a stop: no pump, timer or respawn brings the service back
\* from the dead once the stop was answered.
DeliberateStopHolds == Smooth => NoneAfterStop

\* "a flag set later lets the pump ... respawn the service this call just killed ...
\* and a deliberate stop becomes impossible", says stop() of why it sets desired first.
\* Without an exception for a stop that crosses a start that is not enough: _respawn's
\* check and the start it makes are apart.
StopStaysStopped == blips = 0 => NoneAfterStop

\* No process survives an uninstall once every worker has converged to it.
UninstallStopsService ==
  (~installed /\ \A w \in Workers : up[w] /\ ~reg[w] /\ Quiet(w))
  => \A id \in RunIds : run[id].orphan \/ ~Alive(id)
=============================================================================

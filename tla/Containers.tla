----------------------------- MODULE Containers -----------------------------
(* Tier-2 containers (apps/containers.py): one app with a sidecar, the        *)
(* registration every worker keeps of them, and the one container engine all  *)
(* workers drive.  start() is several calls to the engine, made in a thread:  *)
(* the operations of two requests, of one worker or of two, interleave.       *)
(*                                                                            *)
(* An environment is a number: the version of the saved settings it was       *)
(* expanded from.  Images, ports, limits and the pull itself are left out: a  *)
(* start that cannot get its image is a start that raises.                    *)
EXTENDS Naturals, Sequences, FiniteSets

CONSTANTS
  Workers, None,
  Tasks,      \* operations in flight at the same time
  MaxOps,     \* bound on operations asked for
  MaxFaults   \* bound on engine calls that fail
Keys == {"db", "app"}       \* the sidecar, and the app that dials it

VARIABLES
  installed,  \* the app is in the registry
  env, auto,  \* the saved settings: their version, and auto_start
  spec,       \* spec[w][k]: the environment in the worker's registration, or None
  engine,     \* engine[k]: the container of that name, or None
  host,       \* the hostname of the workspace's own container: its generation
  task,       \* task[t]: the operation, its worker, the calls left, the step of the first
  landed,     \* history: the worker that applied the newest settings, or None
  stopped,    \* history: keys the user has stopped and not started again
  removal,    \* history: a stop or an uninstall was asked for, or a load reverted
  ops, faults \* counters
containerVars == <<installed, env, auto, spec, engine, host, task, landed, stopped, removal,
                   ops, faults>>

settings == <<installed, env, auto>>
history == <<landed, stopped, removal>>

Call(name, k) == [call |-> name, key |-> k]
NoTask == [kind |-> "none", by |-> None, todo |-> <<>>, step |-> "next", env |-> None]
Unregistered == [k \in Keys |-> None]

Init ==
  /\ installed = FALSE /\ env = 0 /\ auto = TRUE
  /\ spec = [w \in Workers |-> Unregistered] /\ engine = Unregistered /\ host = 0
  /\ task = [t \in Tasks |-> NoTask]
  /\ landed = None /\ stopped = {} /\ removal = FALSE /\ ops = 0 /\ faults = 0

Idle(t) == task[t] = NoTask
First(t) == Head(task[t].todo)
Doing(t, name) == task[t].todo # <<>> /\ First(t).call = name
By(t) == task[t].by
Begins(t, kind, w, todo) ==
  /\ Idle(t)
  /\ task' = [task EXCEPT ![t] = [NoTask EXCEPT !.kind = kind, !.by = w, !.todo = todo]]
Asked == ops < MaxOps /\ ops' = ops + 1 /\ UNCHANGED faults
Fault == faults < MaxFaults /\ faults' = faults + 1 /\ UNCHANGED ops
Loaded(w) == spec[w] # Unregistered
\* The app is in the worker's _apps from the end of its load on.
Serves(w) == Loaded(w) /\ \A t \in Tasks : ~(task[t].kind = "load" /\ By(t) = w)

SidecarsFirst(name) == <<Call(name, "db"), Call(name, "app")>>

-----------------------------------------------------------------------------
(* The operations.                                                            *)

\* _load_container by the provisioning worker, at an install or a boot.
Load(t, w) ==
  /\ (\A v \in Workers : ~Loaded(v)) /\ \A u \in Tasks : task[u].kind \notin {"load", "uninstall"}
  /\ Asked /\ Begins(t, "load", w, IF auto THEN SidecarsFirst("start") ELSE <<>>)
  /\ spec' = [spec EXCEPT ![w] = [k \in Keys |-> env]]
  /\ stopped' = {} /\ UNCHANGED <<settings, engine, host, landed, removal>>

\* The others converge: they register, and start nothing; or they forget.  A worker's
\* own load or unload keeps its convergence out (AppProvisioning).
Attach(w) ==
  /\ installed /\ ~Loaded(w) /\ \E v \in Workers : Loaded(v)
  /\ spec' = [spec EXCEPT ![w] = [k \in Keys |-> env]]
  /\ UNCHANGED <<settings, engine, host, task, history, ops, faults>>

Forget(w) ==
  /\ ~installed /\ Loaded(w)
  /\ \A t \in Tasks : task[t].kind \in {"load", "uninstall"} => By(t) # w
  /\ spec' = [spec EXCEPT ![w] = Unregistered]
  /\ UNCHANGED <<settings, engine, host, task, history, ops, faults>>

\* /api/components/<key>/start, stop and restart, on the worker the request reaches.
Start(t, w, k) ==
  /\ spec[w][k] # None /\ Asked /\ Begins(t, "ui", w, <<Call("start", k)>>)
  /\ stopped' = stopped \ {k}
  /\ UNCHANGED <<settings, spec, engine, host, landed, removal>>

Stop(t, w, k) ==
  /\ spec[w][k] # None /\ Asked /\ Begins(t, "ui", w, <<Call("stop", k)>>)
  /\ stopped' = stopped \cup {k} /\ removal' = TRUE
  /\ UNCHANGED <<settings, spec, engine, host, landed>>

Restart(t, w, k) ==
  /\ spec[w][k] # None /\ Asked
  /\ Begins(t, "ui", w, <<Call("stop", k), Call("start", k)>>)
  /\ stopped' = stopped \ {k}
  /\ UNCHANGED <<settings, spec, engine, host, landed, removal>>

\* A save that changes the environment, and auto_start in the same go or not: the app is
\* restarted for its environment only, and only if it is to start on its own from now on.
SaveSettings(t, w) ==
  /\ Serves(w) /\ Asked
  /\ Begins(t, "save", w, SidecarsFirst("update_env"))
  /\ env' = env + 1 /\ landed' = None
  /\ auto' \in BOOLEAN /\ removal' = (removal \/ (auto /\ ~auto'))
  /\ UNCHANGED <<installed, spec, engine, host, stopped>>

\* A save that flips auto_start alone: the app's own container follows.
FlipAutoStart(t, w) ==
  /\ Serves(w) /\ Asked
  /\ Begins(t, "flip", w, <<Call(IF auto THEN "stop" ELSE "start", "app")>>)
  /\ auto' = ~auto
  /\ stopped' = IF auto THEN stopped \cup {"app"} ELSE stopped \ {"app"}
  /\ removal' = (removal \/ auto)
  /\ UNCHANGED <<installed, env, spec, engine, host, landed>>

Uninstall(t, w) ==
  /\ installed /\ Loaded(w) /\ Asked /\ \A u \in Tasks : task[u].kind # "load"
  /\ Begins(t, "uninstall", w, SidecarsFirst("remove"))
  /\ removal' = TRUE
  /\ UNCHANGED <<settings, spec, engine, host, landed, stopped>>

-----------------------------------------------------------------------------
(* workspace_host_drift and refresh_workspace_host: the healer's tick.        *)

Drifted(w) == {k \in Keys : spec[w][k] # None /\ engine[k] # None /\ engine[k].host # host}

RestartOf(w, k) == IF k \in Drifted(w) THEN <<Call("start", k)>> ELSE <<>>

Heal(t, w) ==
  /\ Drifted(w) # {}
  /\ Begins(t, "heal", w, RestartOf(w, "db") \o RestartOf(w, "app"))
  /\ UNCHANGED <<settings, spec, engine, host, history, ops, faults>>

\* The workspace's own container is recreated: every process ends, the engine and
\* its containers go on.
Redeploy ==
  /\ Asked /\ host' = host + 1
  /\ spec' = [w \in Workers |-> Unregistered] /\ task' = [t \in Tasks |-> NoTask]
  /\ landed' = None
  /\ UNCHANGED <<settings, engine, stopped, removal>>

-----------------------------------------------------------------------------
(* The calls.                                                                 *)

Next1(t) == [task[t] EXCEPT !.todo = Tail(@), !.step = "next", !.env = None]
Advance(t) == task' = [task EXCEPT ![t] = Next1(t)]

\* The container of that name goes: a thread that had looked it up will not find it.
Gone(k, tasks) ==
  /\ engine' = [engine EXCEPT ![k] = None]
  /\ task' = [u \in Tasks |->
       IF tasks[u].step = "found" /\ Head(tasks[u].todo).key = k
         THEN [tasks[u] EXCEPT !.step = "cleared"] ELSE tasks[u]]

\* A call raises.  A load reverts, a heal and an uninstall go on with the next
\* container, any other operation ends.
Raises(t) ==
  CASE task[t].kind = "load" /\ ~Doing(t, "remove") ->
         [task[t] EXCEPT !.todo = SidecarsFirst("remove"), !.step = "next", !.env = None]
    [] task[t].kind \in {"heal", "uninstall"} -> Next1(t)
    [] task[t].kind = "load" /\ Doing(t, "remove") -> Next1(t)
    [] OTHER -> [NoTask EXCEPT !.kind = "failed"]

\* update_env, and if that changed it and the app is to run, the start.
UpdateEnv(t) ==
  LET k == First(t).key  w == By(t)
  IN /\ Doing(t, "update_env")
     /\ spec' = IF spec[w][k] = None THEN spec ELSE [spec EXCEPT ![w][k] = env]
     /\ task' = [task EXCEPT ![t] =
          CASE spec[w][k] = None -> Raises(t)
            [] auto /\ spec[w][k] \notin {None, env} ->
                 [task[t] EXCEPT !.todo = <<Call("start", k)>> \o Tail(@)]
            [] OTHER -> Next1(t)]
     /\ UNCHANGED <<settings, engine, host, history, ops, faults>>

\* start(): the container of that name is looked up; the thread keeps the
\* registration it found, should it be dropped meanwhile,
LookUp(t) ==
  LET k == First(t).key
  IN /\ Doing(t, "start") /\ task[t].step = "next"
     /\ task' = [task EXCEPT ![t] =
          IF spec[By(t)][k] = None THEN Raises(t)
          ELSE [@ EXCEPT !.step = IF engine[k] = None THEN "cleared" ELSE "found",
                         !.env = spec[By(t)][k]]]
     /\ UNCHANGED <<settings, spec, engine, host, history, ops, faults>>

\* and removed (_discard),
Discard(t) ==
  /\ Doing(t, "start") /\ task[t].step = "found"
  /\ Gone(First(t).key, task)
  /\ UNCHANGED <<settings, spec, host, history, ops, faults>>

\* the image is pulled, and the arguments for create put together,
Prepare(t) ==
  LET k == First(t).key
  IN /\ Doing(t, "start") /\ task[t].step = "cleared"
     /\ task' = [task EXCEPT ![t].step = "prepared",
                             ![t].env = IF spec[By(t)][k] = None THEN @ ELSE spec[By(t)][k]]
     /\ UNCHANGED <<settings, spec, engine, host, history, ops, faults>>

\* and the container created, if the name is still free.
Create(t) ==
  LET k == First(t).key
  IN /\ Doing(t, "start") /\ task[t].step = "prepared" /\ engine[k] = None
     /\ engine' = [engine EXCEPT ![k] = [env |-> task[t].env, host |-> host, by |-> By(t)]]
     /\ Advance(t)
     /\ UNCHANGED <<settings, spec, host, history, ops, faults>>

\* With a cleanup of what bears the name.
NameTakenRemoves(t) ==
  /\ Doing(t, "start") /\ task[t].step = "prepared" /\ engine[First(t).key] # None
  /\ Gone(First(t).key, [task EXCEPT ![t] = Raises(t)])
  /\ removal' = (removal \/ task[t].kind = "load")
  /\ UNCHANGED <<settings, spec, host, landed, stopped, ops, faults>>

NameTaken(t) ==
  /\ Doing(t, "start") /\ task[t].step = "prepared" /\ engine[First(t).key] # None
  /\ task' = [task EXCEPT ![t] = Raises(t)]
  /\ removal' = (removal \/ task[t].kind = "load")
  /\ UNCHANGED <<settings, spec, engine, host, landed, stopped, ops, faults>>

StopContainer(t) ==
  LET k == First(t).key
  IN /\ Doing(t, "stop")
     /\ IF spec[By(t)][k] = None
          THEN task' = [task EXCEPT ![t] = Raises(t)] /\ UNCHANGED engine
          ELSE Gone(k, [task EXCEPT ![t] = Next1(t)])
     /\ UNCHANGED <<settings, spec, host, history, ops, faults>>

\* stop_all_for, one container: stopped, and dropped from the registry.
Remove(t) ==
  LET k == First(t).key
  IN /\ Doing(t, "remove")
     /\ spec' = [spec EXCEPT ![By(t)][k] = None]
     /\ Gone(k, [task EXCEPT ![t] = Next1(t)])
     /\ UNCHANGED <<settings, host, history, ops, faults>>

\* The engine does not answer in time, or refuses.
CallFails(t) ==
  /\ task[t].todo # <<>> /\ First(t).call # "update_env" /\ Fault
  /\ spec' = IF Doing(t, "remove") THEN [spec EXCEPT ![By(t)][First(t).key] = None] ELSE spec
  /\ task' = [task EXCEPT ![t] = Raises(t)]
  /\ UNCHANGED <<settings, engine, host, history>>

\* The registry is written when the load, or the unload, is done.
Ends(t) ==
  /\ ~Idle(t) /\ task[t].todo = <<>>
  /\ task' = [task EXCEPT ![t] = NoTask]
  /\ installed' = CASE task[t].kind = "load" -> installed \/ Loaded(By(t))
                    [] task[t].kind = "uninstall" -> FALSE
                    [] OTHER -> installed
  /\ landed' = IF task[t].kind = "save" /\ auto THEN By(t) ELSE landed
  /\ UNCHANGED <<env, auto, spec, engine, host, stopped, removal, ops, faults>>

-----------------------------------------------------------------------------
Step(t) ==
  UpdateEnv(t) \/ LookUp(t) \/ Discard(t) \/ Prepare(t) \/ Create(t) \/ NameTaken(t)
    \/ StopContainer(t) \/ Remove(t) \/ Ends(t)

Next ==
  \/ \E t \in Tasks, w \in Workers :
       \/ Load(t, w) \/ \E k \in Keys : Start(t, w, k) \/ Stop(t, w, k) \/ Restart(t, w, k)
       \/ SaveSettings(t, w) \/ FlipAutoStart(t, w) \/ Uninstall(t, w) \/ Heal(t, w)
  \/ \E w \in Workers : Attach(w) \/ Forget(w)
  \/ Redeploy
  \/ \E t \in Tasks : Step(t) \/ CallFails(t)

\* A thread's calls return, and the healer ticks on whichever worker leads.
Fairness ==
  /\ \A t \in Tasks : WF_containerVars(Step(t))
  /\ \A w \in Workers : SF_containerVars(\E t \in Tasks : Heal(t, w))

Spec == Init /\ [][Next]_containerVars /\ Fairness

-----------------------------------------------------------------------------
\* The shape of the state.
TypeOK ==
  LET Versions == 0..MaxOps
  IN /\ installed \in BOOLEAN /\ env \in Versions /\ auto \in BOOLEAN
     /\ spec \in [Workers -> [Keys -> Versions \cup {None}]]
     /\ engine \in [Keys -> [env : Versions, host : Versions, by : Workers] \cup {None}]
     /\ host \in Versions /\ landed \in Workers \cup {None}
     /\ \A t \in Tasks :
          /\ task[t].kind \in {"none", "failed", "load", "ui", "save", "flip", "uninstall", "heal"}
          /\ task[t].step \in {"next", "found", "cleared", "prepared"}
          /\ By(t) \in Workers \cup {None} /\ task[t].env \in Versions \cup {None}
          /\ Len(task[t].todo) <= 3
     /\ stopped \subseteq Keys /\ removal \in BOOLEAN
     /\ ops \in 0..MaxOps /\ faults \in 0..MaxFaults

Quiet == \A t \in Tasks : Idle(t)

\* Settings that were saved with success while the app starts on its own are those
\* that the app and its sidecar run with, as far as the worker that saved them has
\* created their containers.
SavedSettingsRun ==
  landed # None => \A k \in Keys :
    engine[k] # None /\ engine[k].by = landed => engine[k].env = env

\* However starts and restarts of the app interleave, on one worker or on several,
\* and whoever loses the name to whom: as long as nothing was stopped or reverted
\* and no call failed, the app and its sidecar run when all have come to their end.
StartsLeaveItRunning ==
  Quiet /\ installed /\ auto /\ ~removal /\ faults = 0 /\ (\E w \in Workers : Loaded(w))
    => \A k \in Keys : engine[k] # None

\* In the end no registered container dials a workspace that no longer exists,
\* sidecars no more than apps.
DriftHeals == <>[](\A w \in Workers : Drifted(w) = {})

\* A save "must not start a container the user had deliberately stopped", and a
\* heal leaves it stopped, for it is the user's choice.
StoppedStaysStopped ==
  [][\A k \in stopped : engine[k] = None => engine'[k] = None]_containerVars
=============================================================================

---------------------------- MODULE InstallJobs ----------------------------
(* The record of a background install (apps/install_jobs.py and the routes   *)
(* that start, follow and remove an app): each worker's own job, the copy    *)
(* of it in Redis that the other workers answer polls from, and the pushes   *)
(* to the panels that are open on any worker.  One app; what an install does *)
(* to disk and registry is AppProvisioning.                                  *)
EXTENDS Naturals, Sequences, FiniteSets

CONSTANTS
  Workers, Requests,
  None,
  MaxFaults,  \* bound on failing Redis calls, lost links and restarts
  Watching    \* is there a panel at all?

Statuses == {"none", "installing", "installed", "failed"}
Kinds == {"install", "update", "version", "uninstall"}
Phases == {"new", "reading", "writing", "task", "removing", "done"}

VARIABLES
  job,      \* job[w]: the status of InstallJobs._jobs[app] on w, "none" when it has no entry
  mirror,   \* the job as the Redis key has it
  sending,  \* Redis writes that are scheduled and not done: [at, by, op], in no order
  loaded,   \* the workers with the app attached
  wanted,   \* is there an AppInstall row?
  req,      \* req[r]: a request, and the task it leaves behind
  pushes,   \* status pushes scheduled and not published: [at, by, status], in no order
  panel,    \* one Marketplace panel: [phase, at, shows], connected to worker at
  linked,   \* is the push relay of the panel's worker subscribed?
  inbox,    \* pushes on their way to that worker's relay loop
  due,      \* history: what that worker has set since the panel listens, and not delivered
  faults    \* how much of MaxFaults is used up
jobVars == <<job, mirror, sending, loaded, wanted, req, pushes, linked, inbox, panel, due, faults>>

records == <<job, mirror, sending>>
live == <<pushes, linked, inbox, panel, due>>

Init ==
  /\ wanted \in BOOLEAN
  /\ loaded = IF wanted THEN Workers ELSE {}
  /\ job = [w \in Workers |-> "none"] /\ mirror = "none" /\ sending = {}
  /\ req = [r \in Requests |-> [kind |-> "install", at |-> None, phase |-> "new"]]
  /\ pushes = {} /\ linked = TRUE /\ inbox = <<>> /\ due = {}
  /\ panel = [phase |-> IF Watching THEN "new" ELSE "closed", at |-> None, shows |-> "none"]
  /\ faults = 0

Fault == faults < MaxFaults /\ faults' = faults + 1
To(r, phase) == req' = [req EXCEPT ![r].phase = phase]

\* get_shared: the own job first, whatever its age; Redis only without one.
Answer(w) == IF job[w] # "none" THEN job[w] ELSE mirror

\* _broadcast: set the status, and schedule the mirror write and the push.
Mark(r, w, status) ==
  /\ job' = [job EXCEPT ![w] = status]
  /\ sending' = sending \cup {[at |-> w, by |-> r, op |-> status]}
  /\ pushes' = IF panel.phase \in {"replaying", "open"}
                 THEN pushes \cup {[at |-> w, by |-> r, status |-> status]} ELSE pushes
  /\ due' = IF panel.phase = "open" /\ panel.at = w /\ linked
              THEN due \cup {[at |-> w, by |-> r, status |-> status]} ELSE due
  /\ UNCHANGED <<mirror, linked, inbox, panel>>

-----------------------------------------------------------------------------
(* The routes.                                                               *)

\* POST /install: refused on a worker that has the app; with a job of its own
\* the guard answers at once, without one it awaits Redis.
Install(r, w) ==
  /\ req[r].phase = "new"
  /\ req' = [req EXCEPT ![r] = [kind |-> "install", at |-> w,
       phase |-> IF w \in loaded \/ job[w] = "installing" THEN "done"
                 ELSE IF job[w] = "none" THEN "reading" ELSE "task"]]
  /\ IF req'[r].phase = "task" THEN Mark(r, w, "installing") ELSE UNCHANGED <<records, live>>
  /\ UNCHANGED <<loaded, wanted, faults>>

\* The GET of is_installing_shared is back.  Nothing is looked at again: the job
\* starts on what Redis said.
GuardReads(r) ==
  /\ req[r].phase = "reading"
  /\ IF mirror = "installing"
       THEN To(r, "done") /\ UNCHANGED <<records, live>>
       ELSE To(r, "task") /\ Mark(r, req[r].at, "installing")
  /\ UNCHANGED <<loaded, wanted, faults>>

GuardReadFails(r) ==
  /\ req[r].phase = "reading" /\ Fault
  /\ To(r, "task") /\ Mark(r, req[r].at, "installing")
  /\ UNCHANGED <<loaded, wanted>>

\* POST /update: the guard is this worker's own job and nothing else.
Update(r, w) ==
  /\ req[r].phase = "new" /\ w \in loaded
  /\ req' = [req EXCEPT ![r] = [kind |-> "update", at |-> w,
       phase |-> IF job[w] = "installing" THEN "done" ELSE "task"]]
  /\ IF job[w] = "installing" THEN UNCHANGED <<records, live>> ELSE Mark(r, w, "installing")
  /\ UNCHANGED <<loaded, wanted, faults>>

\* POST /version: the desired row is written, in a thread, between guard and job.
Pin(r, w) ==
  /\ req[r].phase = "new" /\ w \in loaded
  /\ req' = [req EXCEPT ![r] = [kind |-> "version", at |-> w,
       phase |-> IF job[w] = "installing" THEN "done" ELSE "writing"]]
  /\ UNCHANGED <<records, live, loaded, wanted, faults>>

PinWritten(r) ==
  /\ req[r].phase = "writing"
  /\ wanted' = TRUE
  /\ To(r, "task") /\ Mark(r, req[r].at, "installing")
  /\ UNCHANGED <<loaded, faults>>

PinRefused(r) ==
  /\ req[r].phase = "writing" /\ Fault
  /\ To(r, "done")
  /\ UNCHANGED <<records, live, loaded, wanted>>

\* DELETE: allowed on a row without an app, a broken install has to be removable.
Uninstall(r, w) ==
  /\ req[r].phase = "new"
  /\ req' = [req EXCEPT ![r] = [kind |-> "uninstall", at |-> w,
       phase |-> IF w \in loaded \/ wanted THEN "removing" ELSE "done"]]
  /\ UNCHANGED <<records, live, loaded, wanted, faults>>

\* jobs.clear: this worker's entry, and the copy in Redis.
Uninstalled(r) ==
  /\ req[r].phase = "removing"
  /\ wanted' = FALSE /\ loaded' = loaded \ {req[r].at}
  /\ job' = [job EXCEPT ![req[r].at] = "none"]
  /\ sending' = sending \cup {[at |-> req[r].at, by |-> r, op |-> "none"]}
  /\ To(r, "done")
  /\ UNCHANGED <<mirror, live, faults>>

-----------------------------------------------------------------------------
(* The background tasks.                                                     *)

Installs(r) ==
  /\ req[r].phase = "task"
  /\ wanted' = TRUE /\ loaded' = loaded \cup {req[r].at}
  /\ To(r, "done") /\ Mark(r, req[r].at, "installed")
  /\ UNCHANGED faults

TaskFails(r) ==
  /\ req[r].phase = "task"
  /\ To(r, "done") /\ Mark(r, req[r].at, "failed")
  /\ UNCHANGED <<loaded, wanted, faults>>

UpdateReturnsEarly(r) ==
  /\ req[r].phase = "task" /\ req[r].kind = "update"
  /\ To(r, "done")
  /\ \E status \in {"installed", "failed"} : Mark(r, req[r].at, status)
  /\ UNCHANGED <<loaded, wanted, faults>>

\* apps:changed: another worker attaches or detaches the app.
Follow(w) ==
  /\ (w \in loaded) # wanted
  /\ loaded' = IF wanted THEN loaded \cup {w} ELSE loaded \ {w}
  /\ UNCHANGED <<records, live, wanted, req, faults>>

-----------------------------------------------------------------------------
(* The mirror in Redis.                                                      *)

MirrorWrite(m) ==
  /\ m \in sending
  /\ mirror' = m.op
  /\ sending' = sending \ {m}
  /\ UNCHANGED <<job, live, loaded, wanted, req, faults>>

\* A failed write is logged at debug level and forgotten.
MirrorWriteFails(m) ==
  /\ m \in sending /\ Fault
  /\ sending' = sending \ {m}
  /\ UNCHANGED <<job, mirror, live, loaded, wanted, req>>

\* Written without an expiry.
MirrorStays == FALSE /\ UNCHANGED jobVars

\* ex=JOB_TTL_S: counted from the last transition, not from the last sign of life.
MirrorExpires ==
  /\ mirror # "none"
  /\ mirror' = "none"
  /\ UNCHANGED <<job, sending, live, loaded, wanted, req, faults>>

-----------------------------------------------------------------------------
(* The panel: a snapshot, then every push.                                   *)

Show(status) == panel' = [panel EXCEPT !.shows = status]

\* The snapshot is read, and sent; only then does the socket become a listener.
PanelOpens(w) ==
  /\ panel.phase = "new"
  /\ panel' = [phase |-> "replaying", at |-> w, shows |-> Answer(w)]
  /\ UNCHANGED <<records, pushes, linked, inbox, due, loaded, wanted, req, faults>>

PanelListens ==
  /\ panel.phase = "replaying"
  /\ panel' = [panel EXCEPT !.phase = "open"]
  /\ UNCHANGED <<records, pushes, linked, inbox, due, loaded, wanted, req, faults>>

PanelCloses ==
  /\ panel.phase = "open"
  /\ panel' = [panel EXCEPT !.phase = "closed"] /\ due' = {} /\ pushes' = {} /\ inbox' = <<>>
  /\ UNCHANGED <<records, linked, loaded, wanted, req, faults>>

\* _send_all on the panel's worker.
SendAll(p) ==
  /\ panel' = IF panel.phase = "open" THEN [panel EXCEPT !.shows = p.status] ELSE panel
  /\ due' = due \ {p}

PushPublishes(p) ==
  /\ p \in pushes
  /\ pushes' = pushes \ {p}
  /\ inbox' = IF linked THEN Append(inbox, p) ELSE inbox
  /\ UNCHANGED <<records, linked, panel, due, loaded, wanted, req, faults>>

\* A publish that fails and is given up, instead of being delivered here at least.
PushFailsSilently(p) ==
  /\ p \in pushes /\ Fault
  /\ pushes' = pushes \ {p}
  /\ UNCHANGED <<records, linked, inbox, panel, due, loaded, wanted, req>>

PushFails(p) ==
  /\ p \in pushes /\ Fault
  /\ pushes' = pushes \ {p}
  /\ IF p.at = panel.at THEN SendAll(p) ELSE UNCHANGED <<panel, due>>
  /\ UNCHANGED <<records, linked, inbox, loaded, wanted, req>>

PushArrives ==
  /\ inbox # <<>>
  /\ inbox' = Tail(inbox)
  /\ SendAll(Head(inbox))
  /\ UNCHANGED <<records, pushes, linked, loaded, wanted, req, faults>>

\* The subscription breaks: what it had not handed over is gone, and so is what
\* is published until it is back.
LinkDrops ==
  /\ linked /\ Fault
  /\ linked' = FALSE /\ inbox' = <<>> /\ due' = {}
  /\ UNCHANGED <<records, pushes, panel, loaded, wanted, req>>

Resubscribe ==
  /\ ~linked
  /\ linked' = TRUE
  /\ UNCHANGED <<records, pushes, inbox, panel, due, loaded, wanted, req, faults>>

\* A worker is replaced: its jobs, tasks and unsent writes are gone with it.
WorkerRestarts(w) ==
  /\ Fault
  /\ job' = [job EXCEPT ![w] = "none"]
  /\ sending' = {m \in sending : m.at # w}
  /\ pushes' = {p \in pushes : p.at # w}
  /\ loaded' = IF wanted THEN loaded \cup {w} ELSE loaded \ {w}
  /\ req' = [r \in Requests |->
              IF req[r].at = w THEN [req[r] EXCEPT !.phase = "done"] ELSE req[r]]
  /\ IF panel.at = w
       THEN panel' = [panel EXCEPT !.phase = "closed"] /\ inbox' = <<>> /\ due' = {} /\ linked' = TRUE
       ELSE UNCHANGED <<panel, inbox, due, linked>>
  /\ UNCHANGED <<mirror, wanted>>

-----------------------------------------------------------------------------
Next ==
  \/ \E r \in Requests, w \in Workers :
       Install(r, w) \/ Update(r, w) \/ Pin(r, w) \/ Uninstall(r, w)
  \/ \E r \in Requests :
       \/ GuardReads(r) \/ GuardReadFails(r) \/ PinWritten(r) \/ PinRefused(r)
       \/ Uninstalled(r) \/ Installs(r) \/ TaskFails(r) \/ UpdateReturnsEarly(r)
  \/ \E m \in sending : MirrorWrite(m) \/ MirrorWriteFails(m)
  \/ MirrorExpires
  \/ \E w \in Workers : Follow(w) \/ WorkerRestarts(w)
  \/ (\E w \in Workers : PanelOpens(w)) \/ PanelListens \/ PanelCloses
  \/ PushArrives \/ LinkDrops \/ Resubscribe
  \/ \E p \in pushes : PushPublishes(p) \/ PushFails(p)

\* A task ends (its steps have time limits), a scheduled write is tried, and
\* Redis drops a key when its time is up.
Fairness ==
  /\ \A r \in Requests : WF_jobVars(Installs(r) \/ TaskFails(r) \/ UpdateReturnsEarly(r))
  /\ WF_jobVars(\E m \in sending : MirrorWrite(m) \/ MirrorWriteFails(m))
  /\ WF_jobVars(MirrorExpires)

Spec == Init /\ [][Next]_jobVars /\ Fairness

-----------------------------------------------------------------------------
Message == [at : Workers, by : Requests, op : Statuses]
Push == [at : Workers, by : Requests, status : Statuses]

\* The shape of the state.
TypeOK ==
  /\ job \in [Workers -> Statuses] /\ mirror \in Statuses /\ sending \subseteq Message
  /\ loaded \subseteq Workers /\ wanted \in BOOLEAN
  /\ req \in [Requests -> [kind : Kinds, at : Workers \cup {None}, phase : Phases]]
  /\ pushes \subseteq Push /\ linked \in BOOLEAN /\ inbox \in Seq(Push)
  /\ panel \in [phase : {"new", "replaying", "open", "closed"}, at : Workers \cup {None}, shows : Statuses]
  /\ due \subseteq Push /\ faults \in 0..MaxFaults

\* A worker says "installing" of its own job only while a task of its own is at
\* it: no early return, failure or second request leaves the job behind.
NoStuckJob ==
  \A w \in Workers : job[w] = "installing" =>
    \E r \in Requests : req[r].at = w /\ req[r].phase = "task"

\* An open panel is told every status the worker it is connected to has set since
\* it began to listen there, Redis or not, as long as that worker's subscription
\* was up.
PanelHearsItsWorker ==
  \A p \in due : p \in pushes \/ \E i \in 1..Len(inbox) : inbox[i] = p

\* An answer "installing", which refuses every further install, does not last: not
\* even when the worker that ran the install is gone.
RefusalEnds == \A w \in Workers : Answer(w) = "installing" ~> Answer(w) # "installing"

\* When everything has settled and the app is removed everywhere, no worker's
\* status answers "installed" (the comment in clear()).
UninstallForgets ==
  (/\ sending = {} /\ ~wanted /\ loaded = {}
   /\ \A r \in Requests : req[r].phase \in {"new", "done"})
    => \A w \in Workers : Answer(w) # "installed"
=============================================================================

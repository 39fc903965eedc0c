--------------------------- MODULE SeededContent ---------------------------
(***************************************************************************)
(* The tasks and agents that apps seed (src/apps/tasks.py and agents.py,   *)
(* called from load() in src/apps/runtime.py) and what is remembered of    *)
(* them (src/apps/seeded_state.py): an app may correct a field it seeded   *)
(* as long as nobody has edited it, and must never undo an edit.           *)
(*                                                                         *)
(* Seeding belongs to the provisioning half of a load, which one worker    *)
(* runs at a time (AppProvisioning), in one synchronous call; another      *)
(* worker attaches and seeds nothing.  Every app declares one object with  *)
(* one field of content, whose value is the release that shipped it, or    *)
(* Own for what a user writes; fields that are the user's from the start   *)
(* (enabled, schedules) are never written again and are left out.  A       *)
(* fingerprint is the value: hashes are taken not to collide.              *)
(***************************************************************************)
EXTENDS Naturals, Sequences, SequencesExt

CONSTANTS
    Workers,
    Leader,     \* the worker that provisions at boot
    Apps,       \* the apps that declare an object
    Provider,   \* the app that keeps the objects
    Releases,   \* numbers of releases, from 2
    None,
    MaxOps,     \* bound: installs, removals, edits, restarts
    MaxFaults   \* bound: calls of the provider that fail

Absent == 0     \* not installed, not loaded, no baseline
Own == 1        \* a text of the user's
Nothing == [a \in Apps |-> Absent]

VARIABLES
    kind,       \* "tasks", or "agents", whose baselines may be the provider's
    capable,    \* the provider keeps baselines (read_state, write_state)
    wanted,     \* app -> release of its row, or Absent
    hosted,     \* the provider has a row
    mem,        \* worker -> app -> release it has loaded
    prov,       \* the workers that have loaded the provider
    pending,    \* worker -> app -> release held in _pending
    boot,       \* what the boot pass has still to load
    run,        \* the seeding under way: [by, todo, step, seen], or None
    live,       \* app -> its object as it is: [content, by], or None
    local,      \* app -> its baseline in seeded-state.json
    remote,     \* app -> its baseline with the provider
    late,       \* history: apps whose release waits for the next boot: a call failed, no
                \* provider was loaded, or the worker that swept had not followed yet
    slips,      \* history: app -> what went wrong between an object and its baseline
    undone,     \* history: apps that overwrote an edit they had seen
    ops, faults

seedVars == <<kind, capable, wanted, hosted, mem, prov, pending, boot, run, live, local,
              remote, late, slips, undone, ops, faults>>
registry == <<kind, capable, wanted, hosted, mem, prov, pending, boot>>
objects == <<live, local, remote>>

Slips == {"unread", "unrecorded", "cut", "agreed"}

TypeOK ==
    /\ kind \in {"tasks", "agents"} /\ capable \in BOOLEAN /\ hosted \in BOOLEAN
    /\ wanted \in [Apps -> Releases \cup {Absent}]
    /\ mem \in [Workers -> [Apps -> Releases \cup {Absent}]]
    /\ pending \in [Workers -> [Apps -> Releases \cup {Absent}]]
    /\ prov \subseteq Workers
    /\ boot \subseteq Apps \cup {Provider}
    /\ run # None =>
        /\ run.by \in Workers /\ run.step \in {"create", "read", "write", "record"}
        /\ run.todo # <<>>
    /\ live \in [Apps -> [content : Releases \cup {Own}, by : {"app", "user"}] \cup {None}]
    /\ local \in [Apps -> Releases \cup {Absent}]
    /\ remote \in [Apps -> Releases \cup {Absent}]
    /\ late \subseteq Apps /\ undone \subseteq Apps
    /\ slips \in [Apps -> SUBSET Slips]
    /\ ops \in 0..MaxOps /\ faults \in 0..MaxFaults

\* A provider of the first releases keeps no baselines, a later one does.
Provides == IF kind = "agents" THEN BOOLEAN ELSE {FALSE}

\* The provider may be there before the app, and so may an object of that name
\* that a user has made.
Init ==
    /\ kind \in {"tasks", "agents"}
    /\ wanted = Nothing /\ hosted \in BOOLEAN
    /\ capable \in IF hosted THEN Provides ELSE {FALSE}
    /\ mem = [w \in Workers |-> Nothing] /\ prov = IF hosted THEN Workers ELSE {}
    /\ pending = [w \in Workers |-> Nothing]
    /\ boot = {} /\ run = None
    /\ live \in [Apps -> {None, [content |-> Own, by |-> "user"]}]
    /\ local = Nothing /\ remote = Nothing
    /\ late = {} /\ slips = [a \in Apps |-> {}] /\ undone = {}
    /\ ops = 0 /\ faults = 0

Operation == ops < MaxOps /\ ops' = ops + 1 /\ UNCHANGED faults
Fault == faults < MaxFaults /\ faults' = faults + 1 /\ UNCHANGED ops

Job(a, release) == [app |-> a, rel |-> release]
Seeding(w, todo) ==
    IF todo = <<>> THEN None ELSE [by |-> w, todo |-> todo, step |-> "create", seen |-> Own]

At(step) == run # None /\ run.step = step
Now == Head(run.todo)

Remote == kind = "agents" /\ capable

\* _remote_read falls back on the file for an object the provider has no row of.
Baseline(a) == IF Remote /\ remote[a] # Absent THEN remote[a] ELSE local[a]

\* The app's own text is on the object and its baseline is another one, or none.
Dangling ==
    /\ At("read") \/ At("record")
    /\ live[Now.app] # None /\ live[Now.app].by = "app"
    /\ live[Now.app].content # Baseline(Now.app)

(***************************************************************************)
(* Loads that provision.                                                   *)
(***************************************************************************)
\* register(): dispatch, or hold the declaration until a provider is there.
Register(w, a, release) ==
    /\ mem' = [mem EXCEPT ![w][a] = release]
    /\ IF w \in prov
       THEN /\ run' = Seeding(w, <<Job(a, release)>>)
            /\ late' = late \ {a} /\ UNCHANGED pending
       ELSE /\ pending' = [pending EXCEPT ![w][a] = release]
            /\ late' = late \cup {a} /\ UNCHANGED run
    /\ UNCHANGED prov

\* sweep(): what was held, then every app this worker has loaded.
Sweep(w) ==
    LET Jobs(of) == SetToSeq({Job(a, of[a]) : a \in {b \in Apps : of[b] # Absent}})
    IN  /\ prov' = prov \cup {w}
        /\ pending' = [pending EXCEPT ![w] = Nothing]
        /\ run' = Seeding(w, Jobs(pending[w]) \o Jobs(mem[w]))
        /\ UNCHANGED mem

Quiet == run = None /\ boot = {}

\* An install or an update, asked of any worker.
Install(w, a) ==
    /\ Quiet /\ Operation
    /\ \E release \in Releases \ {wanted[a]} :
        /\ wanted' = [wanted EXCEPT ![a] = release]
        /\ Register(w, a, release)
    /\ UNCHANGED <<kind, capable, hosted, boot, objects, slips, undone>>

\* The objects stay: they are the user's.  Nobody calls forget().
Uninstall(w, a) ==
    /\ Quiet /\ Operation /\ wanted[a] # Absent
    /\ wanted' = [wanted EXCEPT ![a] = Absent]
    /\ mem' = [mem EXCEPT ![w][a] = Absent]
    /\ UNCHANGED <<kind, capable, hosted, prov, pending, boot, run, objects, late, slips, undone>>

InstallProvider(w) ==
    /\ Quiet /\ Operation
    /\ hosted' = TRUE
    /\ capable' \in {c \in Provides : capable => c}
    /\ Sweep(w)
    /\ late' = {a \in late : mem[w][a] # wanted[a]}
    /\ UNCHANGED <<kind, wanted, boot, objects, slips, undone>>

RemoveProvider(w) ==
    /\ Quiet /\ Operation /\ hosted
    /\ hosted' = FALSE
    /\ prov' = prov \ {w}
    /\ UNCHANGED <<kind, capable, wanted, mem, pending, boot, run, objects, late, slips, undone>>

\* apps:changed on the other workers: their memory follows, nothing is seeded.
Attach(w) ==
    /\ Quiet
    /\ mem' = [mem EXCEPT ![w] = wanted]
    /\ prov' = IF hosted THEN prov \cup {w} ELSE prov \ {w}
    /\ UNCHANGED <<kind, capable, wanted, hosted, pending, boot, run, objects, late, slips, undone,
                   ops, faults>>

\* The container starts again; the leader loads every row, in any order.
Restart ==
    /\ Operation
    /\ mem' = [w \in Workers |-> Nothing] /\ prov' = {}
    /\ pending' = [w \in Workers |-> Nothing]
    /\ boot' = {a \in Apps : wanted[a] # Absent} \cup (IF hosted THEN {Provider} ELSE {})
    /\ run' = None
    /\ late' = {}
    /\ slips' = IF Dangling
                THEN [slips EXCEPT ![Head(run.todo).app] = @ \cup {"cut"}] ELSE slips
    /\ UNCHANGED <<kind, capable, wanted, hosted, objects, undone>>

BootLoads(x) ==
    /\ run = None /\ x \in boot
    /\ boot' = boot \ {x}
    /\ IF x = Provider THEN Sweep(Leader) /\ UNCHANGED late
       ELSE Register(Leader, x, wanted[x])
    /\ UNCHANGED <<kind, capable, wanted, hosted, objects, slips, undone, ops, faults>>

(***************************************************************************)
(* _dispatch of one declaration: create it if it is absent, else bring the *)
(* field up to date, and remember what was declared.                       *)
(***************************************************************************)
Goes(step, seen) == run' = [run EXCEPT !.step = step, !.seen = seen]
Done ==
    run' = Seeding(run.by, Tail(run.todo))

\* updatable_fields: ours to write if it was seeded and is as it was seeded.
Updatable(a, release, content) ==
    /\ Baseline(a) # Absent
    /\ content = Baseline(a)
    /\ release # Baseline(a)

\* tasks.py records what it has created; agents.py reconciles it like the others.
Create ==
    /\ At("create")
    /\ late' = IF Now.rel = wanted[Now.app] THEN late \ {Now.app} ELSE late \cup {Now.app}
    /\ IF live[Now.app] = None
       THEN /\ live' = [live EXCEPT ![Now.app] = [content |-> Now.rel, by |-> "app"]]
            /\ Goes(IF kind = "tasks" THEN "record" ELSE "read", Own)
       ELSE Goes("read", Own) /\ UNCHANGED live
    /\ UNCHANGED <<registry, local, remote, slips, undone, ops, faults>>

Read ==
    /\ At("read") /\ live[Now.app] # None
    /\ LET content == live[Now.app].content
       IN  Goes(IF Updatable(Now.app, Now.rel, content) THEN "write" ELSE "record", content)
    /\ UNCHANGED <<registry, objects, late, slips, undone, ops, faults>>

\* Deleted in the meantime: nothing to reconcile, and nothing to remember.
ReadsNothing ==
    /\ At("read") /\ live[Now.app] = None
    /\ Done
    /\ UNCHANGED <<registry, objects, late, slips, undone, ops, faults>>

\* read_state raises: _remote_read says None, so nothing is updatable, and
\* the baseline is moved on all the same.
BaselineUnread ==
    /\ At("read") /\ Remote /\ Fault
    /\ Goes("record", Own)
    /\ slips' = [slips EXCEPT ![Now.app] = @ \cup {"unread"}]
    /\ UNCHANGED <<registry, objects, late, undone>>

\* One field is written; what the object has become since it was read is not
\* looked at.
Write ==
    /\ At("write")
    /\ LET was == live[Now.app]
       IN  /\ live' = IF was = None THEN live
                      ELSE [live EXCEPT ![Now.app] = [content |-> Now.rel, by |-> "app"]]
           /\ undone' = IF was # None /\ was.by = "user" /\ was.content = run.seen
                             /\ "agreed" \notin slips[Now.app]
                        THEN undone \cup {Now.app} ELSE undone
    /\ Goes("record", Own)
    /\ UNCHANGED <<registry, local, remote, late, slips, ops, faults>>

\* A call of the provider raises, or an agent's write says False: the object
\* keeps its baseline, and the next boot tries again; an agent that was created
\* a moment ago has none.
CallFails ==
    /\ run # None /\ run.step \in {"create", "read", "write"} /\ Fault
    /\ Done
    /\ late' = late \cup {Now.app}
    /\ slips' = IF Dangling
                THEN [slips EXCEPT ![Now.app] = @ \cup {"unrecorded"}] ELSE slips
    /\ UNCHANGED <<registry, objects, undone>>

Remember(value) ==
    IF Remote THEN remote' = [remote EXCEPT ![Now.app] = value] /\ UNCHANGED local
    ELSE local' = [local EXCEPT ![Now.app] = value] /\ UNCHANGED remote

Record ==
    /\ At("record")
    /\ Remember(Now.rel)
    /\ Done
    /\ UNCHANGED <<registry, live, late, slips, undone, ops, faults>>

\* write_state raises, or the file cannot be written.
RecordFails ==
    /\ At("record") /\ Fault
    /\ slips' = [slips EXCEPT ![Now.app] = @ \cup {"unrecorded"}]
    /\ Done
    /\ UNCHANGED <<registry, objects, late, undone>>

(***************************************************************************)
(* The user, at any time.                                                  *)
(***************************************************************************)
\* A text of her own, or one that some release has, or will have.
Edit(a) ==
    /\ Operation /\ live[a] # None
    /\ \E content \in Releases \cup {Own} :
        /\ live' = [live EXCEPT ![a] = [content |-> content, by |-> "user"]]
        /\ slips' = IF content = Own THEN slips ELSE [slips EXCEPT ![a] = @ \cup {"agreed"}]
    /\ UNCHANGED <<registry, run, local, remote, late, undone>>

\* The next boot creates it again.
Delete(a) ==
    /\ Operation /\ live[a] # None
    /\ live' = [live EXCEPT ![a] = None]
    /\ late' = late \cup {a}
    /\ UNCHANGED <<registry, run, local, remote, slips, undone>>

Next ==
    \/ \E w \in Workers :
        \/ InstallProvider(w) \/ RemoveProvider(w) \/ Attach(w)
        \/ \E a \in Apps : Install(w, a) \/ Uninstall(w, a)
    \/ Restart
    \/ \E x \in Apps \cup {Provider} : BootLoads(x)
    \/ Create \/ Read \/ ReadsNothing \/ BaselineUnread \/ Write \/ CallFails
    \/ Record \/ RecordFails
    \/ \E a \in Apps : Edit(a) \/ Delete(a)

Spec == Init /\ [][Next]_seedVars

(***************************************************************************)
(* Properties                                                              *)
(***************************************************************************)
\* A user's own text is never replaced by an app that has read it, through any
\* number of releases, rollbacks, restarts and changes of the place where the
\* baselines are kept.
EditsHold == undone = {}

\* What no user has touched says what the installed release says, once the
\* provider is there and the load that seeds it is through, whichever of the
\* two came first; and every boot makes up for what failed or came too late
\* before it.  Not so after a slip between an object and its baseline.
CorrectionsLand ==
    Quiet /\ hosted =>
        \A a \in Apps :
            wanted[a] # Absent /\ a \notin late /\ slips[a] = {} =>
                /\ live[a] # None
                /\ live[a].by = "app" => live[a].content = wanted[a]

\* Not so: the baseline moves on although the old one could not be read, and
\* the object counts as edited from then on.
RetriesAfterUnread ==
    Quiet /\ hosted =>
        \A a \in Apps :
            wanted[a] # Absent /\ a \notin late /\ slips[a] \subseteq {"unread"}
                /\ live[a] # None /\ live[a].by = "app" =>
                    live[a].content = wanted[a]
=============================================================================

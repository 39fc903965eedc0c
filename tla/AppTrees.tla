------------------------------ MODULE AppTrees ------------------------------
(***************************************************************************)
(* What a container app has on disk, and what its container gets of it:    *)
(* the package tree (src/apps/fetch.py, _resolve_package_dir in            *)
(* src/apps/reconciler.py), the checkout it declares (src/apps/repos.py),  *)
(* its data directory and who owns the files in it (app_data_owner and     *)
(* expand_env in src/apps/containers.py), and the volumes of               *)
(* _container_volumes in src/apps/runtime.py.                              *)
(*                                                                         *)
(* One app and one provisioning worker, which does one job at a time under *)
(* the provisioning lock (AppProvisioning); the stages of a folder's remap *)
(* are in FolderRemap and those of a container's start in Containers.      *)
(*                                                                         *)
(* A release is [ver, volumes, perms, signed, user, repo]: its version,    *)
(* its volumes as [source, mode], the permissions its manifest declares,   *)
(* its trust, whether it is told its user by a PUID in its environment or  *)
(* by a --user flag, and whether it declares a checkout.                   *)
(***************************************************************************)
EXTENDS Naturals, Sequences, FiniteSets, Functions

CONSTANTS
    Releases,    \* the releases on offer
    Folders,     \* what a user may map: [name, path, mode]
    Uids,        \* user ids, numbers
    None,        \* no tree, no owner, no job
    MaxOps,      \* bound: installs, uninstalls, mappings, restarts
    MaxFiles,    \* bound: files in the data directory
    MaxFaults    \* bound: kills, failed downloads, swaps and clones

VARIABLES
    wanted,    \* the release of the registry's row, or None
    tree,      \* apps/<slug>: [ver, whole, data], or None; data is the
               \* version whose install built .data in it
    aside,     \* apps/<slug>.old
    checkout,  \* repos/<name>: "absent", "partial" or "whole"
    files,     \* uid -> how many entries of data/<slug> it owns
    top,       \* owner of data/<slug> itself, None if there is none
    uid,       \* the workspace's user
    folders,   \* the mapped folders, in the order of the file
    job,       \* what is under way: [step, rel, env], or None
    spec,      \* the registered container: [rel, env, binds], or None
    box,       \* the engine's container: [rel, by, binds], or None
    swept,     \* the data was chowned since the container was started
    lost,      \* what happened that excuses a broken tree or a wrong owner
    ops, faults

treeVars == <<wanted, tree, aside, checkout, files, top, uid, folders, job, spec, box,
              swept, lost, ops, faults>>
disk == <<tree, aside, checkout>>
data == <<files, top>>

Sources == {"package", "$AW_APPS_ROOT", "$AW_WORKSPACE_REPOS", "$AW_WORKSPACE_REPO",
            "$AW_MCP_JSON", "$AW_APP_DATA", "$AW_KB_DIR", "$AW_WORKSPACE_SKILLS",
            "$AW_WORKSPACE_ROOT", "$AW_WORKSPACE_FOLDERS"}
Versions == {r.ver : r \in Releases}
Steps == {"resolve", "fetched", "aside", "swapped", "load", "clone", "cloning", "mount",
          "start", "remove"}
Trees == [ver : Versions, whole : BOOLEAN, data : Versions \cup {None}] \cup {None}

TypeOK ==
    /\ wanted \in Releases \cup {None}
    /\ tree \in Trees /\ aside \in Trees
    /\ checkout \in {"absent", "partial", "whole"}
    /\ files \in [Uids -> 0..MaxFiles]
    /\ top \in Uids \cup {None}
    /\ uid \in Uids
    /\ folders \in Seq(Folders)
    /\ job \in [step : Steps, rel : Releases, env : Uids] \cup {None}
    /\ spec # None => spec.rel \in Releases /\ spec.env \in Uids
    /\ box # None => box.rel \in Releases /\ box.by \in Uids
    /\ swept \in BOOLEAN
    /\ lost \subseteq {"tree", "checkout", "owner"}
    /\ ops \in 0..MaxOps
    /\ faults \in 0..MaxFaults

Init ==
    /\ wanted = None
    /\ tree = None /\ aside = None
    /\ checkout = "absent"
    /\ files = [u \in Uids |-> 0]
    /\ top = None
    /\ uid \in Uids
    /\ folders = <<>>
    /\ job = None /\ spec = None /\ box = None
    /\ swept = FALSE
    /\ lost = {}
    /\ ops = 0
    /\ faults = 0

Operation == ops < MaxOps /\ ops' = ops + 1
Fault == faults < MaxFaults /\ faults' = faults + 1
At(step) == job # None /\ job.step = step
Goes(step) == job' = [job EXCEPT !.step = step]
Total == FoldFunction(+, 0, files)

(***************************************************************************)
(* Volumes.                                                                *)
(***************************************************************************)
\* What a placeholder needs declared, and the modes it may have.
Needs(source) ==
    CASE source \in {"$AW_WORKSPACE_REPOS", "$AW_WORKSPACE_SKILLS", "$AW_WORKSPACE_ROOT"}
                                                -> {"fs:workspace-read"}
      [] source = "$AW_WORKSPACE_REPO"          -> {"repos:contribute"}
      [] source = "$AW_MCP_JSON"                -> {"mcp:register-gateway"}
      [] source \in {"$AW_APP_DATA", "$AW_KB_DIR", "$AW_WORKSPACE_FOLDERS"}
                                                -> {"fs:workspace-data"}
      [] OTHER                                  -> {}

Modes(source) ==
    CASE source \in {"$AW_APPS_ROOT", "$AW_WORKSPACE_REPOS", "$AW_WORKSPACE_SKILLS"} -> {"ro"}
      [] source \in {"$AW_MCP_JSON", "$AW_APP_DATA", "$AW_KB_DIR"} -> {"rw"}
      [] OTHER -> {"ro", "rw"}

\* fs:workspace-write is high-risk: it is asked of the grant, not of the
\* manifest.
Granted(r) == IF r.signed THEN r.perms ELSE r.perms \ {"fs:workspace-write"}

Mountable(r) ==
    \A v \in r.volumes :
        /\ v.source \in Sources
        /\ v.mode \in Modes(v.source)
        /\ Needs(v.source) \subseteq r.perms
        /\ v = [source |-> "$AW_WORKSPACE_ROOT", mode |-> "rw"] =>
                "fs:workspace-write" \in Granted(r)
        /\ v.source = "$AW_WORKSPACE_REPO" => checkout # "absent"

\* One bind per mapped folder, its mode clamped by the volume's.
FolderBinds(r, list) ==
    {[path |-> list[i].path, target |-> list[i].name,
      mode |-> IF v.mode = "ro" THEN "ro" ELSE list[i].mode] :
        i \in DOMAIN list, v \in {x \in r.volumes : x.source = "$AW_WORKSPACE_FOLDERS"}}

\* The binds are keyed by the path on the host: of two on one path the later
\* stays, and the folders are declared last.
Binds(r, list) ==
    LET own == {[path |-> v.source, target |-> v.source, mode |-> v.mode] :
                   v \in {x \in r.volumes : x.source # "$AW_WORKSPACE_FOLDERS"}}
        later == {i \in DOMAIN list :
                    \A j \in DOMAIN list \ {i} : list[j].path = list[i].path => j < i}
        mapped == {b \in FolderBinds(r, list) :
                     \E i \in later : b.path = list[i].path /\ b.target = list[i].name}
    IN mapped \cup {b \in own : \A m \in mapped : m.path # b.path}

(***************************************************************************)
(* app_data_owner: who owns most of the entries, the lowest of several;    *)
(* with none, who owns the directory, or what it would be made in.         *)
(***************************************************************************)
OwnerOfTheDirectory == IF top # None THEN top ELSE uid

DataOwner ==
    LET most == {u \in Uids : \A x \in Uids : files[x] <= files[u]}
    IN IF Total > 0 THEN CHOOSE u \in most : \A x \in most : u <= x
       ELSE IF top # None THEN top ELSE uid

(***************************************************************************)
(* An install, an update or a boot: the tree.                              *)
(***************************************************************************)
Begin(r) == job' = [step |-> "resolve", rel |-> r, env |-> uid]

\* A loaded release is unloaded first, its tree kept (remove_repo=False).
Ask(r) ==
    /\ job = None
    /\ ~(spec # None /\ spec.rel = r)
    /\ Operation
    /\ wanted' = r
    /\ spec' = None
    /\ box' = IF spec # None THEN None ELSE box
    /\ Begin(r)
    /\ UNCHANGED <<disk, data, uid, folders, swept, lost, faults>>

Reconcile ==
    /\ job = None
    /\ spec = None
    /\ wanted # None
    /\ Begin(wanted)
    /\ UNCHANGED <<wanted, disk, data, uid, folders, spec, box, swept, lost, ops, faults>>

Current(r) == tree # None /\ tree.ver = r.ver

PackageIsCurrent ==
    /\ At("resolve")
    /\ Current(job.rel)
    /\ Goes("load")
    /\ UNCHANGED <<wanted, disk, data, uid, folders, spec, box, swept, lost, ops, faults>>

\* Downloaded and extracted next to the tree; what an earlier fetch left aside
\* goes.
Fetch ==
    /\ At("resolve")
    /\ ~Current(job.rel)
    /\ aside' = None
    /\ Goes("fetched")
    /\ UNCHANGED <<wanted, tree, checkout, data, uid, folders, spec, box, swept, lost, ops,
                   faults>>

FetchFails ==
    /\ At("resolve")
    /\ ~Current(job.rel)
    /\ Fault
    /\ job' = None
    /\ UNCHANGED <<wanted, disk, data, uid, folders, spec, box, swept, lost, ops>>

SetAside ==
    /\ At("fetched")
    /\ aside' = tree
    /\ tree' = None
    /\ Goes("aside")
    /\ UNCHANGED <<wanted, checkout, data, uid, folders, spec, box, swept, lost, ops,
                   faults>>

SwapIn ==
    /\ At("aside")
    /\ tree' = [ver |-> job.rel.ver, whole |-> TRUE, data |-> None]
    /\ Goes("swapped")
    /\ UNCHANGED <<wanted, aside, checkout, data, uid, folders, spec, box, swept, lost,
                   ops, faults>>

SwapFails ==
    /\ At("aside")
    /\ Fault
    /\ tree' = aside
    /\ aside' = None
    /\ job' = None
    /\ UNCHANGED <<wanted, checkout, data, uid, folders, spec, box, swept, lost, ops>>

RemoveAside ==
    /\ At("swapped")
    /\ aside' = None
    /\ Goes("load")
    /\ UNCHANGED <<wanted, tree, checkout, data, uid, folders, spec, box, swept, lost, ops,
                   faults>>

(***************************************************************************)
(* The load: environment, checkout, volumes, start.                        *)
(***************************************************************************)
\* expand_env, before there need be a data directory.
Expand ==
    /\ At("load")
    /\ job' = [job EXCEPT !.step = "clone", !.env = DataOwner]
    /\ UNCHANGED <<wanted, disk, data, uid, folders, spec, box, swept, lost, ops, faults>>

\* Clone once, by the directory's name.
Clone ==
    /\ At("clone")
    /\ IF job.rel.repo /\ checkout = "absent"
       THEN checkout' = "partial" /\ Goes("cloning")
       ELSE Goes("mount") /\ UNCHANGED checkout
    /\ UNCHANGED <<wanted, tree, aside, data, uid, folders, spec, box, swept, lost, ops,
                   faults>>

Cloned ==
    /\ At("cloning")
    /\ checkout' = "whole"
    /\ Goes("mount")
    /\ UNCHANGED <<wanted, tree, aside, data, uid, folders, spec, box, swept, lost, ops,
                   faults>>

\* An exit code or a timeout: what git left is removed, and the load goes on.
CloneFails ==
    /\ At("cloning")
    /\ Fault
    /\ checkout' = "absent"
    /\ Goes("mount")
    /\ UNCHANGED <<wanted, tree, aside, data, uid, folders, spec, box, swept, lost, ops>>

Refused ==
    /\ At("mount")
    /\ ~Mountable(job.rel)
    /\ job' = None
    /\ UNCHANGED <<wanted, disk, data, uid, folders, spec, box, swept, lost, ops, faults>>

\* The data directory is made, and the container registered.
Mount ==
    /\ At("mount")
    /\ Mountable(job.rel)
    /\ top' = IF top = None /\ \E v \in job.rel.volumes : v.source = "$AW_APP_DATA"
              THEN uid ELSE top
    /\ spec' = [rel |-> job.rel, env |-> job.env, binds |-> Binds(job.rel, folders)]
    /\ Goes("start")
    /\ UNCHANGED <<wanted, disk, files, uid, folders, box, swept, lost, ops, faults>>

\* A --user flag is resolved now, a PUID was when the app was loaded; an image
\* that takes a PUID chowns the directory and a few paths it manages.
Inits(by) ==
    /\ top' = IF top = None THEN None ELSE by
    /\ \E u \in Uids :
          IF files[u] = 0 \/ u = by THEN UNCHANGED files
          ELSE files' = [files EXCEPT ![u] = @ - 1, ![by] = @ + 1]

Start ==
    /\ At("start")
    /\ LET by == IF spec.rel.user = "flag" THEN DataOwner ELSE spec.env
       IN /\ box' = [rel |-> spec.rel, by |-> by, binds |-> spec.binds]
          /\ IF spec.rel.user = "flag" THEN UNCHANGED data ELSE Inits(by)
    /\ swept' = FALSE
    /\ job' = None
    /\ UNCHANGED <<wanted, disk, uid, folders, spec, lost, ops, faults>>

(***************************************************************************)
(* While it runs.                                                          *)
(***************************************************************************)
\* What an app builds for itself goes to .data in its package.
Builds ==
    /\ spec # None
    /\ tree # None
    /\ tree.data = None
    /\ tree' = [tree EXCEPT !.data = spec.rel.ver]
    /\ UNCHANGED <<wanted, aside, checkout, data, uid, folders, job, spec, box, swept, lost,
                   ops, faults>>

\* What the app writes is its user's. (A container that outlives its workspace
\* may write between the reading of the owners and its own replacement.)
Writes ==
    /\ box # None
    /\ top # None
    /\ Total < MaxFiles
    /\ files' = [files EXCEPT ![box.by] = @ + 1]
    /\ lost' = IF swept THEN lost \cup {"owner"} ELSE lost
    /\ UNCHANGED <<wanted, disk, top, uid, folders, job, spec, box, swept, ops, faults>>

RestartContainer ==
    /\ job = None
    /\ spec # None
    /\ Operation
    /\ job' = [step |-> "start", rel |-> spec.rel, env |-> spec.env]
    /\ UNCHANGED <<wanted, disk, data, uid, folders, spec, box, swept, lost, faults>>

\* A folder is mapped, under a new name or one it replaces, or unmapped; an app
\* with the placeholder gets its binds again and is recreated.
Remap(list) ==
    /\ job = None
    /\ Operation
    /\ folders' = list
    /\ IF spec # None /\ \E v \in spec.rel.volumes : v.source = "$AW_WORKSPACE_FOLDERS"
       THEN /\ spec' = [spec EXCEPT !.binds = Binds(spec.rel, list)]
            /\ job' = [step |-> "start", rel |-> spec.rel, env |-> spec.env]
       ELSE UNCHANGED <<spec, job>>
    /\ UNCHANGED <<wanted, disk, data, uid, box, swept, lost, faults>>

Others(name) == SelectSeq(folders, LAMBDA f : f.name # name)
MapFolder(f) == Remap(Append(Others(f.name), f))
UnmapFolder(name) ==
    /\ \E i \in DOMAIN folders : folders[i].name = name
    /\ Remap(Others(name))

Uninstall ==
    /\ job = None
    /\ spec # None
    /\ Operation
    /\ wanted' = None
    /\ spec' = None
    /\ box' = None
    /\ job' = [step |-> "remove", rel |-> spec.rel, env |-> spec.env]
    /\ UNCHANGED <<disk, data, uid, folders, swept, lost, faults>>

RemoveTree ==
    /\ At("remove")
    /\ tree' = None
    /\ job' = None
    /\ UNCHANGED <<wanted, aside, checkout, data, uid, folders, spec, box, swept, lost, ops,
                   faults>>

(***************************************************************************)
(* Restarts.                                                               *)
(***************************************************************************)
\* The process dies in the middle of something; containers outlive it.
Killed ==
    /\ job # None
    /\ Fault
    /\ tree' = IF At("remove") /\ tree # None THEN [tree EXCEPT !.whole = FALSE] ELSE tree
    /\ lost' = lost \cup (IF At("remove") THEN {"tree"} ELSE {})
                    \cup (IF At("cloning") THEN {"checkout"} ELSE {})
    /\ job' = None
    /\ spec' = None
    /\ UNCHANGED <<wanted, aside, checkout, data, uid, folders, box, swept, ops>>

\* A redeploy chowns the whole mount to the workspace's user of the day.
Redeploy ==
    /\ job = None
    /\ Operation
    /\ uid' \in Uids
    /\ files' = [u \in Uids |-> IF u = uid' THEN Total ELSE 0]
    /\ top' = IF top = None THEN None ELSE uid'
    /\ swept' = (swept \/ box # None)
    /\ spec' = None
    /\ UNCHANGED <<wanted, disk, folders, job, box, lost, faults>>

\* The engine restarts the container by itself (like Writes, it may come
\* between the reading of the owners and the container's replacement).
BoxRestarts ==
    /\ box # None
    /\ box.rel.user = "env"
    /\ swept
    /\ Fault
    /\ Inits(box.by)
    /\ lost' = IF job = None THEN lost ELSE lost \cup {"owner"}
    /\ UNCHANGED <<wanted, disk, uid, folders, job, spec, box, swept, ops>>

Next ==
    \/ \E r \in Releases : Ask(r)
    \/ Reconcile \/ PackageIsCurrent \/ Fetch \/ FetchFails \/ SetAside \/ SwapIn
    \/ SwapFails \/ RemoveAside \/ Expand \/ Clone \/ Cloned \/ CloneFails \/ Refused
    \/ Mount \/ Start \/ Builds \/ Writes \/ RestartContainer
    \/ \E f \in Folders : MapFolder(f) \/ UnmapFolder(f.name)
    \/ Uninstall \/ RemoveTree \/ Killed \/ Redeploy \/ BoxRestarts

Spec == Init /\ [][Next]_treeVars

(***************************************************************************)
(* Properties                                                              *)
(***************************************************************************)
\* A loaded app stands on a whole tree of its own version, with nothing in it
\* that another version built, through failed downloads, failed swaps and
\* kills; only a removal that was cut short excuses it.
LoadedTreeIsWhole ==
    spec # None /\ "tree" \notin lost =>
        /\ tree # None
        /\ tree.whole
        /\ tree.ver = spec.rel.ver
        /\ tree.data \in {None, tree.ver}

\* No container serves half a checkout, unless git itself was cut short.
CheckoutIsWhole ==
    /\ box # None
    /\ "checkout" \notin lost
    /\ \E v \in box.rel.volumes : v.source = "$AW_WORKSPACE_REPO"
    => checkout = "whole"

\* A started container runs as a user that owns as many of its files as any
\* other does, whatever redeploys chowned and its own image chowned back.
RunsAsOwner ==
    box # None /\ ~swept /\ "owner" \notin lost =>
        \A u \in Uids : files[u] <= files[box.by]

\* "It expands to one bind per mapped folder": every mapped folder and every
\* other volume is in the container.
EveryVolumeMounted ==
    spec # None =>
        \A v \in spec.rel.volumes :
            IF v.source = "$AW_WORKSPACE_FOLDERS"
            THEN \A i \in DOMAIN folders : \E b \in spec.binds : b.target = folders[i].name
            ELSE \E b \in spec.binds : b.target = v.source

\* ... which holds as long as no two of them are one directory.
DistinctVolumesMounted ==
    (\A i \in DOMAIN folders : folders[i].path \notin Sources
        /\ \A j \in DOMAIN folders : i # j => folders[i].path # folders[j].path)
    => EveryVolumeMounted

\* "A dir that exists is a complete tree, not a half-written one."
TreesAreComplete == tree # None => tree.whole
=============================================================================

----------------------------- MODULE AppSettings -----------------------------
(***************************************************************************)
(* What a container app runs with: its settings and its host power.        *)
(* src/apps/manifest.py (validation, defaults, minted secrets),            *)
(* src/apps/hostpower.py (the three legs of a grant), the install and the  *)
(* removal in src/apps/reconciler.py, _load_container in                   *)
(* src/apps/runtime.py and the container's arguments in                    *)
(* src/apps/containers.py.                                                 *)
(*                                                                         *)
(* One app, offered in several manifests (releases), with a database       *)
(* sidecar whose password is an x-generate secret of the app's, and the    *)
(* framework's "public" setting, which is locked to "on" in a release that *)
(* has no subdomain of its own.  The data directory of the sidecar         *)
(* outlives everything.  One worker: the others attach from the row and    *)
(* start nothing (AppProvisioning); concurrent saves are in                *)
(* ConfigPropagation.                                                      *)
(*                                                                         *)
(* A manifest is [needs, required, optional, perms, signed, standalone]:   *)
(* the workspace version it requires, the grants it asks for, those it     *)
(* would like, the permissions it declares, its trust, and whether it has  *)
(* a subdomain.                                                            *)
(***************************************************************************)
EXTENDS Naturals, FiniteSets

CONSTANTS
    Manifests,   \* the releases on offer
    Offers,      \* the sets of grants a host may opt into
    Versions,    \* workspace versions; 0 is an unstamped one
    None,        \* no row, no snapshot, no container
    MaxOps,      \* bound: installs, updates, saves, uninstalls, new hosts
    MaxFaults    \* bound: crashes and failed starts

Granular == {"kvm", "gpu"}               \* what "all" stands for
Grants == Granular \cup {"privileged"}
Publics == {"unset", "on", "off"}

VARIABLES
    host,       \* AW_HOST_POWER of the running workspace
    version,    \* AW_WORKSPACE_VERSION
    row,        \* the mirror row: [man, cfg], or None
    snap,       \* config_store's snapshot, or None
    app,        \* the loaded app: [man, cfg], or None
    box,        \* the app's container: [man, cfg, power, drops, offered], or None
    datadir,    \* the secret the database was made with, 0 if there is none
    job,        \* the install under way: [step, man, cfg, prev, was], or None:
                \* what to put back if an upgrade fails, and what it replaces
    minted,     \* secrets minted so far
    held,       \* the secret of the last finished install, 0 (no code)
    ops, faults

settingVars == <<host, version, row, snap, app, box, datadir, job, minted, held,
                 ops, faults>>

NoConfig == [secret |-> 0, public |-> "unset"]
Steps == {"asked", "fetched", "resolved", "database", "running", "rowed"}
Configs == [secret : 0..MaxOps, public : Publics]

TypeOK ==
    /\ host \in SUBSET Grants
    /\ version \in Versions
    /\ row = None \/ (row.man \in Manifests /\ row.cfg \in Configs)
    /\ snap = None \/ snap \in Configs
    /\ app = None \/ (app.man \in Manifests /\ app.cfg \in Configs)
    /\ box = None \/ (box.man \in Manifests /\ box.cfg \in Configs /\ box.power \subseteq Grants)
    /\ datadir \in 0..MaxOps
    /\ job = None \/ (job.step \in Steps /\ job.man \in Manifests /\ job.cfg \in Configs)
    /\ minted \in 0..MaxOps
    /\ held \in 0..MaxOps
    /\ ops \in 0..MaxOps
    /\ faults \in 0..MaxFaults

Init ==
    /\ host \in Offers
    /\ version \in Versions
    /\ row = None /\ snap = None /\ app = None /\ box = None /\ job = None
    /\ datadir = 0
    /\ minted = 0
    /\ held = 0
    /\ ops = 0
    /\ faults = 0

Operation == ops < MaxOps /\ ops' = ops + 1
Fault == faults < MaxFaults /\ faults' = faults + 1

(***************************************************************************)
(* hostpower.py and the manifest rules.                                    *)
(***************************************************************************)
\* filter_grants: every host capability is high-risk.
Held(m) == IF m.signed THEN m.perms ELSE {}

\* A host that granted privileged granted everything narrower too.
Available(offer) == IF "privileged" \in offer THEN Grants ELSE offer

\* validate_manifest: every grant asked for comes with its permission, and the
\* workspace is new enough, if it knows what it is.
Validates(m) ==
    /\ m.required \cup m.optional \subseteq m.perms
    /\ version # 0 => version >= m.needs

\* resolve() and resolve_optional(): the permission leg raises in both, the
\* host leg only for what is required.
ResolvesAllLegsOptional(m, offer) == m.required \cup m.optional \subseteq Held(m)

Resolves(m, offer) ==
    /\ m.required \cup m.optional \subseteq Held(m)
    /\ m.required \subseteq Available(offer)

Power(m, offer) == m.required \cup (m.optional \cap Available(offer))

\* docker_kwargs: privileged says it all; the devices follow the grants else.
Arguments(power) == IF "privileged" \in power THEN Grants ELSE power

\* config_with_defaults: a locked field reads as its default whatever is kept.
Default(m) == IF m.standalone THEN "off" ELSE "on"

WithDefaults(m, cfg) ==
    [cfg EXCEPT !.public = IF ~m.standalone \/ @ = "unset" THEN Default(m) ELSE @]

(***************************************************************************)
(* install: reconciler._install_locked.                                    *)
(***************************************************************************)
Begin(m, cfg) ==
    job' = [step |-> "fetched", man |-> m, cfg |-> cfg, prev |-> None, was |-> None]

\* A failed upgrade installs what it read as the previous row; nothing follows
\* the failure of anything else.
Fails ==
    job' = IF job.prev = None THEN None
           ELSE [job EXCEPT !.step = "fetched", !.man = job.prev.man,
                            !.cfg = job.prev.cfg, !.prev = None]

\* A route's install carries the config on record, or none.
Install(m) ==
    /\ job = None
    /\ app = None
    /\ Operation
    /\ Begin(m, IF row # None THEN row.cfg ELSE NoConfig)
    /\ UNCHANGED <<host, version, row, snap, app, box, datadir, minted, held, faults>>

\* The update route writes the row it wants, then asks for a pass.
Update(m) ==
    /\ job = None
    /\ app # None
    /\ m # app.man
    /\ Operation
    /\ row' = [man |-> m, cfg |-> app.cfg]
    /\ job' = [step |-> "asked", man |-> m, cfg |-> app.cfg, prev |-> None, was |-> app.man]
    /\ UNCHANGED <<host, version, snap, app, box, datadir, minted, held, faults>>

\* The cloud registry's row names another release: no row is written first.
Desired(m) ==
    /\ job = None
    /\ app # None
    /\ m # app.man
    /\ Operation
    /\ job' = [step |-> "asked", man |-> m, cfg |-> app.cfg, prev |-> None, was |-> app.man]
    /\ UNCHANGED <<host, version, row, snap, app, box, datadir, minted, held, faults>>

\* The pass reads the mirror row as the one to put back, then unloads the old
\* release with its containers and forgets the row.
Replace ==
    /\ job # None
    /\ job.step = "asked"
    /\ job' = [job EXCEPT !.step = "fetched", !.prev = row]
    /\ snap' = app.cfg
    /\ app' = None
    /\ box' = None
    /\ row' = None
    /\ UNCHANGED <<host, version, datadir, minted, held, ops, faults>>

\* The pass of a restarted workspace installs what the row says.
Reconcile ==
    /\ job = None
    /\ app = None
    /\ row # None
    /\ Operation
    /\ Begin(row.man, row.cfg)
    /\ UNCHANGED <<host, version, row, snap, app, box, datadir, minted, held, faults>>

Refused ==
    /\ job # None
    /\ job.step = "fetched"
    /\ ~Validates(job.man)
    /\ Fails
    /\ UNCHANGED <<host, version, row, snap, app, box, datadir, minted, held, ops,
                   faults>>

Restored(cfg) == IF cfg = NoConfig /\ snap # None THEN snap ELSE cfg

Resolve ==
    /\ job # None
    /\ job.step = "fetched"
    /\ Validates(job.man)
    /\ LET cfg == Restored(job.cfg)
           mint == cfg.secret = 0
       IN /\ minted' = IF mint THEN minted + 1 ELSE minted
          /\ job' = [job EXCEPT !.step = "resolved",
                       !.cfg = IF mint THEN [cfg EXCEPT !.secret = minted + 1] ELSE cfg]
    /\ UNCHANGED <<host, version, row, snap, app, box, datadir, held, ops, faults>>

\* A leg is missing: the load raises before anything is registered.
LegMissing ==
    /\ job # None
    /\ job.step = "resolved"
    /\ ~Resolves(job.man, host)
    /\ Fails
    /\ UNCHANGED <<host, version, row, snap, app, box, datadir, minted, held, ops,
                   faults>>

\* The sidecars start before the app; a database makes its data directory with
\* the password it is given, once.
StartDatabase ==
    /\ job # None
    /\ job.step = "resolved"
    /\ Resolves(job.man, host)
    /\ datadir' = IF datadir = 0 THEN job.cfg.secret ELSE datadir
    /\ job' = [job EXCEPT !.step = "database"]
    /\ UNCHANGED <<host, version, row, snap, app, box, minted, held, ops, faults>>

StartApp ==
    /\ job # None
    /\ job.step = "database"
    /\ LET power == Power(job.man, host)
           cfg == WithDefaults(job.man, job.cfg)
       IN /\ box' = [man |-> job.man, cfg |-> cfg, power |-> Arguments(power),
                     drops |-> job.man.optional \ power, offered |-> host]
          /\ app' = [man |-> job.man, cfg |-> cfg]
    /\ job' = [job EXCEPT !.step = "running"]
    /\ UNCHANGED <<host, version, row, snap, datadir, minted, held, ops, faults>>

\* The image does not come, the name is taken: the load takes its containers
\* down again and the install ends with an error.
StartFails ==
    /\ job # None
    /\ job.step = "database"
    /\ Fault
    /\ box' = None
    /\ Fails
    /\ UNCHANGED <<host, version, row, snap, app, datadir, minted, held, ops>>

SaveRow ==
    /\ job # None
    /\ job.step = "running"
    /\ row' = [man |-> job.man, cfg |-> job.cfg]
    /\ job' = [job EXCEPT !.step = "rowed"]
    /\ UNCHANGED <<host, version, snap, app, box, datadir, minted, held, ops, faults>>

SaveSnapshot ==
    /\ job # None
    /\ job.step = "rowed"
    /\ snap' = job.cfg
    /\ held' = job.cfg.secret
    /\ job' = None
    /\ UNCHANGED <<host, version, row, app, box, datadir, minted, ops, faults>>

(***************************************************************************)
(* Settings, removal, restarts.                                            *)
(***************************************************************************)
\* save_app_config: merged, defaulted, kept in both places, and the container
\* is restarted with it.
SaveConfig(public) ==
    /\ job = None
    /\ app # None
    /\ Operation
    /\ LET cfg == WithDefaults(app.man, [app.cfg EXCEPT !.public = public])
       IN /\ app' = [app EXCEPT !.cfg = cfg]
          /\ snap' = cfg
          /\ row' = [row EXCEPT !.cfg = cfg]
          /\ box' = [box EXCEPT !.cfg = cfg]
    /\ UNCHANGED <<host, version, datadir, job, minted, held, faults>>

Uninstall ==
    /\ job = None
    /\ app # None
    /\ Operation
    /\ snap' = app.cfg
    /\ app' = None
    /\ box' = None
    /\ row' = None
    /\ UNCHANGED <<host, version, datadir, job, minted, held, faults>>

\* The workspace restarts, perhaps bootstrapped with other grants or another
\* version: the app's container outlives it, a restart policy keeps it up.
Restart ==
    /\ IF job = None THEN Operation /\ UNCHANGED faults
       ELSE Fault /\ UNCHANGED ops
    /\ host' \in Offers
    /\ version' \in Versions
    /\ app' = None
    /\ job' = None
    /\ UNCHANGED <<row, snap, box, datadir, minted, held>>

Done == job = None /\ UNCHANGED settingVars

Next ==
    \/ \E m \in Manifests : Install(m) \/ Update(m) \/ Desired(m)
    \/ Replace \/ Reconcile \/ Refused \/ Resolve \/ LegMissing
    \/ StartDatabase \/ StartApp \/ StartFails \/ SaveRow \/ SaveSnapshot
    \/ \E p \in {"on", "off"} : SaveConfig(p)
    \/ Uninstall \/ Restart \/ Done

Spec == Init /\ [][Next]_settingVars

(***************************************************************************)
(* Properties                                                              *)
(***************************************************************************)
\* The three legs: what a container was started with, its host had opted into
\* when it was started, its release asked for and was permitted, and nothing
\* it cannot do without is missing; privileged is never the sum of the rest.
PowerIsEarned ==
    box # None =>
        /\ box.power \subseteq Available(box.offered)
        /\ box.man.required \subseteq box.power
        /\ "privileged" \notin box.man.required \cup box.man.optional =>
                box.power \subseteq (box.man.required \cup box.man.optional)
                                        \cap Held(box.man)

\* No release without a subdomain of its own runs with "public" off, whatever
\* an earlier release or a stray save left behind.
LockHolds == box # None /\ ~box.man.standalone => box.cfg.public = "on"

\* Once an install finished, its secret stays the app's: no update, reinstall,
\* restart or reconcile pass mints another, through failed starts and crashes
\* in the middle of any of them.
SecretStays ==
    held # 0 => (app # None => app.cfg.secret = held)

\* The reason for it (generated_config): the password is never rotated out from
\* under an existing data directory.
DatabaseOpens == app # None => app.cfg.secret = datadir

\* "Put the old one back": what a failed upgrade falls back to is the release
\* it replaced.
RollbackIsOld ==
    (job # None /\ job.step # "asked" /\ job.was # None /\ job.prev = None)
        => job.man = job.was
=============================================================================

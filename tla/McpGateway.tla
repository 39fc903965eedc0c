------------------------------ MODULE McpGateway ------------------------------
(***************************************************************************)
(* What the MCP gateway serves (src/apps/reconciler.py, routes.py and      *)
(* runtime.py, src/apps/mcp_template.py, gateway_profiles.py).             *)
(*                                                                         *)
(* An app's tools reach the agents through the gateway, a container that   *)
(* reads the files under the apps root when it boots and when somebody     *)
(* posts /reload.  The workspace posts after everything that may have      *)
(* changed a file: at once, or once at the end of a reconcile pass (the    *)
(* pending flag of the worker's Reconciler); a boot posts once more, and a *)
(* watchdog task of the leading worker posts on its cadence.  A post is    *)
(* tried a few times and then given up, and a worker that has not loaded   *)
(* the gateway app does not post at all.                                   *)
(*                                                                         *)
(* A surface stands for the contents of mcp.json and gateway-profiles.json *)
(* of one app: 0 is no file.  Backoff is left out: a tick comes, late.     *)
(***************************************************************************)
EXTENDS Naturals, FiniteSets

CONSTANTS
    Workers,      \* worker processes
    Leader,       \* the worker that leads the watchdog (WatchdogLease)
    Apps,         \* apps with tools
    Sideloaded,   \* those whose package is a checkout outside the apps root
    Gateway,      \* the gateway app
    None,         \* no worker
    Tries,        \* attempts of a post
    BootTries,    \* attempts of the posts around a boot
    MaxOps,       \* bound: requests, edits of a checkout
    MaxFaults     \* bound: restarts, failed loads, cut passes, lost posts

Surfaces == 0..2
Posters == {"request", "save", "pass", "boot", "starter", "tick"}

VARIABLES
    there,     \* apps with a mirror row
    wants,     \* app -> the surface its manifest and config amount to
    package,   \* app -> the surface of the files in its package directory
    copy,      \* sideloaded app -> the surface copied under the apps root
    loaded,    \* worker -> apps it has loaded, the gateway among them
    boot,      \* worker -> "provisions", "attaches", "up"
    pass,      \* the worker whose reconcile pass is under way, or None
    pending,   \* worker -> _pending_gateway_reload: "unarmed", "no", "yes"
    posts,     \* worker -> poster -> attempts left of its post, 0: none
    rescan,    \* worker -> the rescan task is registered
    gw,        \* the gateway's container: "gone", "boots", "serves"
    served,    \* app -> the surface the gateway serves
    owed,      \* a post was skipped, cut or given up since the last answer
    ops, faults

gatewayVars == <<there, wants, package, copy, loaded, boot, pass, pending,
                 posts, rescan, gw, served, owed, ops, faults>>
files == <<there, wants, package, copy>>
bounds == <<ops, faults>>

NoPosts == [p \in Posters |-> 0]

TypeOK ==
    /\ there \subseteq Apps
    /\ wants \in [Apps -> Surfaces]
    /\ package \in [Apps -> Surfaces]
    /\ copy \in [Sideloaded -> Surfaces]
    /\ loaded \in [Workers -> SUBSET (Apps \cup {Gateway})]
    /\ boot \in [Workers -> {"provisions", "attaches", "up"}]
    /\ pass \in Workers \cup {None}
    /\ pending \in [Workers -> {"unarmed", "no", "yes"}]
    /\ posts \in [Workers -> [Posters -> 0..BootTries]]
    /\ rescan \in [Workers -> BOOLEAN]
    /\ gw \in {"gone", "boots", "serves"}
    /\ served \in [Apps -> Surfaces]
    /\ owed \in BOOLEAN
    /\ ops \in 0..MaxOps
    /\ faults \in 0..MaxFaults
    /\ \A w \in Workers : /\ pending[w] # "unarmed" => pass = w
                          /\ posts[w]["pass"] > 0 => pass = w

Init ==
    /\ there = {}
    /\ wants = [a \in Apps |-> 1]
    /\ package = [a \in Apps |-> 0]
    /\ copy = [a \in Sideloaded |-> 0]
    /\ loaded = [w \in Workers |-> {}]
    /\ boot \in {b \in [Workers -> {"provisions", "attaches"}] :
                   \E w \in Workers : \A v \in Workers :
                      (b[v] = "provisions") <=> (v = w)}
    /\ pass = None
    /\ pending = [w \in Workers |-> "unarmed"]
    /\ posts = [w \in Workers |-> NoPosts]
    /\ rescan = [w \in Workers |-> FALSE]
    /\ gw = "gone"
    /\ served = [a \in Apps |-> 0]
    /\ owed = FALSE
    /\ ops = 0
    /\ faults = 0

Operation == ops < MaxOps /\ ops' = ops + 1
Fault == faults < MaxFaults /\ faults' = faults + 1

\* The files the gateway can see: its container mounts the apps root only.
Root == [a \in Apps |-> IF a \in Sideloaded THEN copy[a] ELSE package[a]]

\* A surface there is: the manifest's block or a file in the package.
Touches(surface) == surface # 0

\* Activation, and a save, write what the app wants; none, and the file goes.
Renders(a, surface) == package' = [package EXCEPT ![a] = surface]

\* A sideloaded package is out of the gateway's sight: its files are copied.
Copies(a, surface) ==
    copy' = IF a \in Sideloaded /\ Touches(surface)
            THEN [copy EXCEPT ![a] = surface] ELSE copy

\* The provisioning lock: a pass, or a request with its post.
Busy == \/ pass # None
        \/ \E w \in Workers : posts[w]["request"] > 0

(***************************************************************************)
(* Posts.                                                                  *)
(***************************************************************************)
Post(w, poster, tries) ==
    IF Gateway \in loaded[w]
    THEN posts' = [posts EXCEPT ![w][poster] = tries] /\ UNCHANGED owed
    ELSE owed' = TRUE /\ UNCHANGED posts

\* Inside a pass of this worker a flag, else at once.
Trigger(w, poster) ==
    IF pending[w] # "unarmed"
    THEN pending' = [pending EXCEPT ![w] = "yes"] /\ UNCHANGED <<posts, owed>>
    ELSE Post(w, poster, Tries) /\ UNCHANGED pending

TriggerIf(touched, w, poster) ==
    IF touched THEN Trigger(w, poster) ELSE UNCHANGED <<pending, posts, owed>>

\* The task the starter waits for, once its post came to an end.
Registers(w, poster) ==
    rescan' = IF poster = "starter" THEN [rescan EXCEPT ![w] = TRUE] ELSE rescan

Answered(w, poster) ==
    /\ posts[w][poster] > 0
    /\ gw = "serves"
    /\ served' = Root
    /\ owed' = FALSE
    /\ posts' = [posts EXCEPT ![w][poster] = 0]
    /\ Registers(w, poster)
    /\ UNCHANGED <<files, loaded, boot, pass, pending, gw, bounds>>

\* Nobody listens yet, or the answer is an error; the last try gives up.
AttemptFails(w, poster) ==
    /\ posts[w][poster] > 0
    /\ IF gw = "serves" THEN Fault ELSE UNCHANGED faults
    /\ posts' = [posts EXCEPT ![w][poster] = @ - 1]
    /\ IF posts[w][poster] = 1
       THEN owed' = TRUE /\ Registers(w, poster)
       ELSE UNCHANGED <<owed, rescan>>
    /\ UNCHANGED <<files, loaded, boot, pass, pending, gw, served, ops>>

Tick(w) ==
    /\ w = Leader
    /\ rescan[w]
    /\ Gateway \in loaded[w]
    /\ posts[w]["tick"] = 0
    /\ served # Root \/ gw # "serves"      \* else the post changes nothing
    /\ Post(w, "tick", Tries)
    /\ UNCHANGED <<files, loaded, boot, pass, pending, rescan, gw, served, bounds>>

(***************************************************************************)
(* The gateway's container.                                                *)
(***************************************************************************)
GatewayUp ==
    /\ gw = "boots"
    /\ gw' = "serves"
    /\ served' = Root
    /\ owed' = FALSE
    /\ UNCHANGED <<files, loaded, boot, pass, pending, posts, rescan, bounds>>

GatewayDies ==
    /\ gw = "serves"
    /\ Fault
    /\ gw' = "boots"
    /\ UNCHANGED <<files, loaded, boot, pass, pending, posts, rescan, served, owed,
                   ops>>

(***************************************************************************)
(* A reconcile pass: at boot, and whenever the leader's convergence task   *)
(* finds something missing.                                                *)
(***************************************************************************)
Missing(w) == (there \cup {Gateway}) \ loaded[w]

BeginPass(w) ==
    /\ ~Busy
    /\ \/ boot[w] = "provisions"
       \/ boot[w] = "up" /\ w = Leader /\ Missing(w) # {}
    /\ pass' = w
    /\ pending' = [pending EXCEPT ![w] = "no"]
    /\ UNCHANGED <<files, loaded, boot, posts, rescan, gw, served, owed, bounds>>

\* The gateway has the priority lane: it comes up before the others load.
LoadGateway(w) ==
    /\ pass = w
    /\ pending[w] # "unarmed"
    /\ Gateway \notin loaded[w]
    /\ loaded' = [loaded EXCEPT ![w] = @ \cup {Gateway}]
    /\ gw' = IF gw = "gone" THEN "boots" ELSE gw
    /\ UNCHANGED <<files, boot, pass, pending, posts, rescan, served, owed, bounds>>

PassInstalls(w, a) ==
    /\ pass = w
    /\ pending[w] # "unarmed"
    /\ Gateway \in loaded[w]
    /\ a \in Missing(w)
    /\ loaded' = [loaded EXCEPT ![w] = @ \cup {a}]
    /\ Renders(a, wants[a])
    /\ Copies(a, wants[a])
    /\ TriggerIf(Touches(wants[a]), w, "pass")
    /\ UNCHANGED <<there, wants, boot, pass, rescan, gw, served, bounds>>

\* A boot's waiter: the gateway is loaded, so see whether it answers.
StarterPosts(w) ==
    /\ pass = w
    /\ boot[w] = "provisions"
    /\ Gateway \in loaded[w]
    /\ ~rescan[w]
    /\ posts[w]["starter"] = 0
    /\ Post(w, "starter", BootTries)
    /\ UNCHANGED <<files, loaded, boot, pass, pending, rescan, gw, served, bounds>>

\* The flag is disarmed before its post, and an error flushes it as the end
\* does; the pass keeps the lock until the post came to an end.
Flush(w) ==
    /\ pass = w
    /\ pending[w] # "unarmed"
    /\ IF Missing(w) = {} THEN UNCHANGED faults ELSE Fault
    /\ pending' = [pending EXCEPT ![w] = "unarmed"]
    /\ IF pending[w] = "yes" THEN Post(w, "pass", Tries)
       ELSE UNCHANGED <<posts, owed>>
    /\ UNCHANGED <<files, loaded, boot, pass, rescan, gw, served, ops>>

\* After a pass, and whatever it came to: a boot ends its waiter, posts on its
\* own and registers the task.
Returns(w, before) ==
    /\ pass' = None
    /\ IF boot[w] = "provisions"
       THEN /\ boot' = [boot EXCEPT ![w] = "up"]
            /\ rescan' = [rescan EXCEPT ![w] = TRUE]
            /\ posts' = [posts EXCEPT ![w] =
                 [before EXCEPT !["starter"] = 0,
                                !["boot"] = IF Gateway \in loaded[w]
                                            THEN BootTries ELSE 0]]
       ELSE posts' = [posts EXCEPT ![w] = before] /\ UNCHANGED <<boot, rescan>>
    /\ UNCHANGED <<files, loaded, gw, served, ops>>

EndPass(w) ==
    /\ pass = w
    /\ pending[w] = "unarmed"
    /\ posts[w]["pass"] = 0
    /\ Returns(w, posts[w])
    /\ owed' = (owed \/ Gateway \notin loaded[w])
    /\ UNCHANGED <<pending, faults>>

\* The flag disarmed only where the pass comes to its end.
CutPassStaysArmed(w) ==
    /\ pass = w
    /\ Fault
    /\ Returns(w, [posts[w] EXCEPT !["pass"] = 0])
    /\ owed' = (owed \/ pending[w] = "yes" \/ posts[w]["pass"] > 0)
    /\ UNCHANGED pending

\* A cancelled one (the deadline of a boot) disarms and sends nothing.
CutPass(w) ==
    /\ pass = w
    /\ Fault
    /\ Returns(w, [posts[w] EXCEPT !["pass"] = 0])
    /\ owed' = (owed \/ pending[w] = "yes" \/ posts[w]["pass"] > 0)
    /\ pending' = [pending EXCEPT ![w] = "unarmed"]

\* The other workers' boot, and their answer to apps:changed: nothing written.
Attach(w) ==
    /\ boot[w] \in {"attaches", "up"}
    /\ pass # w
    /\ loaded[w] # there \cup {Gateway}
    /\ loaded' = [loaded EXCEPT ![w] = there \cup {Gateway}]
    /\ boot' = [boot EXCEPT ![w] = "up"]
    /\ rescan' = [rescan EXCEPT ![w] = TRUE]
    /\ UNCHANGED <<files, pass, pending, posts, gw, served, owed, bounds>>

(***************************************************************************)
(* Requests.                                                               *)
(***************************************************************************)
Install(w, a) ==
    /\ ~Busy
    /\ boot[w] = "up"
    /\ a \notin there
    /\ a \notin loaded[w]
    /\ Operation
    /\ there' = there \cup {a}
    /\ loaded' = [loaded EXCEPT ![w] = @ \cup {a}]
    /\ Renders(a, wants[a])
    /\ Copies(a, wants[a])
    /\ TriggerIf(Touches(wants[a]), w, "request")
    /\ UNCHANGED <<wants, boot, pass, rescan, gw, served, faults>>

\* What the app had is asked before anything goes, of its package: a copy that
\* outlived its original goes without a post.  The checkout stays.
Uninstall(w, a) ==
    /\ ~Busy
    /\ boot[w] = "up"
    /\ a \in there \cap loaded[w]
    /\ Operation
    /\ there' = there \ {a}
    /\ loaded' = [loaded EXCEPT ![w] = @ \ {a}]
    /\ IF a \in Sideloaded
       THEN copy' = [copy EXCEPT ![a] = 0] /\ UNCHANGED package
       ELSE Renders(a, 0) /\ UNCHANGED copy
    /\ IF Touches(package[a]) THEN Trigger(w, "request")
       ELSE owed' = (owed \/ Touches(Root[a])) /\ UNCHANGED <<pending, posts>>
    /\ UNCHANGED <<wants, boot, pass, rescan, gw, served, faults>>

\* A save holds no lock: it may come in the middle of a pass.
Save(w, a, surface) ==
    /\ boot[w] # "attaches"
    /\ a \in there \cap loaded[w]
    /\ posts[w]["save"] = 0
    /\ surface \notin {0, wants[a]}
    /\ wants[a] # 0
    /\ Operation
    /\ wants' = [wants EXCEPT ![a] = surface]
    /\ Renders(a, surface)
    /\ Trigger(w, "save")
    /\ UNCHANGED <<there, copy, loaded, boot, pass, rescan, gw, served, faults>>

\* A checkout is edited: it declares no tools any more.
Edit(a) ==
    /\ a \in Sideloaded
    /\ wants[a] # 0
    /\ Operation
    /\ wants' = [wants EXCEPT ![a] = 0]
    /\ UNCHANGED <<there, package, copy, loaded, boot, pass, pending, posts, rescan,
                   gw, served, owed, faults>>

\* The workspace container restarts; the gateway's own goes on or restarts too.
Restart ==
    /\ Fault
    /\ loaded' = [w \in Workers |-> {}]
    /\ boot' \in {b \in [Workers -> {"provisions", "attaches"}] :
                    \E w \in Workers : \A v \in Workers :
                       (b[v] = "provisions") <=> (v = w)}
    /\ pass' = None
    /\ pending' = [w \in Workers |-> "unarmed"]
    /\ posts' = [w \in Workers |-> NoPosts]
    /\ rescan' = [w \in Workers |-> FALSE]
    /\ gw' \in {gw, IF gw = "gone" THEN "gone" ELSE "boots"}
    /\ owed' = TRUE
    /\ UNCHANGED <<files, served, ops>>

Settled == \A w \in Workers : boot[w] = "up" /\ posts[w] = NoPosts

Rests ==   \* every bound is used up and nothing is under way
    /\ Settled
    /\ pass = None
    /\ UNCHANGED gatewayVars

Next ==
    \/ \E w \in Workers :
        \/ BeginPass(w) \/ LoadGateway(w) \/ StarterPosts(w) \/ Tick(w)
        \/ Flush(w) \/ EndPass(w) \/ CutPass(w) \/ Attach(w)
        \/ \E p \in Posters : Answered(w, p) \/ AttemptFails(w, p)
        \/ \E a \in Apps : \/ PassInstalls(w, a) \/ Install(w, a) \/ Uninstall(w, a)
                           \/ \E s \in Surfaces : Save(w, a, s)
    \/ \E a \in Apps : Edit(a)
    \/ GatewayUp \/ GatewayDies \/ Restart
    \/ Rests

Spec == Init /\ [][Next]_gatewayVars

(***************************************************************************)
(* Properties                                                              *)
(***************************************************************************)
Posting == \E w \in Workers : \E p \in Posters : posts[w][p] > 0

\* A gateway that is up serves what stands under the apps root, unless a post
\* is on its way, a pass has yet to flush, or one was skipped, cut or given up:
\* no install, removal or save is swallowed by the coalescing flag.
ServedWhenQuiet ==
    (gw = "serves" /\ pass = None /\ ~Posting /\ ~owed) => served = Root

\* And what was lost on the way is made good: whenever a gateway that is up serves
\* something else and all is quiet, the leader's task can post, or its pass can
\* load the gateway app that the post is missing.
LossIsMadeGood ==
    (gw = "serves" /\ served # Root /\ pass = None /\ Settled)
        => ENABLED (Tick(Leader) \/ BeginPass(Leader))

\* What reconciler.py and gateway_profiles.py promise of a sideloaded app does
\* not hold: a save rewrites the files of the checkout and copies none, and a
\* surface the app dropped leaves its last copy under the apps root.
SideloadedAppsSeen ==
    \A a \in Sideloaded, w \in Workers : (a \in loaded[w] /\ pass = None) => copy[a] = package[a]
=============================================================================

------------------------- MODULE ConfigPropagation -------------------------
(* The settings of one app on their way through the workers: the memory of   *)
(* each worker, the shared mirror row, the snapshot file that survives an    *)
(* uninstall, and the two channels that tell the others of a save, the       *)
(* apps:changed broadcast and the generation token every request under       *)
(* /api/apps/ looks at first (apps/config_store.py, api/app.py,              *)
(* reconciler.py, routes.py).                                                *)
(*                                                                           *)
(* A setting's value is the number of the save that wrote it, 0 before any.  *)
(* Token and mtime are one number: every bump is taken to get an mtime of    *)
(* its own.  Removal of single settings is left out.                         *)
EXTENDS Naturals, FiniteSets

CONSTANTS
  Workers, Requests, Keys,
  None,
  MaxSaves,      \* bound on saves
  MaxFaults      \* bound on failing reads, lost stamps and broadcasts, restarts

Gone == [k \in {} |-> 0]          \* no row, no file, not loaded
Config == [Keys -> 0..MaxSaves]
Defaults == [k \in Keys |-> 0]
Changes == {"save", "install", "uninstall"}

VARIABLES
  mem,     \* mem[w]: the config of the app loaded on w, or Gone
  mirror,  \* the AppInstall row
  snap,    \* app-config/<app>.json
  token,   \* app-config/.generation, 0 when there is none
  seen,    \* seen[w]: the token w has recorded
  heard,   \* the workers with an apps:changed to handle
  lock,    \* lock[w]: who is in w's in_process_exclusive section
  gate,    \* gate[w]: the request that holds w's config_generation_lock
  rows,    \* rows[w]: the mirror row as read inside that section
  req,     \* req[r]: a request, where it is and what it carries
  saves, faults,  \* counters
  stamped, \* history: the mirror row when the token was last bumped
  acked,   \* history: the last acknowledged save of each setting
  slips    \* history: what went wrong on the way ("unfloored", "unstamped", "unheard", "cut",
           \* "rowless": there was no row to refresh a loaded app from), "removed": the app
           \* was uninstalled in the meantime, and "overlapped": a change (save, install,
           \* uninstall) came while another was in flight
configVars == <<mem, mirror, snap, token, seen, heard, lock, gate, rows, req,
                saves, faults, stamped, acked, slips>>

shared == <<mirror, snap, token>>
history == <<stamped, acked, slips>>

Idle == [phase |-> "new", at |-> None, kind |-> "read", key |-> None,
         carries |-> Gone, tok |-> 0, since |-> Defaults]

Init ==
  /\ mem = [w \in Workers |-> Defaults] /\ mirror = Defaults /\ snap = Gone
  /\ token = 0 /\ seen = [w \in Workers |-> 0]
  /\ heard = {}
  /\ lock = [w \in Workers |-> None] /\ gate = [w \in Workers |-> None]
  /\ rows = [w \in Workers |-> Gone]
  /\ req = [r \in Requests |-> Idle]
  /\ saves = 0 /\ faults = 0
  /\ stamped = Defaults /\ acked = Defaults /\ slips = {}

Fault == faults < MaxFaults /\ faults' = faults + 1
To(r, phase) == req' = [req EXCEPT ![r].phase = phase]
Over == [Idle EXCEPT !.phase = "done"]
Ends(r) == req' = [req EXCEPT ![r] = Over]
InFlight(r) == req[r].phase \notin {"new", "done"}
Loaded(w) == mem[w] # Gone

\* An empty config is never written over a snapshot.
Snapshot(c) == snap' = IF c \in {Gone, Defaults} THEN snap ELSE c

-----------------------------------------------------------------------------
(* The middleware in front of every request.                                 *)

\* One stat of the token file decides whether there is anything to look at.
Arrive(r, w, kind, k) ==
  /\ req[r].phase = "new"
  /\ req' = [req EXCEPT ![r] = [Idle EXCEPT
       !.phase = IF token \in {0, seen[w]} THEN "go" ELSE "gate",
       !.at = w, !.kind = kind, !.key = k, !.since = stamped]]
  /\ slips' = IF kind \in Changes /\ \E s \in Requests : InFlight(s) /\ req[s].kind # "read"
                THEN slips \cup {"overlapped"} ELSE slips
  /\ UNCHANGED <<mem, shared, seen, heard, lock, gate, rows, saves, faults, stamped, acked>>

\* The re-check under the lock: a burst of requests refreshes once.
Gate(r) ==
  LET w == req[r].at IN
  /\ req[r].phase = "gate" /\ gate[w] = None
  /\ IF token = seen[w]
       THEN To(r, "go") /\ UNCHANGED gate
       ELSE /\ req' = [req EXCEPT ![r].phase = "floor", ![r].tok = token]
            /\ gate' = [gate EXCEPT ![w] = r]
  /\ UNCHANGED <<mem, shared, seen, heard, lock, rows, saves, faults, history>>

BeginRefresh(r) ==
  LET w == req[r].at IN
  /\ req[r].phase = "floor" /\ lock[w] = None
  /\ To(r, "refresh")
  /\ lock' = [lock EXCEPT ![w] = r]
  /\ rows' = [rows EXCEPT ![w] = mirror]
  /\ UNCHANGED <<mem, shared, seen, heard, gate, saves, faults, history>>

LeaveFloor(r) ==
  LET w == req[r].at IN
  /\ gate' = [gate EXCEPT ![w] = None]
  /\ lock' = [lock EXCEPT ![w] = None]
  /\ rows' = [rows EXCEPT ![w] = Gone]

\* Config only: nothing is attached or detached here.  The token is recorded
\* after the refresh, and it is the one read before it.
Refresh(r) ==
  LET w == req[r].at IN
  /\ req[r].phase = "refresh"
  /\ mem' = [mem EXCEPT ![w] = IF @ # Gone /\ rows[w] # Gone THEN rows[w] ELSE @]
  /\ seen' = [seen EXCEPT ![w] = req[r].tok]
  /\ LeaveFloor(r) /\ To(r, "go")
  /\ slips' = IF Loaded(w) /\ rows[w] = Gone THEN slips \cup {"rowless"} ELSE slips
  /\ UNCHANGED <<shared, heard, saves, faults, stamped, acked>>

\* The floor failed: the request is served without it, the next one retries.
RefreshFailsRecorded(r) ==
  LET w == req[r].at IN
  /\ req[r].phase = "refresh" /\ Fault
  /\ LeaveFloor(r)
  /\ slips' = slips \cup {"unfloored"}
  /\ seen' = [seen EXCEPT ![w] = req[r].tok]
  /\ req' = [req EXCEPT ![r].phase = "go", ![r].since = Defaults]
  /\ UNCHANGED <<mem, shared, heard, saves, stamped, acked>>

RefreshFails(r) ==
  /\ req[r].phase = "refresh" /\ Fault
  /\ LeaveFloor(r)
  /\ slips' = slips \cup {"unfloored"}
  /\ req' = [req EXCEPT ![r].phase = "go", ![r].since = Defaults]
  /\ UNCHANGED <<mem, shared, seen, heard, saves, stamped, acked>>

-----------------------------------------------------------------------------
(* The broadcast: converge_in_process.                                       *)

Hear(w) ==
  /\ w \in heard /\ lock[w] = None
  /\ heard' = heard \ {w}
  /\ lock' = [lock EXCEPT ![w] = w]
  /\ rows' = [rows EXCEPT ![w] = mirror]
  /\ UNCHANGED <<mem, shared, seen, gate, req, saves, faults, history>>

Converge(w) ==
  /\ lock[w] = w
  /\ mem' = [mem EXCEPT ![w] = rows[w]]
  /\ lock' = [lock EXCEPT ![w] = None]
  /\ rows' = [rows EXCEPT ![w] = Gone]
  /\ UNCHANGED <<shared, seen, heard, gate, req, saves, faults, history>>

-----------------------------------------------------------------------------
(* The requests themselves.                                                  *)

Serve(r) ==
  /\ req[r].phase = "go"
  /\ \/ req[r].kind = "read"
     \/ req[r].kind = "save" /\ ~Loaded(req[r].at)
     \/ req[r].kind = "install" /\ Loaded(req[r].at)
     \/ req[r].kind = "uninstall" /\ ~Loaded(req[r].at) /\ mirror = Gone
  /\ Ends(r)
  /\ UNCHANGED <<mem, shared, seen, heard, lock, gate, rows, saves, faults, history>>

\* The settings the request names are folded over what this worker has in
\* memory; memory and snapshot change before the first await.
SaveLocal(r) ==
  LET w == req[r].at
      merged == [mem[w] EXCEPT ![req[r].key] = saves + 1] IN
  /\ req[r].phase = "go" /\ req[r].kind = "save" /\ Loaded(w) /\ saves < MaxSaves
  /\ saves' = saves + 1
  /\ mem' = [mem EXCEPT ![w] = merged]
  /\ Snapshot(merged)
  /\ req' = [req EXCEPT ![r].phase = "mirror", ![r].carries = merged]
  /\ UNCHANGED <<mirror, token, seen, heard, lock, gate, rows, faults, history>>

\* The row takes the whole config, if it is still there.
SaveMirror(r) ==
  /\ req[r].phase = "mirror"
  /\ mirror' = IF mirror = Gone THEN Gone ELSE req[r].carries
  /\ To(r, "stamp")
  /\ UNCHANGED <<mem, snap, token, seen, heard, lock, gate, rows, saves, faults, history>>

\* Hooks and gateway reload come between; the token is bumped when all that is
\* shared is final.
Stamp(r) ==
  /\ req[r].phase = "stamp"
  /\ token' = token + 1
  /\ stamped' = IF mirror = Gone THEN stamped ELSE mirror
  /\ To(r, "announce")
  /\ UNCHANGED <<mem, mirror, snap, seen, heard, lock, gate, rows, saves, faults, acked, slips>>

StampFails(r) ==
  /\ req[r].phase = "stamp" /\ Fault
  /\ slips' = slips \cup {"unstamped"}
  /\ To(r, "announce")
  /\ UNCHANGED <<mem, shared, seen, heard, lock, gate, rows, saves, stamped, acked>>

\* The broadcast reaches everybody, or (Redis away, relay down) nobody else.
Announce(r) ==
  /\ req[r].phase = "announce"
  /\ \/ heard' = Workers /\ UNCHANGED <<faults, slips>>
     \/ Fault /\ slips' = slips \cup {"unheard"} /\ UNCHANGED heard
  /\ acked' = [acked EXCEPT ![req[r].key] = req[r].carries[req[r].key]]
  /\ Ends(r)
  /\ UNCHANGED <<mem, shared, seen, lock, gate, rows, saves, stamped>>

Uninstall(r) ==
  LET w == req[r].at IN
  /\ req[r].phase = "go" /\ req[r].kind = "uninstall" /\ lock[w] = None
  /\ Loaded(w) \/ mirror # Gone
  /\ Snapshot(IF Loaded(w) THEN mem[w] ELSE mirror)
  /\ mem' = [mem EXCEPT ![w] = Gone] /\ mirror' = Gone
  /\ heard' = Workers
  /\ Ends(r)
  /\ slips' = slips \cup {"removed"}
  /\ UNCHANGED <<token, seen, lock, gate, rows, saves, faults, stamped, acked>>

\* An install that carries no config takes the row's, or else the snapshot.
ConfigForInstall ==
  CASE mirror \notin {Gone, Defaults} -> mirror
    [] mirror \in {Gone, Defaults} /\ snap # Gone -> snap
    [] OTHER -> Defaults

Install(r) ==
  LET w == req[r].at IN
  /\ req[r].phase = "go" /\ req[r].kind = "install" /\ lock[w] = None /\ ~Loaded(w)
  /\ mem' = [mem EXCEPT ![w] = ConfigForInstall] /\ mirror' = ConfigForInstall
  /\ Snapshot(ConfigForInstall)
  /\ heard' = Workers
  /\ Ends(r)
  /\ UNCHANGED <<token, seen, lock, gate, rows, saves, faults, history>>

\* A worker dies and another takes its place: it attaches from the mirror and
\* has recorded no token.
Restart(w) ==
  /\ Fault
  /\ mem' = [mem EXCEPT ![w] = Gone]
  /\ seen' = [seen EXCEPT ![w] = 0]
  /\ heard' = heard \ {w}
  /\ gate' = [gate EXCEPT ![w] = None]
  /\ lock' = [lock EXCEPT ![w] = w]
  /\ rows' = [rows EXCEPT ![w] = mirror]
  /\ req' = [r \in Requests |-> IF req[r].at = w THEN Over ELSE req[r]]
  /\ slips' = IF \E r \in Requests : req[r].at = w /\ req[r].phase \in {"mirror", "stamp", "announce"}
                THEN slips \cup {"cut"} ELSE slips
  /\ UNCHANGED <<shared, saves, stamped, acked>>

Next ==
  \/ \E r \in Requests :
       \/ \E w \in Workers, kind \in {"read"} \cup Changes, k \in Keys :
            Arrive(r, w, kind, k)
       \/ Gate(r) \/ BeginRefresh(r) \/ Refresh(r) \/ RefreshFails(r)
       \/ Serve(r) \/ SaveLocal(r) \/ SaveMirror(r) \/ Stamp(r) \/ StampFails(r)
       \/ Announce(r) \/ Uninstall(r) \/ Install(r)
  \/ \E w \in Workers : Hear(w) \/ Converge(w) \/ Restart(w)

Spec == Init /\ [][Next]_configVars

-----------------------------------------------------------------------------
TypeOK ==
  /\ mem \in [Workers -> Config \cup {Gone}] /\ rows \in [Workers -> Config \cup {Gone}]
  /\ {mirror, snap, stamped} \subseteq Config \cup {Gone}
  /\ token \in 0..MaxSaves /\ seen \in [Workers -> 0..token]
  /\ heard \subseteq Workers
  /\ lock \in [Workers -> Workers \cup Requests \cup {None}]
  /\ gate \in [Workers -> Requests \cup {None}]

\* A request that has passed the middleware is served with the settings of the last save
\* that had bumped the token before the request came, or of a later one, Redis or no Redis.
\* (A row is as new as the newest setting in it.  Once the app was uninstalled, a worker
\* that did not hear of it records the token without a row to read, and misses what a
\* reinstall brings back.)
AsNewAs(c, d) == \A k \in Keys : \E j \in Keys : c[j] >= d[k]

FloorHolds ==
  "removed" \notin slips => \A r \in Requests : req[r].phase = "go" /\ Loaded(req[r].at) =>
    AsNewAs(mem[req[r].at], req[r].since)

\* A setting once acknowledged stays until somebody sets it again: in the row
\* while the app is installed, and in what an install would start from.
SettingsKept ==
  slips \cap {"unfloored", "unstamped", "cut", "rowless"} = {} =>
    \A k \in Keys : ConfigForInstall[k] >= acked[k]

\* With nothing under way and no message lost, every worker has the mirror's row.
QuietMeansSame ==
  /\ slips \cap {"unheard", "cut"} = {} /\ heard = {}
  /\ \A r \in Requests : ~InFlight(r)
  /\ \A w \in Workers : lock[w] = None
  => \A w \in Workers : mem[w] = mirror

\* _merge_config: a partial save keeps the settings it did not mention, those
\* another worker saved a moment ago included.
PartialSavesKeepKeys ==
  \A k \in Keys : acked[k] > 0 => ConfigForInstall[k] > 0
=============================================================================

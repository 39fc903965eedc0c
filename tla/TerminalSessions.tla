-------------------------- MODULE TerminalSessions --------------------------
(***************************************************************************)
(* Who owns a terminal, and who knows it (src/api/terminal_manager.py).    *)
(*                                                                         *)
(* A terminal is a shell forked by one worker, the owner, and served by    *)
(* all of them.  What they share is three Redis keys per session id: the   *)
(* meta hash (pid and stream generation), the owner key (a token with a    *)
(* 30 s TTL that the owner's heartbeat renews every 10 s) and the creation *)
(* claim; and the pid namespace, in which anybody can kill a shell.  A     *)
(* restart keeps the id and makes a new incarnation of it.                 *)
(*                                                                         *)
(* The module follows one id: nothing relates the keys of two of them.  An *)
(* incarnation is a number, which stands for its shell's pid, its stream   *)
(* generation and its owner token, all new at every fork.  An action is    *)
(* one Redis command with the local work beside it.  A worker does one     *)
(* create, restart, remove or cold get of the id at a time (_lock_for); a  *)
(* session list, the heartbeat and the shutdown take no lock.              *)
(*                                                                         *)
(* Abstractions.  Streams are only "what the shell wrote is still there"   *)
(* and "the EOF frame is there"; their deletion goes with the command next *)
(* to it, since a generation is nobody else's.  Redis answers, but for the *)
(* owner scan, whose failure the code tells apart.  A killed shell is gone *)
(* at once.                                                                *)
(***************************************************************************)
EXTENDS Naturals, FiniteSets

CONSTANTS
  Workers,
  MaxGens,      \* bound: incarnations of the id
  MaxRemoves,   \* bound: removals asked for
  MaxLapses,    \* bound: expiries of the key of a worker that has a heartbeat
  MaxStops,     \* bound: worker deaths and shutdowns
  MaxLists      \* bound: session lists under way at a time

ASSUME TerminalAssumption ==
  {MaxGens, MaxRemoves, MaxLapses, MaxStops, MaxLists} \subseteq Nat

Gens == 1 .. MaxGens
Blank == MaxGens + 1   \* a hash, or a handle, that names no incarnation

VARIABLES
  meta,     \* the incarnation the meta hash names; 0: no hash
  owner,    \* the token in the owner key; 0: no key
  claim,    \* the creation claim is held
  shells,   \* incarnations whose shell is in the process table
  made,     \* incarnations forked so far
  forked,   \* incarnations each worker forked
  pump,     \* the output pump of each: "new", "on" or "off"
  torn,     \* live incarnations whose output stream was deleted
  up,       \* the worker process is alive
  handle,   \* TerminalManager.sessions of each worker
  op,       \* each worker's locked operation
  lst,      \* each worker's list_sessions
  hb,       \* each worker's heartbeat thread
  down,     \* each worker's shutdown
  slips,    \* history: which of Slips have happened
  removes, lapses, stops   \* counted against the bounds

redis == <<meta, owner, claim>>
shellVars == <<shells, made, forked, pump, torn>>
countVars == <<removes, lapses, stops>>
vars == <<redis, shellVars, up, handle, op, lst, hb, down, slips, countVars>>

\* "raced": a restart or removal began while another worker created, restarted or
\* removed the id; "stale": it went by a handle of an earlier incarnation; "lapse": the
\* owner key of a live session expired although its worker has a heartbeat;
\* "unwatched": because it has none; "window": a list pruned the hash of a session
\* its creator had yet to sign; "evicted": a shutdown deleted the hash of somebody
\* else's incarnation; "outlived": a list put back the key or the hash of a session
\* that had ended since it looked.
Slips == {"raced", "stale", "lapse", "unwatched", "window", "evicted", "outlived"}

\* The slips so far, with this one if it happened.
With(slip, happened) == IF happened THEN slips \union {slip} ELSE slips

NoHandle == [gen |-> 0, own |-> FALSE, alive |-> FALSE]
NoOp == [pc |-> "idle", kind |-> "none", gen |-> 0]
NoList == [pc |-> "idle", gen |-> 0]
NoDown == [pc |-> "no", gen |-> 0]

Mutators == {"create", "restart", "remove"}

TypeOK ==
  /\ meta \in 0 .. Blank /\ owner \in 0 .. MaxGens /\ claim \in BOOLEAN
  /\ shells \subseteq Gens /\ made \in 0 .. MaxGens
  /\ forked \in [Workers -> SUBSET Gens] /\ pump \in [Gens -> {"new", "on", "off"}]
  /\ torn \subseteq Gens
  /\ up \in [Workers -> BOOLEAN]
  /\ handle \in [Workers -> [gen : 0 .. Blank, own : BOOLEAN, alive : BOOLEAN]]
  /\ op \in [Workers ->
       [pc : {"idle", "check", "kill", "clear", "release", "forget", "claim", "wait",
              "fork", "describe", "sign"},
        kind : Mutators \union {"none"}, gen : 0 .. Blank]]
  /\ lst \in [Workers ->
       [pc : {"idle", "prune", "assert", "restate", "sweep"}, gen : 0 .. Blank]]
  /\ hb \in [Workers -> {"none", "on", "leaving"}]
  /\ down \in [Workers -> [pc : {"no", "clear", "forget"}, gen : 0 .. MaxGens]]
  /\ slips \subseteq Slips
  /\ shells \subseteq 1 .. made /\ owner <= made
  /\ \A w \in Workers : handle[w].own => handle[w].gen \in forked[w]

Init ==
  /\ meta = 0 /\ owner = 0 /\ claim = FALSE
  /\ shells = {} /\ made = 0
  /\ forked = [w \in Workers |-> {}]
  /\ pump = [g \in Gens |-> "new"] /\ torn = {}
  /\ up = [w \in Workers |-> TRUE]
  /\ handle = [w \in Workers |-> NoHandle]
  /\ op = [w \in Workers |-> NoOp]
  /\ lst = [w \in Workers |-> NoList]
  /\ hb = [w \in Workers |-> "none"]
  /\ down = [w \in Workers |-> NoDown]
  /\ slips = {}
  /\ removes = 0 /\ lapses = 0 /\ stops = 0

-----------------------------------------------------------------------------
(* Helpers *)

At(w, p) == up[w] /\ op[w].pc = p
Goto(w, p) == op' = [op EXCEPT ![w].pc = p]
Finish(w) == op' = [op EXCEPT ![w] = NoOp]

\* _pid_alive, and the "no pid recorded" that passes for it.
PidAlive(g) == g = Blank \/ g \in shells
Spent(h) == h.gen # 0 /\ (~h.alive \/ ~PidAlive(h.gen))

\* w has the PTY of g and its shell runs.
Holds(w, g) ==
  up[w] /\ handle[w].gen = g /\ handle[w].own /\ handle[w].alive /\ g \in shells

Beating(w) == handle[w].own /\ handle[w].alive

\* Fault variant: is_owner left at its default.
RemoteByDefault(g) == [gen |-> g, own |-> TRUE, alive |-> TRUE]

\* _remote_session.
Remote(g) == [gen |-> g, own |-> FALSE, alive |-> TRUE]

\* TerminalSession.kill by the worker that has the PTY.
KillOwn(h) ==
  /\ shells' = IF h.own THEN shells \ {h.gen} ELSE shells
  /\ pump' = IF h.own THEN [pump EXCEPT ![h.gen] = "off"] ELSE pump

\* _delete_streams; for a dead shell nobody looks.
DropStreams(g) == torn' = torn \union ({g} \cap shells)

\* _ensure_heartbeat: a thread that is leaving still counts as alive.
HeartbeatEnsured(w) == hb' = [hb EXCEPT ![w] = IF hb[w] = "none" THEN "on" ELSE @]

Busy(w) == op[w].kind \in Mutators

-----------------------------------------------------------------------------
(* Making an incarnation: create, and the second half of restart *)

\* A terminal nobody has heard of: its id is new.
Create(w) ==
  /\ At(w, "idle") /\ made = 0 /\ ~claim /\ \A v \in Workers : op[v].kind # "create"
  /\ op' = [op EXCEPT ![w] = [NoOp EXCEPT !.pc = "claim", !.kind = "create"]]
  /\ UNCHANGED <<redis, shellVars, up, handle, lst, hb, down, slips, countVars>>

\* _claim_creation.
Claim(w) ==
  /\ At(w, "claim")
  /\ claim' = TRUE
  /\ Goto(w, IF claim THEN "wait" ELSE "fork")
  /\ UNCHANGED <<meta, owner, shellVars, up, handle, lst, hb, down, slips, countVars>>

\* The streams of the incarnation the hash names go, then the shell is forked.
Fork(w) ==
  LET g == made + 1 IN
  /\ At(w, "fork") /\ g \in Gens
  /\ made' = g
  /\ shells' = shells \union {g}
  /\ forked' = [forked EXCEPT ![w] = @ \union {g}]
  /\ DropStreams(meta)
  /\ handle' = [handle EXCEPT ![w] = [gen |-> g, own |-> TRUE, alive |-> TRUE]]
  /\ op' = [op EXCEPT ![w].pc = "describe", ![w].gen = g]
  /\ UNCHANGED <<redis, pump, up, lst, hb, down, slips, countVars>>

\* The hash first, so that whoever sees the owner key can read the hash ...
Describe(w) ==
  /\ At(w, "describe")
  /\ meta' = op[w].gen
  /\ Goto(w, "sign")
  /\ UNCHANGED <<owner, claim, shellVars, up, handle, lst, hb, down, slips, countVars>>

\* ... then _set_owner; the heartbeat and the pump are up before create returns.
Sign(w) ==
  LET g == op[w].gen IN
  /\ At(w, "sign")
  /\ owner' = g
  /\ HeartbeatEnsured(w)
  /\ pump' = [pump EXCEPT ![g] = IF @ = "new" THEN "on" ELSE @]
  /\ Finish(w)
  /\ UNCHANGED <<meta, claim, shells, made, forked, torn, up, handle, lst,
                 down, slips, countVars>>

\* Somebody else forks: wait for an owner key and a complete hash ...
AdoptWinner(w) ==
  /\ At(w, "wait") /\ owner # 0 /\ meta \in Gens
  /\ handle' = [handle EXCEPT ![w] = Remote(meta)]
  /\ Finish(w)
  /\ UNCHANGED <<redis, shellVars, up, lst, hb, down, slips, countVars>>

\* ... for three seconds, and then go on with whatever the hash says.
WaitedOut(w) ==
  /\ At(w, "wait") /\ (owner = 0 \/ meta \notin Gens)
  /\ handle' = [handle EXCEPT ![w] = Remote(IF meta = 0 THEN Blank ELSE meta)]
  /\ Finish(w)
  /\ UNCHANGED <<redis, shellVars, up, lst, hb, down, slips, countVars>>

-----------------------------------------------------------------------------
(* Ending one: remove, and the first half of restart *)

\* The handle is popped, the hash read, and a shell of our own killed on the spot.
BeginEnd(w, kind) ==
  LET h == handle[w]
      g == IF h.gen # 0 THEN h.gen ELSE meta IN
  /\ At(w, "idle") /\ made > 0
  /\ op' = [op EXCEPT ![w] =
       [pc |-> IF ~h.own /\ g \in Gens THEN "check" ELSE "clear", kind |-> kind, gen |-> g]]
  /\ handle' = [handle EXCEPT ![w] = NoHandle]
  /\ KillOwn(h)
  /\ slips' = With("raced", \E v \in Workers \ {w} : Busy(v))
                \union With("stale", h.gen \in Gens /\ meta # 0 /\ meta # h.gen)
  /\ UNCHANGED <<redis, made, forked, torn, up, lst, hb, down>>

Restart(w) ==
  /\ made < MaxGens
  /\ BeginEnd(w, "restart")
  /\ UNCHANGED countVars

Remove(w) ==
  /\ removes < MaxRemoves
  /\ BeginEnd(w, "remove")
  /\ removes' = removes + 1
  /\ UNCHANGED <<lapses, stops>>

\* Fault variant: only the worker that has the PTY ends a shell.
CheckOwnerGivesUp(w) ==
  /\ At(w, "check")
  /\ Goto(w, "clear")
  /\ UNCHANGED <<redis, shellVars, up, handle, lst, hb, down, slips, countVars>>

\* The pid of somebody else's shell counts only under a live owner key ...
CheckOwner(w) ==
  /\ At(w, "check")
  /\ Goto(w, IF owner = 0 THEN "clear" ELSE "kill")
  /\ UNCHANGED <<redis, shellVars, up, handle, lst, hb, down, slips, countVars>>

\* ... and is then killed with its whole tree.
KillTree(w) ==
  /\ At(w, "kill")
  /\ shells' = shells \ {op[w].gen}
  /\ Goto(w, "clear")
  /\ UNCHANGED <<redis, made, forked, pump, torn, up, handle, lst, hb, down,
                 slips, countVars>>

\* _clear_owner without a token, and the streams.
ClearOwner(w) ==
  /\ At(w, "clear")
  /\ owner' = 0
  /\ DropStreams(op[w].gen)
  /\ Goto(w, "release")
  /\ UNCHANGED <<meta, claim, shells, made, forked, pump, up, handle, lst, hb, down,
                 slips, countVars>>

\* _release_creation, whoever holds the claim.
ReleaseClaim(w) ==
  /\ At(w, "release")
  /\ claim' = FALSE
  /\ IF op[w].kind = "restart" THEN Goto(w, "claim") /\ HeartbeatEnsured(w)
                               ELSE Goto(w, "forget") /\ UNCHANGED hb
  /\ UNCHANGED <<meta, owner, shellVars, up, handle, lst, down, slips, countVars>>

ForgetMeta(w) ==
  /\ At(w, "forget")
  /\ meta' = 0
  /\ Finish(w)
  /\ UNCHANGED <<owner, claim, shellVars, up, handle, lst, hb, down, slips, countVars>>

-----------------------------------------------------------------------------
(* Looking one up *)

\* get: a handle onto a dead shell is dropped first.
DropSpent(w) ==
  /\ up[w] /\ Spent(handle[w])
  /\ handle' = [handle EXCEPT ![w] = NoHandle]
  /\ UNCHANGED <<redis, shellVars, up, op, lst, hb, down, slips, countVars>>

\* A cold miss reads the hash; _adopt wants an owner, a generation and a live shell.
Adopt(w) ==
  /\ At(w, "idle") /\ handle[w].gen = 0
  /\ owner # 0 /\ meta \in shells
  /\ handle' = [handle EXCEPT ![w] = Remote(meta)]
  /\ UNCHANGED <<redis, shellVars, up, op, lst, hb, down, slips, countVars>>

\* set_name, on the hash and whether or not there still is one.
Rename(w) ==
  /\ up[w] /\ handle[w].gen # 0 /\ meta = 0
  /\ meta' = Blank
  /\ UNCHANGED <<owner, claim, shellVars, up, handle, op, lst, hb, down, slips, countVars>>

-----------------------------------------------------------------------------
(* list_sessions, which every broadcast runs on every worker *)

Listing == {w \in Workers : lst[w].pc # "idle"}
Conclude(w) == lst' = [lst EXCEPT ![w] = NoList]

\* A list that finds the owner, or whose scan fails, only drops a handle that is spent;
\* its pump and consumers are told to stop.
ListDrops(w) ==
  LET h == handle[w] IN
  /\ up[w] /\ Spent(h)
  /\ handle' = [handle EXCEPT ![w] = NoHandle]
  /\ pump' = IF h.own THEN [pump EXCEPT ![h.gen] = "off"] ELSE pump
  /\ UNCHANGED <<redis, shells, made, forked, torn, up, op, lst, hb, down, slips, countVars>>

\* _owner_map: a scan that finds no owner key ...
ListUnowned(w) ==
  /\ up[w] /\ lst[w].pc = "idle" /\ Cardinality(Listing) < MaxLists
  /\ owner = 0
  /\ lst' = [lst EXCEPT ![w].pc = "prune"]
  /\ UNCHANGED <<redis, shellVars, up, handle, op, hb, down, slips, countVars>>

\* ... drops the handle, but for one onto our own running shell.  Then _meta.all: a
\* hash that nobody here lists is an orphan.
ListPrune(w) ==
  LET h == handle[w]
      ours == h.own /\ ~Spent(h) IN
  /\ up[w] /\ lst[w].pc = "prune"
  /\ handle' = IF ours THEN handle ELSE [handle EXCEPT ![w] = NoHandle]
  /\ pump' = IF h.own /\ ~ours THEN [pump EXCEPT ![h.gen] = "off"] ELSE pump
  /\ lst' = [lst EXCEPT ![w] =
       CASE ours              -> [pc |-> "assert", gen |-> h.gen]
         [] ~ours /\ meta # 0 -> [pc |-> "sweep", gen |-> meta]
         [] OTHER             -> NoList]
  /\ UNCHANGED <<redis, shells, made, forked, torn, up, op, hb, down, slips, countVars>>

\* A session of ours that the scan did not see: the owner key is set again ...
ListAssert(w) ==
  /\ up[w] /\ lst[w].pc = "assert"
  /\ owner' = lst[w].gen
  /\ lst' = [lst EXCEPT ![w].pc = "restate"]
  /\ slips' = With("outlived", ~Holds(w, lst[w].gen))
  /\ UNCHANGED <<meta, claim, shellVars, up, handle, op, hb, down, countVars>>

\* ... and then the hash.
ListRestate(w) ==
  /\ up[w] /\ lst[w].pc = "restate"
  /\ meta' = lst[w].gen
  /\ Conclude(w)
  /\ slips' = With("outlived", ~Holds(w, lst[w].gen))
  /\ UNCHANGED <<owner, claim, shellVars, up, handle, op, hb, down, countVars>>

\* Fault variant: the streams go whether or not the hash went.
ListSweepDropsStreams(w) ==
  LET unsigned == \E v \in Workers : op[v].pc = "sign" /\ op[v].gen = meta IN
  /\ up[w] /\ lst[w].pc = "sweep"
  /\ DropStreams(lst[w].gen)
  /\ IF owner = 0 /\ meta # 0 THEN meta' = 0 /\ slips' = With("window", unsigned)
                            ELSE UNCHANGED <<meta, slips>>
  /\ Conclude(w)
  /\ UNCHANGED <<owner, claim, shells, made, forked, pump, up, handle, op, hb, down, countVars>>

\* _prune_session_meta looks at the owner key again, in the same command.
ListSweep(w) ==
  LET unsigned == \E v \in Workers : op[v].pc = "sign" /\ op[v].gen = meta IN
  /\ up[w] /\ lst[w].pc = "sweep"
  /\ IF owner = 0 /\ meta # 0
     THEN /\ meta' = 0
          /\ DropStreams(lst[w].gen)
          /\ slips' = With("window", unsigned)
     ELSE UNCHANGED <<meta, torn, slips>>
  /\ Conclude(w)
  /\ UNCHANGED <<owner, claim, shells, made, forked, pump, up, handle, op, hb, down,
                 countVars>>

-----------------------------------------------------------------------------
(* The heartbeat, and the end of a shell *)

\* Fault variant: the renewal is the plain compare-and-expire.
HeartbeatExtendsOnly(w) ==
  /\ up[w] /\ hb[w] = "on" /\ Beating(w)
  /\ UNCHANGED vars

\* A tick renews the key of a session of ours: it is extended, an absent one is set
\* again, another's is left alone.
HeartbeatRenews(w) ==
  /\ up[w] /\ hb[w] = "on" /\ Beating(w)
  /\ owner' = IF owner = 0 THEN handle[w].gen ELSE owner
  /\ UNCHANGED <<meta, claim, shellVars, up, handle, op, lst, hb, down, slips, countVars>>

\* The third tick with nothing to renew makes the thread leave ...
HeartbeatIdles(w) ==
  /\ up[w] /\ hb[w] = "on" /\ ~Beating(w)
  /\ hb' = [hb EXCEPT ![w] = "leaving"]
  /\ UNCHANGED <<redis, shellVars, up, handle, op, lst, down, slips, countVars>>

\* ... once it has the guard.
HeartbeatEnds(w) ==
  /\ up[w] /\ hb[w] = "leaving"
  /\ hb' = [hb EXCEPT ![w] = "none"]
  /\ UNCHANGED <<redis, shellVars, up, handle, op, lst, down, slips, countVars>>

ShellExits(g) ==
  /\ g \in shells
  /\ shells' = shells \ {g}
  /\ UNCHANGED <<redis, made, forked, pump, torn, up, handle, op, lst, hb, down,
                 slips, countVars>>

\* Fault variant: the owner key is deleted whoever's it is.
PumpEofClearsAny(g) ==
  /\ pump[g] = "on" /\ g \notin shells
  /\ pump' = [pump EXCEPT ![g] = "off"]
  /\ owner' = 0
  /\ UNCHANGED <<meta, claim, shells, made, forked, torn, up, handle, op, lst, hb, down, slips,
                 countVars>>

\* The pump writes the EOF frame last and clears the owner key if it is its own.
PumpEof(g) ==
  /\ pump[g] = "on" /\ g \notin shells
  /\ pump' = [pump EXCEPT ![g] = "off"]
  /\ owner' = IF owner = g THEN 0 ELSE owner
  /\ UNCHANGED <<meta, claim, shells, made, forked, torn, up, handle, op, lst, hb,
                 down, slips, countVars>>

\* The owner's output consumer gets the frame.  (A remote handle is spent already.)
ReadEof(w) ==
  /\ up[w] /\ handle[w].own /\ handle[w].alive
  /\ handle[w].gen \notin shells /\ pump[handle[w].gen] = "off"
  /\ handle' = [handle EXCEPT ![w].alive = FALSE]
  /\ UNCHANGED <<redis, shellVars, up, op, lst, hb, down, slips, countVars>>

\* Fault variant: the key is set without a TTL.
OwnerNeverExpires == owner # 0 /\ lapses < 0 /\ UNCHANGED vars

\* The owner key's TTL.
OwnerExpires ==
  LET held == {w \in Workers : Holds(w, owner)}
      late == \E w \in held : hb[w] = "on" IN
  /\ owner # 0
  /\ late => lapses < MaxLapses
  /\ owner' = 0
  /\ lapses' = IF late THEN lapses + 1 ELSE lapses
  /\ slips' = With("lapse", late) \union With("unwatched", held # {} /\ ~late)
  /\ UNCHANGED <<meta, claim, shellVars, up, handle, op, lst, hb, down, removes, stops>>

-----------------------------------------------------------------------------
(* Deaths and shutdowns *)

\* The worker's shells go with its PTYs, and everything it was doing stops.
Gone(w) ==
  /\ up' = [up EXCEPT ![w] = FALSE]
  /\ shells' = shells \ forked[w]
  /\ pump' = [g \in Gens |-> IF g \in forked[w] THEN "off" ELSE pump[g]]
  /\ handle' = [handle EXCEPT ![w] = NoHandle]
  /\ op' = [op EXCEPT ![w] = NoOp]
  /\ lst' = [lst EXCEPT ![w] = NoList]
  /\ hb' = [hb EXCEPT ![w] = "none"]
  /\ down' = [down EXCEPT ![w] = NoDown]

WorkerDies(w) ==
  /\ up[w] /\ stops < MaxStops
  /\ Gone(w)
  /\ stops' = stops + 1
  /\ UNCHANGED <<redis, made, forked, torn, slips, removes, lapses>>

WorkerReturns(w) ==
  /\ ~up[w]
  /\ up' = [up EXCEPT ![w] = TRUE]
  /\ UNCHANGED <<redis, shellVars, handle, op, lst, hb, down, slips, countVars>>

\* cleanup: a session we own is killed; the other handles are just closed.
BeginCleanup(w) ==
  /\ up[w] /\ down[w].pc = "no" /\ stops < MaxStops /\ handle[w].own
  /\ KillOwn(handle[w])
  /\ handle' = [handle EXCEPT ![w].alive = FALSE]
  /\ down' = [down EXCEPT ![w] = [pc |-> "clear", gen |-> handle[w].gen]]
  /\ stops' = stops + 1
  /\ UNCHANGED <<redis, made, forked, torn, up, op, lst, hb, slips, removes, lapses>>

\* Its owner key goes if the token is ours, and its streams ...
CleanupClear(w) ==
  /\ up[w] /\ down[w].pc = "clear"
  /\ owner' = IF owner = down[w].gen THEN 0 ELSE owner
  /\ DropStreams(down[w].gen)
  /\ down' = [down EXCEPT ![w].pc = "forget"]
  /\ UNCHANGED <<meta, claim, shells, made, forked, pump, up, handle, op, lst, hb, slips,
                 countVars>>

\* ... then the hash, whoever it describes; the process ends.
CleanupForget(w) ==
  /\ up[w] /\ down[w].pc = "forget"
  /\ meta' = 0
  /\ slips' = With("evicted", meta \in Gens \ {down[w].gen})
  /\ Gone(w)
  /\ UNCHANGED <<owner, claim, made, forked, torn, countVars>>

-----------------------------------------------------------------------------
Operate(w) ==
  \/ Claim(w) \/ Fork(w) \/ Describe(w) \/ Sign(w) \/ AdoptWinner(w) \/ WaitedOut(w)
  \/ CheckOwner(w) \/ KillTree(w) \/ ClearOwner(w) \/ ReleaseClaim(w) \/ ForgetMeta(w)

Request(w) == Create(w) \/ Restart(w) \/ Remove(w) \/ DropSpent(w) \/ Adopt(w) \/ Rename(w)

List(w) ==
  \/ ListDrops(w) \/ ListUnowned(w) \/ ListPrune(w) \/ ListAssert(w) \/ ListRestate(w)
  \/ ListSweep(w)

Heartbeat(w) == HeartbeatRenews(w) \/ HeartbeatIdles(w) \/ HeartbeatEnds(w)

Stop(w) ==
  WorkerDies(w) \/ WorkerReturns(w) \/ BeginCleanup(w) \/ CleanupClear(w) \/ CleanupForget(w)

Next ==
  \/ \E w \in Workers :
       Request(w) \/ Operate(w) \/ List(w) \/ Heartbeat(w) \/ ReadEof(w) \/ Stop(w)
  \/ \E g \in Gens : ShellExits(g) \/ PumpEof(g)
  \/ OwnerExpires

\* What a worker has begun goes on, its heartbeat ticks, its lists are asked for again
\* (every broadcast and every /ws/status connection asks), dead workers are replaced and
\* a key that nobody renews expires.
Fairness ==
  /\ \A w \in Workers :
       /\ WF_vars(Operate(w)) /\ WF_vars(List(w)) /\ WF_vars(Heartbeat(w))
       /\ WF_vars(ReadEof(w)) /\ WF_vars(WorkerReturns(w))
       /\ WF_vars(CleanupClear(w) \/ CleanupForget(w))
  /\ \A g \in Gens : WF_vars(PumpEof(g))
  /\ WF_vars(OwnerExpires)

Spec == Init /\ [][Next]_vars /\ Fairness

-----------------------------------------------------------------------------
(* Properties *)

\* No two shells for one terminal: two restarts fork one, the old shell is gone
\* before the new one runs (create, _claim_creation, _end_session), as long as
\* restarts do not race and the owner key does not expire under a live session.
OneShell ==
  slips = {} => Cardinality(shells) <= 1

\* The same with no regard to which worker a restart is asked of: one restart after
\* the other replaces the shell (restart: "Kill the existing session and spawn a fresh
\* one with the same ID").
RestartReplaces == slips \subseteq {"stale"} => Cardinality(shells) <= 1

\* A session that runs on one worker can be found by all of them: outside of a
\* restart, a removal or a shutdown its owner key is its own and its hash names it
\* (_set_owner, _refresh_owner, _clear_owner, _prune_session_meta).
Settled == \A w \in Workers : ~Busy(w) /\ down[w].pc = "no"
Published ==
  slips = {} /\ Settled =>
    \A w \in Workers, g \in Gens : Holds(w, g) => owner = g /\ meta = g

\* Nothing drops what a live session has shown: its output stream is there for the
\* next worker that opens it (_delete_streams, _prune_session_meta).
ScrollbackKept ==
  slips = {} /\ Settled =>
    \A w \in Workers, g \in Gens : Holds(w, g) => g \notin torn

\* A lapse of the owner key is healed: the worker that still has the shell gets the key
\* back (_OWNER_RENEW_LUA, list_sessions), unless the shell is no longer the only one.
OwnerRepublished ==
  \A w \in Workers, g \in Gens :
    (Holds(w, g) /\ slips \subseteq {"lapse"}) ~>
      (owner = g \/ ~Holds(w, g) \/ shells # {g} \/ ~(slips \subseteq {"lapse"}))

\* A terminal that is over disappears everywhere: with no shell left and none coming,
\* the owner key and the hash go, whatever its worker lived to do (list_sessions).
Over == shells = {} /\ \A w \in Workers : op[w].kind \notin {"create", "restart"}
EndedIsForgotten == Over ~> ((owner = 0 /\ meta = 0) \/ ~Over)
=============================================================================

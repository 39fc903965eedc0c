-------------------------- MODULE MCTerminalsProofs --------------------------
(***************************************************************************)
(* MCTerminals for any number of workers, incarnations, removals, lists    *)
(* and deaths: while none of the slips has happened a terminal has one     *)
(* shell, the shell is found under its own owner key and hash, and nobody  *)
(* deletes what it wrote.  And for any workers, clients and sizes of       *)
(* streams and queues: a client sees what the shell wrote, in order.       *)
(***************************************************************************)
EXTENDS MCTerminals, FiniteSetTheorems, TLAPS

-----------------------------------------------------------------------------
(* The inductive invariant *)

Pcs == {"idle", "check", "kill", "clear", "release", "forget", "claim", "wait",
        "fork", "describe", "sign"}
HandleRecords == [gen : 0 .. Blank, own : BOOLEAN, alive : BOOLEAN]
OpRecords == [pc : Pcs, kind : Mutators \union {"none"}, gen : 0 .. Blank]
ListRecords == [pc : {"idle", "prune", "assert", "restate", "sweep"}, gen : 0 .. Blank]
DownRecords == [pc : {"no", "clear", "forget"}, gen : 0 .. MaxGens]

\* A name is of an incarnation that has been forked, or of none.
Names == (0 .. made) \union {Blank}

Shapes ==
  /\ meta \in 0 .. Blank /\ owner \in 0 .. MaxGens /\ claim \in BOOLEAN
  /\ shells \subseteq Gens /\ made \in 0 .. MaxGens
  /\ forked \in [Workers -> SUBSET Gens] /\ pump \in [Gens -> {"new", "on", "off"}]
  /\ torn \subseteq Gens
  /\ up \in [Workers -> BOOLEAN]
  /\ handle \in [Workers -> HandleRecords]
  /\ op \in [Workers -> OpRecords]
  /\ lst \in [Workers -> ListRecords]
  /\ hb \in [Workers -> {"none", "on", "leaving"}]
  /\ down \in [Workers -> DownRecords]
  /\ slips \subseteq Slips

Structure ==
  /\ shells \subseteq 1 .. made /\ owner <= made
  /\ \A w \in Workers : handle[w].own => handle[w].gen \in forked[w]
  /\ \A w \in Workers :
       /\ forked[w] \subseteq 1 .. made
       /\ handle[w].gen \in Names /\ op[w].gen \in Names /\ lst[w].gen \in Names
       /\ down[w].gen <= made
       /\ op[w].kind \in Mutators <=> op[w].pc # "idle"
       /\ op[w].kind \in {"restart", "remove"} => made > 0
       /\ op[w].pc \in {"describe", "sign"} => op[w].gen \in forked[w]
       /\ lst[w].pc \in {"assert", "restate"} => lst[w].gen \in 1 .. made
  /\ meta \in Names
  /\ torn \subseteq 1 .. made

\* A shell that runs is in the hands of the worker that forked it, and an operation
\* that is about to fork has let go of what its worker had.
Held ==
  /\ \A g \in shells : \E w \in Workers : Holds(w, g)
  /\ \A w \in Workers : op[w].pc \notin {"idle", "describe", "sign"} => ~handle[w].own

OneBusy == \A v, w \in Workers : Busy(v) /\ Busy(w) => v = w

\* What each step of an operation goes by: the shell it is to end, that there is
\* none left, or that there is none but the one it made.
Ending ==
  \A w \in Workers :
    /\ op[w].pc # "wait"
    /\ op[w].pc = "claim" => ~claim
    /\ op[w].pc \in {"clear", "release", "forget", "claim", "fork"} => shells = {}
    /\ op[w].pc \in {"check", "kill", "describe", "sign"} => shells \subseteq {op[w].gen}

AtMostOne == \A g, h \in shells : g = h

\* The hash names the shell from Describe on, and the owner key from Sign on, or as
\* soon as the worker's own list has put both.
Named ==
  \A g \in shells :
    /\ (\A w \in Workers : op[w].pc # "describe") => meta = g
    /\ meta = g /\ (\A w \in Workers : op[w].pc # "sign") => owner = g

\* A list that is about to restate the hash has put the owner key, and one that would
\* sweep the hash of a running shell finds a key, or a creator that has yet to sign.
Lists ==
  \A w \in Workers : lst[w].gen \in shells =>
    /\ lst[w].pc = "restate" => owner = lst[w].gen
    /\ lst[w].pc = "sweep" => owner = lst[w].gen \/ \E v \in Workers : op[v].pc = "sign"

\* A shutdown has killed what it is about to forget; nobody has a nameless handle.
Ended ==
  \A w \in Workers :
    /\ down[w].pc # "no" => down[w].gen \notin shells
    /\ handle[w].gen # Blank

Untorn == shells \cap torn = {}

Core ==
  /\ Held /\ OneBusy /\ Ending /\ AtMostOne /\ Named /\ Lists /\ Ended /\ Untorn

TerminalInv == Shapes /\ Structure /\ (slips = {} => Core)

-----------------------------------------------------------------------------
(* Steps that leave the operations alone *)

LEMMA Bounds == MaxGens \in Nat
BY TerminalAssumption

\* The invariant of a state without a shell is about what is under way.
LEMMA NoShell ==
  ASSUME shells' = {}, OneBusy',
         \A w \in Workers :
           /\ op'[w].pc # "wait"
           /\ op'[w].pc = "claim" => ~claim'
           /\ op'[w].pc \notin {"idle", "describe", "sign"} => ~handle'[w].own
           /\ handle'[w].gen # Blank
  PROVE  Core'
BY DEF Core, Held, Ending, AtMostOne, Named, Lists, Ended, Untorn

\* What a step leaves in place that forks nothing and hands no operation on: the names
\* it writes are of incarnations that have been forked, shells may end and streams of
\* running shells may go.
MildTypes ==
  /\ UNCHANGED <<made, forked, claim>>
  /\ meta' \in Names /\ owner' \in 0 .. made /\ shells' \subseteq shells
  /\ torn' \subseteq torn \union shells /\ slips \subseteq slips' /\ slips' \subseteq Slips
  /\ pump' \in [Gens -> {"new", "on", "off"}] /\ up' \in [Workers -> BOOLEAN]
  /\ hb' \in [Workers -> {"none", "on", "leaving"}]
  /\ handle' \in [Workers -> HandleRecords] /\ lst' \in [Workers -> ListRecords]
  /\ down' \in [Workers -> DownRecords] /\ op' \in [Workers -> OpRecords]

\* An operation goes on where it was or stops with its worker.
MildLocals ==
  \A w \in Workers :
    /\ op'[w] = op[w] \/ op'[w] = NoOp
    /\ handle'[w].own => handle[w].own /\ handle'[w].gen = handle[w].gen
    /\ handle'[w].gen \in Names /\ lst'[w].gen \in Names /\ down'[w].gen <= made
    /\ lst'[w].pc \in {"assert", "restate"} => lst'[w].gen \in 1 .. made

\* A running shell keeps its PTY, its key and its hash, which is named to nobody
\* without the key; its streams stay, and no list has got hold of it.
ShellKept ==
  \A g \in shells' :
    /\ g \in torn' => g \in torn
    /\ \A w \in Workers : Holds(w, g) => Holds(w, g)'
    /\ owner = g => owner' = g
    /\ meta = g => meta' = g
    /\ meta' = g => meta = g \/ owner' = g

ListsKept ==
  \A w \in Workers : lst'[w].gen \in shells' /\ lst'[w].pc \in {"restate", "sweep"} =>
    \/ lst'[w] = lst[w] \/ owner' = lst'[w].gen
    \/ lst'[w].pc = "sweep" /\ \E v \in Workers : op[v].pc = "sign"

WorkersKept ==
  \A w \in Workers :
    /\ op'[w] # op[w] /\ op[w].pc \in {"describe", "sign"} => op[w].gen \notin shells'
    /\ handle'[w].gen # Blank
    /\ down'[w].pc # "no" => down'[w].gen \notin shells'

MildCore == slips' = {} /\ Core => ShellKept /\ ListsKept /\ WorkersKept

\* Lists, heartbeats, lookups, exits, deaths and shutdowns are such steps, and those
\* keep the invariant.
LEMMA Beside ==
  ASSUME TerminalInv, MildTypes, MildLocals, MildCore
  PROVE  TerminalInv'
<1> USE DEF TerminalInv, MildTypes, MildLocals
<1>1. MaxGens \in Nat /\ Shapes /\ Structure
  BY Bounds
<1>2. Names' = Names /\ NoOp.pc = "idle" /\ NoOp.kind = "none" /\ NoOp.gen = 0 /\ 0 \in Names
  BY <1>1 DEF Names, NoOp, Shapes, Blank
<1>3. /\ meta' \in 0 .. Blank /\ owner' \in 0 .. MaxGens /\ owner' <= made'
  BY <1>1 DEF Names, Shapes, Blank
<1>4. Shapes'
  BY <1>1, <1>3 DEF Shapes
<1>5. Structure'
  <2>1. shells' \subseteq 1 .. made' /\ torn' \subseteq 1 .. made'
    BY <1>1 DEF Structure
  <2>2. ASSUME NEW w \in Workers
        PROVE  /\ op'[w].gen \in Names
               /\ op'[w].kind \in Mutators <=> op'[w].pc # "idle"
               /\ op'[w].kind \in {"restart", "remove"} => made > 0
               /\ op'[w].pc \in {"describe", "sign"} => op'[w].gen \in forked[w]
    BY <1>1, <1>2 DEF Structure, Mutators
  <2> QED BY <1>1, <1>2, <1>3, <2>1, <2>2 DEF Structure
<1>6. ASSUME slips' = {} PROVE Core'
  <2>1. Core
    BY <1>6
  <2> USE DEF MildCore, ShellKept, ListsKept, WorkersKept
  <2>2. Held'
    <3>1. \A g \in shells' : \E w \in Workers : Holds(w, g)'
      BY <1>6, <2>1 DEF Core, Held
    <3>2. \A w \in Workers : op'[w].pc \notin {"idle", "describe", "sign"} => ~handle'[w].own
      BY <1>2, <2>1 DEF Core, Held
    <3> QED BY <3>1, <3>2 DEF Held
  <2>3. OneBusy'
    BY <1>2, <2>1 DEF Core, OneBusy, Busy, Mutators
  <2>4. Ending'
    BY <1>2, <2>1 DEF Core, Ending
  <2>5. AtMostOne'
    BY <2>1 DEF Core, AtMostOne
  <2>6. ASSUME NEW g \in shells', NEW w \in Workers, op[w].pc \in {"describe", "sign"}
        PROVE  op'[w] = op[w]
    BY <1>6, <2>1, <2>6 DEF Core, Ending
  <2>7. Named'
    BY <1>6, <2>1, <2>6 DEF Core, Named
  <2>8. Lists'
    BY <1>6, <2>1, <2>6 DEF Core, Lists
  <2>9. Ended' /\ Untorn'
    BY <1>6, <2>1 DEF Core, Ended, Untorn
  <2> QED BY <2>2, <2>3, <2>4, <2>5, <2>7, <2>8, <2>9 DEF Core
<1> QED BY <1>4, <1>5, <1>6
-----------------------------------------------------------------------------
(* Each of them *)

\* DropSpent: a handle onto a dead shell is dropped.
LEMMA DropSpentStep ==
  ASSUME TerminalInv, NEW w \in Workers, DropSpent(w)
  PROVE  TerminalInv'
<1> USE Bounds DEF DropSpent, TerminalInv, redis, shellVars, countVars, Spent, PidAlive
<1>1. MildTypes
  BY DEF MildTypes, Shapes, Structure, Names, Blank, Gens, Slips, HandleRecords, ListRecords,
         DownRecords, OpRecords, NoHandle, NoOp, NoList, NoDown
<1>2. MildLocals
  BY DEF MildLocals, Shapes, Structure, Names, Blank, Gens, NoHandle, NoOp, NoList, NoDown
<1>3. ASSUME slips' = {}, Core PROVE ShellKept
  BY <1>3 DEF ShellKept, Holds, Shapes, Structure, Names, Blank, Gens, NoHandle, Core, Held,
              AtMostOne, Named, Lists, Ended, Ending, OneBusy
<1>4. ASSUME slips' = {}, Core PROVE ListsKept
  BY <1>4 DEF ListsKept, Holds, Shapes, Structure, Names, Blank, Gens, NoList, Core, Held,
              AtMostOne, Named, Lists, Ending
<1>5. ASSUME slips' = {}, Core PROVE WorkersKept
  BY <1>5 DEF WorkersKept, Shapes, Structure, Names, Blank, Gens, NoHandle, NoDown, Core, Ended
<1> QED BY <1>1, <1>2, <1>3, <1>4, <1>5, Beside DEF MildCore

\* Adopt: a cold handle onto the running shell the hash names.
LEMMA AdoptStep ==
  ASSUME TerminalInv, NEW w \in Workers, Adopt(w)
  PROVE  TerminalInv'
<1> USE Bounds DEF Adopt, TerminalInv, redis, shellVars, countVars, Remote
<1>1. MildTypes
  BY DEF MildTypes, Shapes, Structure, Names, Blank, Gens, Slips, HandleRecords, ListRecords,
         DownRecords, OpRecords, NoHandle, NoOp, NoList, NoDown
<1>2. MildLocals
  BY DEF MildLocals, Shapes, Structure, Names, Blank, Gens, NoHandle, NoOp, NoList, NoDown
<1>3. ASSUME slips' = {}, Core PROVE ShellKept
  BY <1>3 DEF ShellKept, Holds, Shapes, Structure, Names, Blank, Gens, NoHandle, Core, Held,
              AtMostOne, Named, Lists, Ended, Ending, OneBusy
<1>4. ASSUME slips' = {}, Core PROVE ListsKept
  BY <1>4 DEF ListsKept, Holds, Shapes, Structure, Names, Blank, Gens, NoList, Core, Held,
              AtMostOne, Named, Lists, Ending
<1>5. ASSUME slips' = {}, Core PROVE WorkersKept
  BY <1>5 DEF WorkersKept, Shapes, Structure, Names, Blank, Gens, NoHandle, NoDown, Core, Ended
<1> QED BY <1>1, <1>2, <1>3, <1>4, <1>5, Beside DEF MildCore

\* Rename: a hash put back without an incarnation.
LEMMA RenameStep ==
  ASSUME TerminalInv, NEW w \in Workers, Rename(w)
  PROVE  TerminalInv'
<1> USE Bounds DEF Rename, TerminalInv, redis, shellVars, countVars
<1>1. MildTypes
  BY DEF MildTypes, Shapes, Structure, Names, Blank, Gens, Slips, HandleRecords, ListRecords,
         DownRecords, OpRecords, NoHandle, NoOp, NoList, NoDown
<1>2. MildLocals
  BY DEF MildLocals, Shapes, Structure, Names, Blank, Gens, NoHandle, NoOp, NoList, NoDown
<1>3. ASSUME slips' = {}, Core PROVE ShellKept
  BY <1>3 DEF ShellKept, Holds, Shapes, Structure, Names, Blank, Gens, NoHandle, Core, Held,
              AtMostOne, Named, Lists, Ended, Ending, OneBusy
<1>4. ASSUME slips' = {}, Core PROVE ListsKept
  BY <1>4 DEF ListsKept, Holds, Shapes, Structure, Names, Blank, Gens, NoList, Core, Held,
              AtMostOne, Named, Lists, Ending
<1>5. ASSUME slips' = {}, Core PROVE WorkersKept
  BY <1>5 DEF WorkersKept, Shapes, Structure, Names, Blank, Gens, NoHandle, NoDown, Core, Ended
<1> QED BY <1>1, <1>2, <1>3, <1>4, <1>5, Beside DEF MildCore

\* ListDrops: a list drops a handle onto a dead shell.
LEMMA ListDropsStep ==
  ASSUME TerminalInv, NEW w \in Workers, ListDrops(w)
  PROVE  TerminalInv'
<1> USE Bounds DEF ListDrops, TerminalInv, redis, shellVars, countVars, Spent, PidAlive
<1>1. MildTypes
  BY DEF MildTypes, Shapes, Structure, Names, Blank, Gens, Slips, HandleRecords, ListRecords,
         DownRecords, OpRecords, NoHandle, NoOp, NoList, NoDown
<1>2. MildLocals
  BY DEF MildLocals, Shapes, Structure, Names, Blank, Gens, NoHandle, NoOp, NoList, NoDown
<1>3. ASSUME slips' = {}, Core PROVE ShellKept
  BY <1>3 DEF ShellKept, Holds, Shapes, Structure, Names, Blank, Gens, NoHandle, Core, Held,
              AtMostOne, Named, Lists, Ended, Ending, OneBusy
<1>4. ASSUME slips' = {}, Core PROVE ListsKept
  BY <1>4 DEF ListsKept, Holds, Shapes, Structure, Names, Blank, Gens, NoList, Core, Held,
              AtMostOne, Named, Lists, Ending
<1>5. ASSUME slips' = {}, Core PROVE WorkersKept
  BY <1>5 DEF WorkersKept, Shapes, Structure, Names, Blank, Gens, NoHandle, NoDown, Core, Ended
<1> QED BY <1>1, <1>2, <1>3, <1>4, <1>5, Beside DEF MildCore

\* ListUnowned: a scan that found no owner key.
LEMMA ListUnownedStep ==
  ASSUME TerminalInv, NEW w \in Workers, ListUnowned(w)
  PROVE  TerminalInv'
<1> USE Bounds DEF ListUnowned, TerminalInv, redis, shellVars, countVars
<1>1. MildTypes
  <2>1. [lst[w] EXCEPT !.pc = "prune"] \in ListRecords
    BY DEF Shapes, Structure, ListRecords
  <2>2. lst' \in [Workers -> ListRecords]
    BY <2>1 DEF Shapes
  <2> QED
    BY <2>2 DEF MildTypes, Shapes, Structure, Names, Blank, Gens, Slips
<1>2. MildLocals
  BY DEF MildLocals, Shapes, Structure, Names, Blank, Gens, NoHandle, NoOp, NoList, NoDown
<1>3. ASSUME slips' = {}, Core PROVE ShellKept
  BY <1>3 DEF ShellKept, Holds, Shapes, Structure, Names, Blank, Gens, NoHandle, Core, Held,
              AtMostOne, Named, Lists, Ended, Ending, OneBusy
<1>4. ASSUME slips' = {}, Core PROVE ListsKept
  BY <1>4 DEF ListsKept, Holds, Shapes, Structure, Names, Blank, Gens, NoList, Core, Held,
              AtMostOne, Named, Lists, Ending
<1>5. ASSUME slips' = {}, Core PROVE WorkersKept
  BY <1>5 DEF WorkersKept, Shapes, Structure, Names, Blank, Gens, NoHandle, NoDown, Core, Ended
<1> QED BY <1>1, <1>2, <1>3, <1>4, <1>5, Beside DEF MildCore

\* ListPrune: the hash such a list is to sweep names a shell whose key is there or unsigned.
LEMMA ListPruneStep ==
  ASSUME TerminalInv, NEW w \in Workers, ListPrune(w)
  PROVE  TerminalInv'
<1> USE Bounds DEF ListPrune, TerminalInv, redis, shellVars, countVars, Spent, PidAlive
<1>1. MildTypes
  BY DEF MildTypes, Shapes, Structure, Names, Blank, Gens, Slips, HandleRecords, ListRecords,
         DownRecords, OpRecords, NoHandle, NoOp, NoList, NoDown
<1>2. MildLocals
  BY DEF MildLocals, Shapes, Structure, Names, Blank, Gens, NoHandle, NoOp, NoList, NoDown
<1>3. ASSUME slips' = {}, Core PROVE ShellKept
  BY <1>3 DEF ShellKept, Holds, Shapes, Structure, Names, Blank, Gens, NoHandle, Core, Held,
              AtMostOne, Named, Lists, Ended, Ending, OneBusy
<1>4. ASSUME slips' = {}, Core PROVE ListsKept
  BY <1>4 DEF ListsKept, Holds, Shapes, Structure, Names, Blank, Gens, NoList, Core, Held,
              AtMostOne, Named, Lists, Ending
<1>5. ASSUME slips' = {}, Core PROVE WorkersKept
  BY <1>5 DEF WorkersKept, Shapes, Structure, Names, Blank, Gens, NoHandle, NoDown, Core, Ended
<1> QED BY <1>1, <1>2, <1>3, <1>4, <1>5, Beside DEF MildCore

\* ListAssert: the key is put back for the one shell that runs.
LEMMA ListAssertStep ==
  ASSUME TerminalInv, NEW w \in Workers, ListAssert(w)
  PROVE  TerminalInv'
<1> USE Bounds DEF ListAssert, TerminalInv, redis, shellVars, countVars, With
<1>1. MildTypes
  <2>1. [lst[w] EXCEPT !.pc = "restate"] \in ListRecords
    BY DEF Shapes, Structure, ListRecords
  <2>2. lst' \in [Workers -> ListRecords]
    BY <2>1 DEF Shapes
  <2> QED
    BY <2>2 DEF MildTypes, Shapes, Structure, Names, Blank, Gens, Slips
<1>2. MildLocals
  BY DEF MildLocals, Shapes, Structure, Names, Blank, Gens, NoHandle, NoOp, NoList, NoDown
<1>3. ASSUME slips' = {}, Core PROVE ShellKept
  BY <1>3 DEF ShellKept, Holds, Shapes, Structure, Names, Blank, Gens, NoHandle, Core, Held,
              AtMostOne, Named, Lists, Ended, Ending, OneBusy
<1>4. ASSUME slips' = {}, Core PROVE ListsKept
  BY <1>4 DEF ListsKept, Holds, Shapes, Structure, Names, Blank, Gens, NoList, Core, Held,
              AtMostOne, Named, Lists, Ending
<1>5. ASSUME slips' = {}, Core PROVE WorkersKept
  BY <1>5 DEF WorkersKept, Shapes, Structure, Names, Blank, Gens, NoHandle, NoDown, Core, Ended
<1> QED BY <1>1, <1>2, <1>3, <1>4, <1>5, Beside DEF MildCore

\* ListRestate: and its hash.
LEMMA ListRestateStep ==
  ASSUME TerminalInv, NEW w \in Workers, ListRestate(w)
  PROVE  TerminalInv'
<1> USE Bounds DEF ListRestate, TerminalInv, redis, shellVars, countVars, With, Conclude
<1>1. MildTypes
  BY DEF MildTypes, Shapes, Structure, Names, Blank, Gens, Slips, HandleRecords, ListRecords,
         DownRecords, OpRecords, NoHandle, NoOp, NoList, NoDown
<1>2. MildLocals
  BY DEF MildLocals, Shapes, Structure, Names, Blank, Gens, NoHandle, NoOp, NoList, NoDown
<1>3. ASSUME slips' = {}, Core PROVE ShellKept
  BY <1>3 DEF ShellKept, Holds, Shapes, Structure, Names, Blank, Gens, NoHandle, Core, Held,
              AtMostOne, Named, Lists, Ended, Ending, OneBusy
<1>4. ASSUME slips' = {}, Core PROVE ListsKept
  BY <1>4 DEF ListsKept, Holds, Shapes, Structure, Names, Blank, Gens, NoList, Core, Held,
              AtMostOne, Named, Lists, Ending
<1>5. ASSUME slips' = {}, Core PROVE WorkersKept
  BY <1>5 DEF WorkersKept, Shapes, Structure, Names, Blank, Gens, NoHandle, NoDown, Core, Ended
<1> QED BY <1>1, <1>2, <1>3, <1>4, <1>5, Beside DEF MildCore

\* ListSweep: a hash swept off a running shell is its creator's, yet to be signed.
LEMMA ListSweepStep ==
  ASSUME TerminalInv, NEW w \in Workers, ListSweep(w)
  PROVE  TerminalInv'
<1> USE Bounds DEF ListSweep, TerminalInv, redis, shellVars, countVars, With, Conclude,
        DropStreams
<1>1. MildTypes
  <2>1. NoList \in ListRecords
    BY Bounds DEF NoList, ListRecords, Blank
  <2>2. lst' \in [Workers -> ListRecords] /\ meta' \in Names
    BY <2>1 DEF Shapes, Structure, Names
  <2>3. torn' \subseteq torn \union shells /\ slips \subseteq slips' /\ slips' \subseteq Slips
    BY DEF Shapes, Slips
  <2> QED
    BY <2>2, <2>3 DEF MildTypes, Shapes, Structure
<1>2. MildLocals
  BY DEF MildLocals, Shapes, Structure, Names, Blank, Gens, NoHandle, NoOp, NoList, NoDown
<1>3. ASSUME slips' = {}, Core PROVE ShellKept
  <2>1. CASE owner = 0 /\ meta # 0
    <3>1. ~\E v \in Workers : op[v].pc = "sign" /\ op[v].gen = meta
      BY <1>3, <2>1
    <3>2. ASSUME NEW g \in shells, \E v \in Workers : op[v].pc = "sign" PROVE FALSE
      <4>1. PICK v \in Workers : op[v].pc = "sign"
        BY <3>2
      <4>2. op[v].gen = g
        BY <1>3, <4>1 DEF Core, Ending
      <4>3. \A u \in Workers : op[u].pc # "describe"
        BY <1>3, <4>1 DEF Core, OneBusy, Busy, Structure, Mutators
      <4>4. meta = g
        BY <1>3, <4>3 DEF Core, Named
      <4> QED BY <3>1, <4>1, <4>2, <4>4
    <3>3. \A g \in shells : meta # g /\ lst[w].gen # g
      BY <1>3, <2>1, <3>2 DEF Core, Named, Lists, Shapes, Gens
    <3> QED BY <2>1, <3>3 DEF ShellKept, Holds, Shapes, Gens
  <2>2. CASE ~(owner = 0 /\ meta # 0)
    BY <2>2 DEF ShellKept, Holds, Shapes
  <2> QED BY <2>1, <2>2
<1>4. ASSUME slips' = {}, Core PROVE ListsKept
  BY <1>4 DEF ListsKept, Holds, Shapes, Structure, Names, Blank, Gens, NoList, Core, Held,
              AtMostOne, Named, Lists, Ending
<1>5. ASSUME slips' = {}, Core PROVE WorkersKept
  BY <1>5 DEF WorkersKept, Shapes, Structure, Names, Blank, Gens, NoHandle, NoDown, Core, Ended
<1> QED BY <1>1, <1>2, <1>3, <1>4, <1>5, Beside DEF MildCore

\* HeartbeatRenews: an absent key is the only one a heartbeat sets.
LEMMA HeartbeatRenewsStep ==
  ASSUME TerminalInv, NEW w \in Workers, HeartbeatRenews(w)
  PROVE  TerminalInv'
<1> USE Bounds DEF HeartbeatRenews, TerminalInv, redis, shellVars, countVars, Beating
<1>1. MildTypes
  BY DEF MildTypes, Shapes, Structure, Names, Blank, Gens, Slips, HandleRecords, ListRecords,
         DownRecords, OpRecords, NoHandle, NoOp, NoList, NoDown
<1>2. MildLocals
  BY DEF MildLocals, Shapes, Structure, Names, Blank, Gens, NoHandle, NoOp, NoList, NoDown
<1>3. ASSUME slips' = {}, Core PROVE ShellKept
  BY <1>3 DEF ShellKept, Holds, Shapes, Structure, Names, Blank, Gens, NoHandle, Core, Held,
              AtMostOne, Named, Lists, Ended, Ending, OneBusy
<1>4. ASSUME slips' = {}, Core PROVE ListsKept
  BY <1>4 DEF ListsKept, Holds, Shapes, Structure, Names, Blank, Gens, NoList, Core, Held,
              AtMostOne, Named, Lists, Ending
<1>5. ASSUME slips' = {}, Core PROVE WorkersKept
  BY <1>5 DEF WorkersKept, Shapes, Structure, Names, Blank, Gens, NoHandle, NoDown, Core, Ended
<1> QED BY <1>1, <1>2, <1>3, <1>4, <1>5, Beside DEF MildCore

\* HeartbeatIdles: the heartbeat's own state.
LEMMA HeartbeatIdlesStep ==
  ASSUME TerminalInv, NEW w \in Workers, HeartbeatIdles(w)
  PROVE  TerminalInv'
<1> USE Bounds DEF HeartbeatIdles, TerminalInv, redis, shellVars, countVars, Beating
<1>1. MildTypes
  BY DEF MildTypes, Shapes, Structure, Names, Blank, Gens, Slips, HandleRecords, ListRecords,
         DownRecords, OpRecords, NoHandle, NoOp, NoList, NoDown
<1>2. MildLocals
  BY DEF MildLocals, Shapes, Structure, Names, Blank, Gens, NoHandle, NoOp, NoList, NoDown
<1>3. ASSUME slips' = {}, Core PROVE ShellKept
  BY <1>3 DEF ShellKept, Holds, Shapes, Structure, Names, Blank, Gens, NoHandle, Core, Held,
              AtMostOne, Named, Lists, Ended, Ending, OneBusy
<1>4. ASSUME slips' = {}, Core PROVE ListsKept
  BY <1>4 DEF ListsKept, Holds, Shapes, Structure, Names, Blank, Gens, NoList, Core, Held,
              AtMostOne, Named, Lists, Ending
<1>5. ASSUME slips' = {}, Core PROVE WorkersKept
  BY <1>5 DEF WorkersKept, Shapes, Structure, Names, Blank, Gens, NoHandle, NoDown, Core, Ended
<1> QED BY <1>1, <1>2, <1>3, <1>4, <1>5, Beside DEF MildCore

\* HeartbeatEnds: the heartbeat's own state.
LEMMA HeartbeatEndsStep ==
  ASSUME TerminalInv, NEW w \in Workers, HeartbeatEnds(w)
  PROVE  TerminalInv'
<1> USE Bounds DEF HeartbeatEnds, TerminalInv, redis, shellVars, countVars
<1>1. MildTypes
  BY DEF MildTypes, Shapes, Structure, Names, Blank, Gens, Slips, HandleRecords, ListRecords,
         DownRecords, OpRecords, NoHandle, NoOp, NoList, NoDown
<1>2. MildLocals
  BY DEF MildLocals, Shapes, Structure, Names, Blank, Gens, NoHandle, NoOp, NoList, NoDown
<1>3. ASSUME slips' = {}, Core PROVE ShellKept
  BY <1>3 DEF ShellKept, Holds, Shapes, Structure, Names, Blank, Gens, NoHandle, Core, Held,
              AtMostOne, Named, Lists, Ended, Ending, OneBusy
<1>4. ASSUME slips' = {}, Core PROVE ListsKept
  BY <1>4 DEF ListsKept, Holds, Shapes, Structure, Names, Blank, Gens, NoList, Core, Held,
              AtMostOne, Named, Lists, Ending
<1>5. ASSUME slips' = {}, Core PROVE WorkersKept
  BY <1>5 DEF WorkersKept, Shapes, Structure, Names, Blank, Gens, NoHandle, NoDown, Core, Ended
<1> QED BY <1>1, <1>2, <1>3, <1>4, <1>5, Beside DEF MildCore

\* ReadEof: the shell of the handle has ended.
LEMMA ReadEofStep ==
  ASSUME TerminalInv, NEW w \in Workers, ReadEof(w)
  PROVE  TerminalInv'
<1> USE Bounds DEF ReadEof, TerminalInv, redis, shellVars, countVars
<1>1. MildTypes
  <2>1. [handle[w] EXCEPT !.alive = FALSE] \in HandleRecords
    BY DEF Shapes, Structure, HandleRecords
  <2>2. handle' \in [Workers -> HandleRecords]
    BY <2>1 DEF Shapes
  <2> QED
    BY <2>2 DEF MildTypes, Shapes, Structure, Names, Blank, Gens, Slips
<1>2. MildLocals
  BY DEF MildLocals, Shapes, Structure, Names, Blank, Gens, NoHandle, NoOp, NoList, NoDown
<1>3. ASSUME slips' = {}, Core PROVE ShellKept
  BY <1>3 DEF ShellKept, Holds, Shapes, Structure, Names, Blank, Gens, NoHandle, Core, Held,
              AtMostOne, Named, Lists, Ended, Ending, OneBusy
<1>4. ASSUME slips' = {}, Core PROVE ListsKept
  BY <1>4 DEF ListsKept, Holds, Shapes, Structure, Names, Blank, Gens, NoList, Core, Held,
              AtMostOne, Named, Lists, Ending
<1>5. ASSUME slips' = {}, Core PROVE WorkersKept
  BY <1>5 DEF WorkersKept, Shapes, Structure, Names, Blank, Gens, NoHandle, NoDown, Core, Ended
<1> QED BY <1>1, <1>2, <1>3, <1>4, <1>5, Beside DEF MildCore

\* ShellExits: nothing but the shell.
LEMMA ShellExitsStep ==
  ASSUME TerminalInv, NEW g \in Gens, ShellExits(g)
  PROVE  TerminalInv'
<1> USE Bounds DEF ShellExits, TerminalInv, redis, shellVars, countVars
<1>1. MildTypes
  BY DEF MildTypes, Shapes, Structure, Names, Blank, Gens, Slips, HandleRecords, ListRecords,
         DownRecords, OpRecords, NoHandle, NoOp, NoList, NoDown
<1>2. MildLocals
  BY DEF MildLocals, Shapes, Structure, Names, Blank, Gens, NoHandle, NoOp, NoList, NoDown
<1>3. ASSUME slips' = {}, Core PROVE ShellKept
  BY <1>3 DEF ShellKept, Holds, Shapes, Structure, Names, Blank, Gens, NoHandle, Core, Held,
              AtMostOne, Named, Lists, Ended, Ending, OneBusy
<1>4. ASSUME slips' = {}, Core PROVE ListsKept
  BY <1>4 DEF ListsKept, Holds, Shapes, Structure, Names, Blank, Gens, NoList, Core, Held,
              AtMostOne, Named, Lists, Ending
<1>5. ASSUME slips' = {}, Core PROVE WorkersKept
  BY <1>5 DEF WorkersKept, Shapes, Structure, Names, Blank, Gens, NoHandle, NoDown, Core, Ended
<1> QED BY <1>1, <1>2, <1>3, <1>4, <1>5, Beside DEF MildCore

\* PumpEof: the shell of the key has ended.
LEMMA PumpEofStep ==
  ASSUME TerminalInv, NEW g \in Gens, PumpEof(g)
  PROVE  TerminalInv'
<1> USE Bounds DEF PumpEof, TerminalInv, redis, shellVars, countVars
<1>1. MildTypes
  BY DEF MildTypes, Shapes, Structure, Names, Blank, Gens, Slips, HandleRecords, ListRecords,
         DownRecords, OpRecords, NoHandle, NoOp, NoList, NoDown
<1>2. MildLocals
  BY DEF MildLocals, Shapes, Structure, Names, Blank, Gens, NoHandle, NoOp, NoList, NoDown
<1>3. ASSUME slips' = {}, Core PROVE ShellKept
  BY <1>3 DEF ShellKept, Holds, Shapes, Structure, Names, Blank, Gens, NoHandle, Core, Held,
              AtMostOne, Named, Lists, Ended, Ending, OneBusy
<1>4. ASSUME slips' = {}, Core PROVE ListsKept
  BY <1>4 DEF ListsKept, Holds, Shapes, Structure, Names, Blank, Gens, NoList, Core, Held,
              AtMostOne, Named, Lists, Ending
<1>5. ASSUME slips' = {}, Core PROVE WorkersKept
  BY <1>5 DEF WorkersKept, Shapes, Structure, Names, Blank, Gens, NoHandle, NoDown, Core, Ended
<1> QED BY <1>1, <1>2, <1>3, <1>4, <1>5, Beside DEF MildCore

\* OwnerExpires: the key of a running shell does not expire without a slip.
LEMMA OwnerExpiresStep ==
  ASSUME TerminalInv, OwnerExpires
  PROVE  TerminalInv'
<1> USE Bounds DEF OwnerExpires, TerminalInv, redis, shellVars, countVars, With
<1>1. MildTypes
  BY DEF MildTypes, Shapes, Structure, Names, Blank, Gens, Slips, HandleRecords, ListRecords,
         DownRecords, OpRecords, NoHandle, NoOp, NoList, NoDown
<1>2. MildLocals
  BY DEF MildLocals, Shapes, Structure, Names, Blank, Gens, NoHandle, NoOp, NoList, NoDown
<1>3. ASSUME slips' = {}, Core PROVE ShellKept
  <2>1. owner \notin shells
    <3> SUFFICES ASSUME owner \in shells PROVE FALSE
      OBVIOUS
    <3>1. PICK v \in Workers : Holds(v, owner)
      BY <1>3 DEF Core, Held
    <3> DEFINE held == {u \in Workers : Holds(u, owner)}
    <3>2. held # {}
      BY <3>1
    <3> HIDE DEF held
    <3> QED BY <1>3, <3>2 DEF held
  <2> QED BY <2>1 DEF ShellKept, Holds, Shapes, Gens
<1>4. ASSUME slips' = {}, Core PROVE ListsKept
  BY <1>4 DEF ListsKept, Holds, Shapes, Structure, Names, Blank, Gens, NoList, Core, Held,
              AtMostOne, Named, Lists, Ending
<1>5. ASSUME slips' = {}, Core PROVE WorkersKept
  BY <1>5 DEF WorkersKept, Shapes, Structure, Names, Blank, Gens, NoHandle, NoDown, Core, Ended
<1> QED BY <1>1, <1>2, <1>3, <1>4, <1>5, Beside DEF MildCore

\* WorkerDies: a worker's shells, among them what it was signing, go with it.
LEMMA WorkerDiesStep ==
  ASSUME TerminalInv, NEW w \in Workers, WorkerDies(w)
  PROVE  TerminalInv'
<1> USE Bounds DEF WorkerDies, TerminalInv, redis, shellVars, countVars, Gone
<1>1. MildTypes
  <2>1. NoHandle \in HandleRecords /\ NoOp \in OpRecords /\ NoList \in ListRecords
        /\ NoDown \in DownRecords
    BY Bounds DEF NoHandle, NoOp, NoList, NoDown, HandleRecords, OpRecords, Pcs, ListRecords,
                  DownRecords, Blank
  <2>2. /\ handle' \in [Workers -> HandleRecords] /\ op' \in [Workers -> OpRecords]
        /\ lst' \in [Workers -> ListRecords] /\ down' \in [Workers -> DownRecords]
    BY <2>1 DEF Shapes
  <2>3. /\ up' \in [Workers -> BOOLEAN] /\ hb' \in [Workers -> {"none", "on", "leaving"}]
        /\ pump' \in [Gens -> {"new", "on", "off"}] /\ shells' \subseteq shells
    BY DEF Shapes
  <2>4. meta' \in Names /\ slips \subseteq slips' /\ slips' \subseteq Slips
    BY DEF Shapes, Structure, Names, Slips
  <2> QED
    BY <2>2, <2>3, <2>4 DEF MildTypes, Shapes, Structure
<1>2. MildLocals
  BY DEF MildLocals, Shapes, Structure, Names, Blank, Gens, NoHandle, NoOp, NoList, NoDown
<1>3. ASSUME slips' = {}, Core PROVE ShellKept
  BY <1>3 DEF ShellKept, Holds, Shapes, Structure, Names, Blank, Gens, NoHandle, Core, Held,
              AtMostOne, Named, Lists, Ended, Ending, OneBusy
<1>4. ASSUME slips' = {}, Core PROVE ListsKept
  BY <1>4 DEF ListsKept, Holds, Shapes, Structure, Names, Blank, Gens, NoList, Core, Held,
              AtMostOne, Named, Lists, Ending
<1>5. ASSUME slips' = {}, Core PROVE WorkersKept
  BY <1>5 DEF WorkersKept, Shapes, Structure, Names, Blank, Gens, NoHandle, NoDown, Core, Ended
<1> QED BY <1>1, <1>2, <1>3, <1>4, <1>5, Beside DEF MildCore

\* WorkerReturns: it comes back with nothing.
LEMMA WorkerReturnsStep ==
  ASSUME TerminalInv, NEW w \in Workers, WorkerReturns(w)
  PROVE  TerminalInv'
<1> USE Bounds DEF WorkerReturns, TerminalInv, redis, shellVars, countVars
<1>1. MildTypes
  BY DEF MildTypes, Shapes, Structure, Names, Blank, Gens, Slips, HandleRecords, ListRecords,
         DownRecords, OpRecords, NoHandle, NoOp, NoList, NoDown
<1>2. MildLocals
  BY DEF MildLocals, Shapes, Structure, Names, Blank, Gens, NoHandle, NoOp, NoList, NoDown
<1>3. ASSUME slips' = {}, Core PROVE ShellKept
  BY <1>3 DEF ShellKept, Holds, Shapes, Structure, Names, Blank, Gens, NoHandle, Core, Held,
              AtMostOne, Named, Lists, Ended, Ending, OneBusy
<1>4. ASSUME slips' = {}, Core PROVE ListsKept
  BY <1>4 DEF ListsKept, Holds, Shapes, Structure, Names, Blank, Gens, NoList, Core, Held,
              AtMostOne, Named, Lists, Ending
<1>5. ASSUME slips' = {}, Core PROVE WorkersKept
  BY <1>5 DEF WorkersKept, Shapes, Structure, Names, Blank, Gens, NoHandle, NoDown, Core, Ended
<1> QED BY <1>1, <1>2, <1>3, <1>4, <1>5, Beside DEF MildCore

\* BeginCleanup: a shutdown kills the shell of its handle.
LEMMA BeginCleanupStep ==
  ASSUME TerminalInv, NEW w \in Workers, BeginCleanup(w)
  PROVE  TerminalInv'
<1> USE Bounds DEF BeginCleanup, TerminalInv, redis, shellVars, countVars, KillOwn
<1>1. MildTypes
  <2>1. [handle[w] EXCEPT !.alive = FALSE] \in HandleRecords
    BY DEF Shapes, HandleRecords
  <2>2. handle' \in [Workers -> HandleRecords]
    BY <2>1 DEF Shapes
  <2>3. handle[w].gen \in Gens
    BY DEF Shapes, Structure
  <2>4. [pc |-> "clear", gen |-> handle[w].gen] \in DownRecords
    BY <2>3 DEF DownRecords, Gens
  <2>5. down' \in [Workers -> DownRecords]
    BY <2>4 DEF Shapes
  <2>6. pump' \in [Gens -> {"new", "on", "off"}]
    BY <2>3 DEF Shapes
  <2> QED
    BY <2>2, <2>5, <2>6 DEF MildTypes, Shapes, Structure
<1>2. MildLocals
  BY DEF MildLocals, Shapes, Structure, Names, Blank, Gens, NoHandle, NoOp, NoList, NoDown
<1>3. ASSUME slips' = {}, Core PROVE ShellKept
  BY <1>3 DEF ShellKept, Holds, Shapes, Structure, Names, Blank, Gens, NoHandle, Core, Held,
              AtMostOne, Named, Lists, Ended, Ending, OneBusy
<1>4. ASSUME slips' = {}, Core PROVE ListsKept
  BY <1>4 DEF ListsKept, Holds, Shapes, Structure, Names, Blank, Gens, NoList, Core, Held,
              AtMostOne, Named, Lists, Ending
<1>5. ASSUME slips' = {}, Core PROVE WorkersKept
  BY <1>5 DEF WorkersKept, Shapes, Structure, Names, Blank, Gens, NoHandle, NoDown, Core, Ended
<1> QED BY <1>1, <1>2, <1>3, <1>4, <1>5, Beside DEF MildCore

\* CleanupClear: that shell's key and streams go.
LEMMA CleanupClearStep ==
  ASSUME TerminalInv, NEW w \in Workers, CleanupClear(w)
  PROVE  TerminalInv'
<1> USE Bounds DEF CleanupClear, TerminalInv, redis, shellVars, countVars, DropStreams
<1>1. MildTypes
  BY DEF MildTypes, Shapes, Structure, Names, Blank, Gens, Slips, HandleRecords, ListRecords,
         DownRecords, OpRecords, NoHandle, NoOp, NoList, NoDown
<1>2. MildLocals
  BY DEF MildLocals, Shapes, Structure, Names, Blank, Gens, NoHandle, NoOp, NoList, NoDown
<1>3. ASSUME slips' = {}, Core PROVE ShellKept
  BY <1>3 DEF ShellKept, Holds, Shapes, Structure, Names, Blank, Gens, NoHandle, Core, Held,
              AtMostOne, Named, Lists, Ended, Ending, OneBusy
<1>4. ASSUME slips' = {}, Core PROVE ListsKept
  BY <1>4 DEF ListsKept, Holds, Shapes, Structure, Names, Blank, Gens, NoList, Core, Held,
              AtMostOne, Named, Lists, Ending
<1>5. ASSUME slips' = {}, Core PROVE WorkersKept
  BY <1>5 DEF WorkersKept, Shapes, Structure, Names, Blank, Gens, NoHandle, NoDown, Core, Ended
<1> QED BY <1>1, <1>2, <1>3, <1>4, <1>5, Beside DEF MildCore

\* CleanupForget: and its hash, if it has not been evicted.
LEMMA CleanupForgetStep ==
  ASSUME TerminalInv, NEW w \in Workers, CleanupForget(w)
  PROVE  TerminalInv'
<1> USE Bounds DEF CleanupForget, TerminalInv, redis, shellVars, countVars, Gone, With
<1>1. MildTypes
  <2>1. NoHandle \in HandleRecords /\ NoOp \in OpRecords /\ NoList \in ListRecords
        /\ NoDown \in DownRecords
    BY Bounds DEF NoHandle, NoOp, NoList, NoDown, HandleRecords, OpRecords, Pcs, ListRecords,
                  DownRecords, Blank
  <2>2. /\ handle' \in [Workers -> HandleRecords] /\ op' \in [Workers -> OpRecords]
        /\ lst' \in [Workers -> ListRecords] /\ down' \in [Workers -> DownRecords]
    BY <2>1 DEF Shapes
  <2>3. /\ up' \in [Workers -> BOOLEAN] /\ hb' \in [Workers -> {"none", "on", "leaving"}]
        /\ pump' \in [Gens -> {"new", "on", "off"}] /\ shells' \subseteq shells
    BY DEF Shapes
  <2>4. meta' \in Names /\ slips \subseteq slips' /\ slips' \subseteq Slips
    BY DEF Shapes, Structure, Names, Slips
  <2> QED
    BY <2>2, <2>3, <2>4 DEF MildTypes, Shapes, Structure
<1>2. MildLocals
  BY DEF MildLocals, Shapes, Structure, Names, Blank, Gens, NoHandle, NoOp, NoList, NoDown
<1>3. ASSUME slips' = {}, Core PROVE ShellKept
  <2> SUFFICES ASSUME NEW g \in shells'
               PROVE  /\ g \in torn' => g \in torn
                      /\ \A v \in Workers : Holds(v, g) => Holds(v, g)'
                      /\ owner = g => owner' = g
                      /\ meta = g => meta' = g
                      /\ meta' = g => meta = g \/ owner' = g
    BY DEF ShellKept
  <2>1. g \in shells /\ g \in Gens /\ g # 0 /\ g \notin forked[w]
    BY DEF Shapes, Gens
  <2>2. meta # g
    BY <1>3, <2>1 DEF Core, Ended
  <2>3. ASSUME NEW v \in Workers, Holds(v, g) PROVE Holds(v, g)'
    <3>1. v # w
      BY <2>1, <2>3 DEF Holds, Structure
    <3> QED BY <2>3, <3>1 DEF Holds, Shapes
  <2> QED BY <2>1, <2>2, <2>3
<1>4. ASSUME slips' = {}, Core PROVE ListsKept
  BY <1>4 DEF ListsKept, Holds, Shapes, Structure, Names, Blank, Gens, NoList, Core, Held,
              AtMostOne, Named, Lists, Ending
<1>5. ASSUME slips' = {}, Core PROVE WorkersKept
  BY <1>5 DEF WorkersKept, Shapes, Structure, Names, Blank, Gens, NoHandle, NoDown, Core, Ended
<1> QED BY <1>1, <1>2, <1>3, <1>4, <1>5, Beside DEF MildCore

-----------------------------------------------------------------------------
(* Steps of an operation *)

\* A step to another place in an operation leaves it one.
LEMMA OpTyped ==
  ASSUME Shapes, NEW w \in Workers, NEW p \in Pcs, op' = [op EXCEPT ![w].pc = p]
  PROVE  op' \in [Workers -> OpRecords]
<1>1. op[w] \in OpRecords
  BY DEF Shapes
<1>2. [op[w] EXCEPT !.pc = p] \in OpRecords
  BY <1>1 DEF OpRecords
<1>3. op' = [op EXCEPT ![w] = [op[w] EXCEPT !.pc = p]]
  OBVIOUS
<1> HIDE DEF OpRecords
<1> QED BY <1>2, <1>3 DEF Shapes

\* So does any operation, and any handle, that is put in place.
LEMMA RecordsPut ==
  ASSUME Shapes, NEW w \in Workers
  PROVE  /\ \A o \in OpRecords : [op EXCEPT ![w] = o] \in [Workers -> OpRecords]
         /\ \A h \in HandleRecords : [handle EXCEPT ![w] = h] \in [Workers -> HandleRecords]
<1> HIDE DEF OpRecords, HandleRecords
<1> QED BY DEF Shapes

\* Create: nothing has been forked, so nobody restarts or removes.
LEMMA CreateStep ==
  ASSUME TerminalInv, NEW w \in Workers, Create(w)
  PROVE  TerminalInv'
<1> USE Bounds DEF Create, TerminalInv, At, redis, shellVars, countVars, NoOp
<1>1. Shapes'
  <2> DEFINE o == [NoOp EXCEPT !.pc = "claim", !.kind = "create"]
  <2>1. NoOp \in OpRecords
    BY DEF NoOp, OpRecords, Pcs, Blank
  <2>2. o \in OpRecords
    <3> HIDE DEF NoOp, Create
    <3> QED BY <2>1 DEF OpRecords, Pcs, Mutators
  <2>3. op' \in [Workers -> OpRecords]
    <3>1. op' = [op EXCEPT ![w] = o]
      OBVIOUS
    <3> HIDE DEF o, Create
    <3> QED BY <2>2, <3>1, RecordsPut
  <2> QED BY <2>3 DEF Shapes
<1>2. Structure'
  BY DEF Shapes, Structure, Names, Blank, Gens, NoHandle, NoOp, Mutators, OpRecords
<1>3. ASSUME slips' = {} PROVE Core'
  <2>1. Core
    BY <1>3
  <2>2. shells' = {}
    BY <2>1 DEF Core, Ending, Structure
  <2>3. OneBusy'
    BY <2>1 DEF Core, OneBusy, Busy, Mutators, Structure, Shapes, NoOp
  <2>4. \A v \in Workers :
          /\ op'[v].pc # "wait"
          /\ op'[v].pc = "claim" => ~claim'
          /\ op'[v].pc \notin {"idle", "describe", "sign"} => ~handle'[v].own
          /\ handle'[v].gen # Blank
    BY <2>1 DEF Core, Held, Ending, OneBusy, Busy, Mutators, Ended, Structure, Shapes, NoOp
  <2> QED BY <2>2, <2>3, <2>4, NoShell
<1> QED BY <1>1, <1>2, <1>3

\* Claim: the claim is free and becomes the creator's.
LEMMA ClaimStep ==
  ASSUME TerminalInv, NEW w \in Workers, Claim(w)
  PROVE  TerminalInv'
<1> USE Bounds DEF Claim, TerminalInv, At, redis, shellVars, countVars, Goto
<1>1. Shapes'
  <2>1. (IF claim THEN "wait" ELSE "fork") \in Pcs
    BY DEF Pcs
  <2>2. op' \in [Workers -> OpRecords]
    BY <2>1, OpTyped
  <2> QED BY <2>2 DEF Shapes, Structure, Names, Blank, Gens
<1>2. Structure'
  BY DEF Shapes, Structure, Names, Blank, Gens, NoHandle, NoOp, Mutators, OpRecords
<1>3. ASSUME slips' = {} PROVE Core'
  <2>1. Core
    BY <1>3
  <2>2. shells' = {}
    BY <2>1 DEF Core, Ending, Structure
  <2>3. OneBusy'
    BY <2>1 DEF Core, OneBusy, Busy, Mutators, Structure, Shapes, NoOp
  <2>4. \A v \in Workers :
          /\ op'[v].pc # "wait"
          /\ op'[v].pc = "claim" => ~claim'
          /\ op'[v].pc \notin {"idle", "describe", "sign"} => ~handle'[v].own
          /\ handle'[v].gen # Blank
    BY <2>1 DEF Core, Held, Ending, OneBusy, Busy, Mutators, Ended, Structure, Shapes, NoOp
  <2> QED BY <2>2, <2>3, <2>4, NoShell
<1> QED BY <1>1, <1>2, <1>3

\* Fork: the one shell, under a name that no key, list or shutdown has.
LEMMA ForkStep ==
  ASSUME TerminalInv, NEW w \in Workers, Fork(w)
  PROVE  TerminalInv'
<1> USE Bounds DEF Fork, TerminalInv, At, redis, shellVars, countVars, DropStreams
<1>1. Shapes'
  <2> DEFINE g == made + 1
             o == [op[w] EXCEPT !.pc = "describe", !.gen = g]
             h == [gen |-> g, own |-> TRUE, alive |-> TRUE]
  <2>1. g \in Gens /\ g \in 0 .. Blank /\ op[w] \in OpRecords
    BY DEF Shapes, Gens, Blank
  <2>2. o \in OpRecords
    BY <2>1 DEF OpRecords, Pcs
  <2>3. h \in HandleRecords
    BY <2>1 DEF HandleRecords
  <2>4. op' = [op EXCEPT ![w] = o] /\ handle' = [handle EXCEPT ![w] = h]
    OBVIOUS
  <2> HIDE DEF o, h
  <2>a. op' \in [Workers -> OpRecords]
    <3> HIDE DEF Fork, OpRecords
    <3> QED BY <2>2, <2>4, RecordsPut
  <2>5. op' \in [Workers -> OpRecords] /\ handle' \in [Workers -> HandleRecords]
    <3> HIDE DEF Fork, HandleRecords
    <3> QED BY <2>3, <2>4, <2>a, RecordsPut
  <2> QED BY <2>1, <2>5 DEF Shapes, Gens
<1>2. Structure'
  BY DEF Shapes, Structure, Names, Blank, Gens, NoHandle, NoOp, Mutators, OpRecords
<1>3. ASSUME slips' = {} PROVE Core'
  <2>1. Core
    BY <1>3
  <2>2. \A v \in Workers : v # w => op[v].pc = "idle" /\ op'[v].pc = "idle"
    BY <2>1 DEF Core, OneBusy, Busy, Structure, Mutators, Shapes
  <2>3. Held'
    BY <2>1, <2>2 DEF Core, Held, Ending, Holds, Shapes
  <2>4. OneBusy'
    BY <2>2 DEF OneBusy, Busy, Mutators, NoOp, Structure, Shapes
  <2>5. Ending'
    BY <2>1, <2>2 DEF Core, Ending, Shapes, NoOp
  <2>6. AtMostOne'
    BY <2>1 DEF Core, AtMostOne, Ending
  <2>7. Named'
    BY <2>1, <2>2 DEF Core, Named, Ending, Shapes, Structure, Names, Blank, Gens
  <2>8. Lists'
    BY <2>1, <2>2 DEF Core, Lists, Named, Ending, Shapes, Structure, Names, Blank, Gens
  <2>9. Ended' /\ Untorn'
    BY <2>1 DEF Core, Ended, Untorn, Ending, Shapes, Structure, Names, Blank, Gens
  <2> QED BY <2>3, <2>4, <2>5, <2>6, <2>7, <2>8, <2>9 DEF Core
<1> QED BY <1>1, <1>2, <1>3

\* Describe: the hash names the one shell.
LEMMA DescribeStep ==
  ASSUME TerminalInv, NEW w \in Workers, Describe(w)
  PROVE  TerminalInv'
<1> USE Bounds DEF Describe, TerminalInv, At, redis, shellVars, countVars, Goto
<1>1. Shapes'
  <2>1. "sign" \in Pcs
    BY DEF Pcs
  <2>2. op' \in [Workers -> OpRecords]
    BY <2>1, OpTyped
  <2> QED BY <2>2 DEF Shapes, Structure, Names, Blank, Gens
<1>2. Structure'
  BY DEF Shapes, Structure, Names, Blank, Gens, NoHandle, NoOp, Mutators, OpRecords
<1>3. ASSUME slips' = {} PROVE Core'
  <2>1. Core
    BY <1>3
  <2>2. \A v \in Workers : v # w => op[v].pc = "idle" /\ op'[v].pc = "idle"
    BY <2>1 DEF Core, OneBusy, Busy, Structure, Mutators, Shapes
  <2>3. Held'
    BY <2>1, <2>2 DEF Core, Held, Ending, Holds, Shapes
  <2>4. OneBusy'
    BY <2>2 DEF OneBusy, Busy, Mutators, NoOp, Structure, Shapes
  <2>5. Ending'
    BY <2>1, <2>2 DEF Core, Ending, Shapes, NoOp
  <2>6. AtMostOne'
    BY <2>1 DEF Core, AtMostOne, Ending
  <2>7. Named'
    BY <2>1, <2>2 DEF Core, Named, Ending, Shapes, Structure, Names, Blank, Gens
  <2>8. Lists'
    BY <2>1, <2>2 DEF Core, Lists, Named, Ending, Shapes, Structure, Names, Blank, Gens
  <2>9. Ended' /\ Untorn'
    BY <2>1 DEF Core, Ended, Untorn, Ending, Shapes, Structure, Names, Blank, Gens
  <2> QED BY <2>3, <2>4, <2>5, <2>6, <2>7, <2>8, <2>9 DEF Core
<1> QED BY <1>1, <1>2, <1>3

\* Sign: and so does the owner key.
LEMMA SignStep ==
  ASSUME TerminalInv, NEW w \in Workers, Sign(w)
  PROVE  TerminalInv'
<1> USE Bounds DEF Sign, TerminalInv, At, redis, shellVars, countVars, Finish, HeartbeatEnsured
<1>1. Shapes'
  BY DEF Shapes, Structure, OpRecords, Pcs, Mutators, HandleRecords, NoHandle, NoOp, Names,
         Blank, Gens, Slips
<1>2. Structure'
  BY DEF Shapes, Structure, Names, Blank, Gens, NoHandle, NoOp, Mutators, OpRecords
<1>3. ASSUME slips' = {} PROVE Core'
  <2>1. Core
    BY <1>3
  <2>2. \A v \in Workers : v # w => op[v].pc = "idle" /\ op'[v].pc = "idle"
    BY <2>1 DEF Core, OneBusy, Busy, Structure, Mutators, Shapes
  <2>3. Held'
    BY <2>1, <2>2 DEF Core, Held, Ending, Holds, Shapes, NoOp
  <2>4. OneBusy'
    BY <2>2 DEF OneBusy, Busy, Mutators, NoOp, Structure, Shapes
  <2>5. Ending'
    BY <2>1, <2>2 DEF Core, Ending, Shapes, NoOp
  <2>6. AtMostOne'
    BY <2>1 DEF Core, AtMostOne, Ending
  <2>7. Named'
    BY <2>1, <2>2 DEF Core, Named, Ending, Shapes, Structure, Names, Blank, Gens
  <2>8. Lists'
    BY <2>1, <2>2 DEF Core, Lists, Named, Ending, Shapes, Structure, Names, Blank, Gens
  <2>9. Ended' /\ Untorn'
    BY <2>1 DEF Core, Ended, Untorn, Ending, Shapes, Structure, Names, Blank, Gens
  <2> QED BY <2>3, <2>4, <2>5, <2>6, <2>7, <2>8, <2>9 DEF Core
<1> QED BY <1>1, <1>2, <1>3

\* AdoptWinner: without a slip nobody waits.
LEMMA AdoptWinnerStep ==
  ASSUME TerminalInv, NEW w \in Workers, AdoptWinner(w)
  PROVE  TerminalInv'
<1> USE Bounds DEF AdoptWinner, TerminalInv, At, redis, shellVars, countVars, Finish, Remote
<1>1. Shapes'
  BY DEF Shapes, Structure, OpRecords, Pcs, Mutators, HandleRecords, NoHandle, NoOp, Names,
         Blank, Gens, Slips
<1>2. Structure'
  BY DEF Shapes, Structure, Names, Blank, Gens, NoHandle, NoOp, Mutators, OpRecords
<1>3. ASSUME slips' = {} PROVE Core'
  BY <1>3 DEF Core, Ending
<1> QED BY <1>1, <1>2, <1>3

\* WaitedOut: nor waits in vain.
LEMMA WaitedOutStep ==
  ASSUME TerminalInv, NEW w \in Workers, WaitedOut(w)
  PROVE  TerminalInv'
<1> USE Bounds DEF WaitedOut, TerminalInv, At, redis, shellVars, countVars, Finish, Remote
<1>1. Shapes'
  BY DEF Shapes, Structure, OpRecords, Pcs, Mutators, HandleRecords, NoHandle, NoOp, Names,
         Blank, Gens, Slips
<1>2. Structure'
  BY DEF Shapes, Structure, Names, Blank, Gens, NoHandle, NoOp, Mutators, OpRecords
<1>3. ASSUME slips' = {} PROVE Core'
  BY <1>3 DEF Core, Ending
<1> QED BY <1>1, <1>2, <1>3

\* CheckOwner: a shell without an owner key is none.
LEMMA CheckOwnerStep ==
  ASSUME TerminalInv, NEW w \in Workers, CheckOwner(w)
  PROVE  TerminalInv'
<1> USE Bounds DEF CheckOwner, TerminalInv, At, redis, shellVars, countVars, Goto
<1>1. Shapes'
  <2>1. (IF owner = 0 THEN "clear" ELSE "kill") \in Pcs
    BY DEF Pcs
  <2>2. op' \in [Workers -> OpRecords]
    BY <2>1, OpTyped
  <2> QED BY <2>2 DEF Shapes, Structure, Names, Blank, Gens
<1>2. Structure'
  BY DEF Shapes, Structure, Names, Blank, Gens, NoHandle, NoOp, Mutators, OpRecords
<1>3. ASSUME slips' = {} PROVE Core'
  <2>1. Core
    BY <1>3
  <2>2. \A v \in Workers : v # w => op[v].pc = "idle" /\ op'[v].pc = "idle"
    BY <2>1 DEF Core, OneBusy, Busy, Structure, Mutators, Shapes
  <2>3. Held'
    BY <2>1, <2>2 DEF Core, Held, Ending, Holds, Shapes
  <2>4. OneBusy'
    BY <2>2 DEF OneBusy, Busy, Mutators, NoOp, Structure, Shapes
  <2>a. owner = 0 => shells = {}
    BY <2>1, <2>2 DEF Core, Named, Shapes, Gens
  <2>5. Ending'
    BY <2>1, <2>2, <2>a DEF Core, Ending, Shapes
  <2>6. AtMostOne'
    BY <2>1 DEF Core, AtMostOne, Ending
  <2>7. Named'
    BY <2>1, <2>2 DEF Core, Named, Ending, Shapes, Structure, Names, Blank, Gens
  <2>8. Lists'
    BY <2>1, <2>2 DEF Core, Lists, Named, Ending, Shapes, Structure, Names, Blank, Gens
  <2>9. Ended' /\ Untorn'
    BY <2>1 DEF Core, Ended, Untorn, Ending, Shapes, Structure, Names, Blank, Gens
  <2> QED BY <2>3, <2>4, <2>5, <2>6, <2>7, <2>8, <2>9 DEF Core
<1> QED BY <1>1, <1>2, <1>3

\* KillTree: the one shell there can be is the one to end.
LEMMA KillTreeStep ==
  ASSUME TerminalInv, NEW w \in Workers, KillTree(w)
  PROVE  TerminalInv'
<1> USE Bounds DEF KillTree, TerminalInv, At, redis, shellVars, countVars, Goto
<1>1. Shapes'
  <2>1. "clear" \in Pcs
    BY DEF Pcs
  <2>2. op' \in [Workers -> OpRecords]
    BY <2>1, OpTyped
  <2> QED BY <2>2 DEF Shapes, Structure, Names, Blank, Gens
<1>2. Structure'
  BY DEF Shapes, Structure, Names, Blank, Gens, NoHandle, NoOp, Mutators, OpRecords
<1>3. ASSUME slips' = {} PROVE Core'
  <2>1. Core
    BY <1>3
  <2>2. shells' = {}
    BY <2>1 DEF Core, Ending, Structure
  <2>3. OneBusy'
    BY <2>1 DEF Core, OneBusy, Busy, Mutators, Structure, Shapes, NoOp
  <2>4. \A v \in Workers :
          /\ op'[v].pc # "wait"
          /\ op'[v].pc = "claim" => ~claim'
          /\ op'[v].pc \notin {"idle", "describe", "sign"} => ~handle'[v].own
          /\ handle'[v].gen # Blank
    BY <2>1 DEF Core, Held, Ending, OneBusy, Busy, Mutators, Ended, Structure, Shapes, NoOp
  <2> QED BY <2>2, <2>3, <2>4, NoShell
<1> QED BY <1>1, <1>2, <1>3

\* ClearOwner: the key of no shell.
LEMMA ClearOwnerStep ==
  ASSUME TerminalInv, NEW w \in Workers, ClearOwner(w)
  PROVE  TerminalInv'
<1> USE Bounds DEF ClearOwner, TerminalInv, At, redis, shellVars, countVars, Goto, DropStreams
<1>1. Shapes'
  <2>1. "release" \in Pcs
    BY DEF Pcs
  <2>2. op' \in [Workers -> OpRecords]
    BY <2>1, OpTyped
  <2> QED BY <2>2 DEF Shapes, Structure, Names, Blank, Gens
<1>2. Structure'
  BY DEF Shapes, Structure, Names, Blank, Gens, NoHandle, NoOp, Mutators, OpRecords
<1>3. ASSUME slips' = {} PROVE Core'
  <2>1. Core
    BY <1>3
  <2>2. shells' = {}
    BY <2>1 DEF Core, Ending, Structure
  <2>3. OneBusy'
    BY <2>1 DEF Core, OneBusy, Busy, Mutators, Structure, Shapes, NoOp
  <2>4. \A v \in Workers :
          /\ op'[v].pc # "wait"
          /\ op'[v].pc = "claim" => ~claim'
          /\ op'[v].pc \notin {"idle", "describe", "sign"} => ~handle'[v].own
          /\ handle'[v].gen # Blank
    BY <2>1 DEF Core, Held, Ending, OneBusy, Busy, Mutators, Ended, Structure, Shapes, NoOp
  <2> QED BY <2>2, <2>3, <2>4, NoShell
<1> QED BY <1>1, <1>2, <1>3

\* ReleaseClaim: the claim is free for the restart that goes on.
LEMMA ReleaseClaimStep ==
  ASSUME TerminalInv, NEW w \in Workers, ReleaseClaim(w)
  PROVE  TerminalInv'
<1> USE Bounds DEF ReleaseClaim, TerminalInv, At, redis, shellVars, countVars, Goto,
        HeartbeatEnsured
<1>1. Shapes'
  <2>1. (IF op[w].kind = "restart" THEN "claim" ELSE "forget") \in Pcs
    BY DEF Pcs
  <2>2. op' \in [Workers -> OpRecords]
    BY <2>1, OpTyped
  <2> QED BY <2>2 DEF Shapes, Structure, Names, Blank, Gens
<1>p. /\ op'[w].pc = IF op[w].kind = "restart" THEN "claim" ELSE "forget"
      /\ op'[w].kind = op[w].kind /\ op'[w].gen = op[w].gen
      /\ \A v \in Workers : v # w => op'[v] = op[v]
  <2>1. CASE op[w].kind = "restart"
    BY <2>1 DEF Shapes, OpRecords
  <2>2. CASE op[w].kind # "restart"
    BY <2>2 DEF Shapes, OpRecords
  <2> QED BY <2>1, <2>2
<1>2. Structure'
  BY <1>p DEF Structure, Names, Blank
<1>3. ASSUME slips' = {} PROVE Core'
  <2>1. Core
    BY <1>3
  <2>2. shells' = {}
    BY <2>1 DEF Core, Ending, Structure
  <2>3. OneBusy'
    BY <2>1 DEF Core, OneBusy, Busy, Mutators, Structure, Shapes, NoOp
  <2>4. \A v \in Workers :
          /\ op'[v].pc # "wait"
          /\ op'[v].pc = "claim" => ~claim'
          /\ op'[v].pc \notin {"idle", "describe", "sign"} => ~handle'[v].own
          /\ handle'[v].gen # Blank
    BY <1>p, <2>1 DEF Core, Held, Ending, OneBusy, Busy, Mutators, Ended, Structure, Shapes, NoOp
  <2> QED BY <2>2, <2>3, <2>4, NoShell
<1> QED BY <1>1, <1>2, <1>3

\* ForgetMeta: the hash of no shell.
LEMMA ForgetMetaStep ==
  ASSUME TerminalInv, NEW w \in Workers, ForgetMeta(w)
  PROVE  TerminalInv'
<1> USE Bounds DEF ForgetMeta, TerminalInv, At, redis, shellVars, countVars, Finish
<1>1. Shapes'
  BY DEF Shapes, Structure, OpRecords, Pcs, Mutators, HandleRecords, NoHandle, NoOp, Names,
         Blank, Gens, Slips
<1>2. Structure'
  BY DEF Shapes, Structure, Names, Blank, Gens, NoHandle, NoOp, Mutators, OpRecords
<1>3. ASSUME slips' = {} PROVE Core'
  <2>1. Core
    BY <1>3
  <2>2. shells' = {}
    BY <2>1 DEF Core, Ending, Structure
  <2>3. OneBusy'
    BY <2>1 DEF Core, OneBusy, Busy, Mutators, Structure, Shapes, NoOp
  <2>4. \A v \in Workers :
          /\ op'[v].pc # "wait"
          /\ op'[v].pc = "claim" => ~claim'
          /\ op'[v].pc \notin {"idle", "describe", "sign"} => ~handle'[v].own
          /\ handle'[v].gen # Blank
    BY <2>1 DEF Core, Held, Ending, OneBusy, Busy, Mutators, Ended, Structure, Shapes, NoOp
  <2> QED BY <2>2, <2>3, <2>4, NoShell
<1> QED BY <1>1, <1>2, <1>3

-----------------------------------------------------------------------------
(* The beginning of an end *)

\* Without a slip nobody else is at work on the terminal and the handle, if it is one,
\* is onto what the hash names: then a shell that runs is this one, and it is killed on
\* the spot or remembered as the one to end.
LEMMA BeginEndStep ==
  ASSUME TerminalInv, NEW w \in Workers, NEW kind \in {"restart", "remove"},
         BeginEnd(w, kind)
  PROVE  TerminalInv'
<1> USE Bounds DEF TerminalInv
<1> DEFINE h == handle[w]
           g == IF h.gen # 0 THEN h.gen ELSE meta
           p == IF ~h.own /\ g \in Gens THEN "check" ELSE "clear"
           o == [pc |-> p, kind |-> kind, gen |-> g]
<1>1. /\ made > 0 /\ up[w] /\ op[w].pc = "idle"
      /\ op' = [op EXCEPT ![w] = o]
      /\ handle' = [handle EXCEPT ![w] = NoHandle]
      /\ shells' = IF h.own THEN shells \ {h.gen} ELSE shells
      /\ pump' = IF h.own THEN [pump EXCEPT ![h.gen] = "off"] ELSE pump
      /\ slips' = With("raced", \E v \in Workers \ {w} : Busy(v))
                    \union With("stale", h.gen \in Gens /\ meta # 0 /\ meta # h.gen)
      /\ UNCHANGED <<meta, owner, claim, made, forked, torn, up, lst, hb, down>>
  BY DEF BeginEnd, At, KillOwn, redis
<1>2. h \in HandleRecords /\ h.gen \in Names /\ g \in Names /\ g \in 0 .. Blank
  BY DEF Shapes, Structure, Names, Blank
<1>3. h.own => h.gen \in Gens /\ h.gen \in 1 .. made
  BY DEF Shapes, Structure
<1>4. o \in OpRecords /\ o.pc = p /\ o.kind = kind /\ o.gen = g
  BY <1>2 DEF OpRecords, Pcs, Mutators
<1>5. NoHandle \in HandleRecords /\ NoHandle.gen = 0 /\ ~NoHandle.own
  BY DEF NoHandle, HandleRecords, Blank
<1>6. p \in {"check", "clear"}
  OBVIOUS
<1> HIDE DEF o, p, g, h
<1>7. Shapes'
  <2>1. op' \in [Workers -> OpRecords] /\ handle' \in [Workers -> HandleRecords]
    BY <1>1, <1>4, <1>5, RecordsPut
  <2>2. slips' \subseteq Slips
    BY <1>1 DEF With, Slips, Shapes
  <2>3. shells' \subseteq Gens /\ pump' \in [Gens -> {"new", "on", "off"}]
    BY <1>1, <1>3 DEF Shapes
  <2> QED BY <1>1, <2>1, <2>2, <2>3 DEF Shapes
<1>8. /\ op'[w] = o /\ \A v \in Workers : v # w => op'[v] = op[v]
      /\ handle'[w] = NoHandle /\ \A v \in Workers : v # w => handle'[v] = handle[v]
  BY <1>1 DEF Shapes
<1>9. Structure'
  <2>1. shells' \subseteq 1 .. made' /\ Names' = Names
    BY <1>1 DEF Structure, Names, Blank
  <2>2. ASSUME NEW v \in Workers
        PROVE  /\ handle'[v].own => handle'[v].gen \in forked'[v]
               /\ handle'[v].gen \in Names /\ op'[v].gen \in Names
               /\ op'[v].kind \in Mutators <=> op'[v].pc # "idle"
               /\ op'[v].kind \in {"restart", "remove"} => made > 0
               /\ op'[v].pc \in {"describe", "sign"} => op'[v].gen \in forked[v]
    <3>1. CASE v = w
      BY <1>1, <1>2, <1>4, <1>5, <1>6, <1>8, <3>1 DEF Names, Structure, Shapes, Mutators
    <3>2. CASE v # w
      BY <1>1, <1>8, <3>2 DEF Structure
    <3> QED BY <3>1, <3>2
  <2> QED BY <1>1, <2>1, <2>2 DEF Structure
<1>10. ASSUME slips' = {} PROVE Core'
  <2>1. Core
    BY <1>1, <1>10 DEF With
  <2>2. /\ \A v \in Workers : v # w => ~Busy(v)
        /\ ~(h.gen \in Gens /\ meta # 0 /\ meta # h.gen)
    BY <1>1, <1>10 DEF With
  <2>3. \A v \in Workers : op[v].pc = "idle"
    BY <1>1, <2>2 DEF Busy, Structure
  <2>4. \A s \in shells : s # 0 /\ s \in Gens /\ meta = s /\ owner = s
    BY <2>1, <2>3 DEF Core, Named, Shapes, Gens
  <2>5. OneBusy'
    BY <1>8, <2>3 DEF OneBusy, Busy, Structure
  <2>6. CASE shells' = {}
    <3>1. \A v \in Workers :
            /\ op'[v].pc # "wait"
            /\ op'[v].pc = "claim" => ~claim'
            /\ op'[v].pc \notin {"idle", "describe", "sign"} => ~handle'[v].own
            /\ handle'[v].gen # Blank
      BY <1>4, <1>5, <1>6, <1>8, <2>1, <2>3 DEF Core, Ended, Blank
    <3> QED BY <2>5, <2>6, <3>1, NoShell
  <2>7. CASE shells' # {}
    <3>1. ~h.own /\ shells' = shells
      BY <1>1, <1>3, <2>2, <2>4, <2>7
    <3>2. \A s \in shells : g = s
      BY <1>2, <2>1, <2>2, <2>4 DEF g, h, Core, Ended, Names, Gens, Shapes, Blank
    <3>3. p = "check" /\ shells \subseteq {g}
      BY <2>4, <2>7, <3>1, <3>2 DEF p
    <3>4. Held'
      <4>1. ASSUME NEW s \in shells PROVE \E v \in Workers : Holds(v, s)'
        <5>1. PICK v \in Workers : Holds(v, s)
          BY <2>1 DEF Core, Held
        <5>2. v # w
          BY <3>1, <5>1 DEF Holds, h
        <5> QED BY <1>1, <1>8, <3>1, <5>1, <5>2 DEF Holds
      <4>2. \A v \in Workers : op'[v].pc \notin {"idle", "describe", "sign"} => ~handle'[v].own
        BY <1>5, <1>8, <2>3
      <4> QED BY <3>1, <4>1, <4>2 DEF Held
    <3>5. Ending'
      BY <1>4, <1>8, <2>3, <3>1, <3>3 DEF Ending
    <3>6. AtMostOne' /\ Untorn'
      BY <1>1, <2>1, <3>1 DEF Core, AtMostOne, Untorn
    <3>7. Named'
      BY <1>1, <2>4, <3>1 DEF Named
    <3>8. Lists'
      BY <1>1, <2>1, <2>3, <3>1 DEF Core, Lists
    <3>9. Ended'
      BY <1>1, <1>5, <1>8, <2>1, <3>1 DEF Core, Ended, Blank
    <3> QED BY <2>5, <3>4, <3>5, <3>6, <3>7, <3>8, <3>9 DEF Core
  <2> QED BY <2>6, <2>7
<1> QED BY <1>7, <1>9, <1>10

\* A restart and a removal begin alike.
LEMMA RestartRemoveStep ==
  ASSUME TerminalInv, NEW w \in Workers, Restart(w) \/ Remove(w)
  PROVE  TerminalInv'
BY BeginEndStep DEF Restart, Remove

-----------------------------------------------------------------------------
(* The theorems *)

\* A terminal nobody has heard of: nothing runs, nothing is named, nobody is at work.
LEMMA InitTerminal == Init => TerminalInv
<1> SUFFICES ASSUME Init PROVE TerminalInv
  OBVIOUS
<1> USE Bounds DEF Init
<1>1. /\ NoHandle \in HandleRecords /\ NoOp \in OpRecords /\ NoList \in ListRecords
      /\ NoDown \in DownRecords
  BY DEF NoHandle, NoOp, NoList, NoDown, HandleRecords, OpRecords, Pcs, ListRecords,
         DownRecords, Blank
<1>2. Shapes
  <2>1. /\ meta \in 0 .. Blank /\ owner \in 0 .. MaxGens /\ made \in 0 .. MaxGens
    BY DEF Blank
  <2>5. claim \in BOOLEAN
    OBVIOUS
  <2>2. shells \subseteq Gens /\ torn \subseteq Gens /\ slips \subseteq Slips
    OBVIOUS
  <2>3. /\ forked \in [Workers -> SUBSET Gens] /\ up \in [Workers -> BOOLEAN]
        /\ pump \in [Gens -> {"new", "on", "off"}]
        /\ hb \in [Workers -> {"none", "on", "leaving"}]
    OBVIOUS
  <2>4. /\ handle \in [Workers -> HandleRecords] /\ op \in [Workers -> OpRecords]
        /\ lst \in [Workers -> ListRecords] /\ down \in [Workers -> DownRecords]
    BY <1>1
  <2> QED BY <2>1, <2>2, <2>3, <2>4, <2>5 DEF Shapes
<1>3. Structure
  BY DEF Structure, Names, NoHandle, NoOp, NoList, NoDown, Mutators
<1>4. Core
  BY DEF Core, Held, OneBusy, Busy, Mutators, Ending, AtMostOne, Named, Lists, Ended, Untorn,
         NoHandle, NoOp, NoDown, Blank
<1> QED BY <1>2, <1>3, <1>4 DEF TerminalInv

\* Every step keeps the invariant.
LEMMA StepTerminal == TerminalInv /\ [Next]_vars => TerminalInv'
<1> SUFFICES ASSUME TerminalInv, [Next]_vars PROVE TerminalInv'
  OBVIOUS
<1>1. CASE UNCHANGED vars
  BY <1>1 DEF vars, redis, shellVars, countVars, TerminalInv, Shapes, Structure, Names, Core,
              Held, Holds, OneBusy, Busy, Ending, AtMostOne, Named, Lists, Ended, Untorn
<1>2. ASSUME NEW w \in Workers, Request(w) PROVE TerminalInv'
  BY <1>2, CreateStep, RestartRemoveStep, DropSpentStep, AdoptStep, RenameStep DEF Request
<1>3. ASSUME NEW w \in Workers, Operate(w) PROVE TerminalInv'
  BY <1>3, ClaimStep, ForkStep, DescribeStep, SignStep, AdoptWinnerStep, WaitedOutStep,
     CheckOwnerStep, KillTreeStep, ClearOwnerStep, ReleaseClaimStep, ForgetMetaStep
     DEF Operate
<1>4. ASSUME NEW w \in Workers, List(w) PROVE TerminalInv'
  BY <1>4, ListDropsStep, ListUnownedStep, ListPruneStep, ListAssertStep, ListRestateStep,
     ListSweepStep DEF List
<1>5. ASSUME NEW w \in Workers, Heartbeat(w) \/ ReadEof(w) PROVE TerminalInv'
  BY <1>5, HeartbeatRenewsStep, HeartbeatIdlesStep, HeartbeatEndsStep, ReadEofStep
     DEF Heartbeat
<1>6. ASSUME NEW w \in Workers, Stop(w) PROVE TerminalInv'
  BY <1>6, WorkerDiesStep, WorkerReturnsStep, BeginCleanupStep, CleanupClearStep,
     CleanupForgetStep DEF Stop
<1>7. ASSUME NEW g \in Gens, ShellExits(g) \/ PumpEof(g) PROVE TerminalInv'
  BY <1>7, ShellExitsStep, PumpEofStep
<1>8. CASE OwnerExpires
  BY <1>8, OwnerExpiresStep
<1> QED BY <1>1, <1>2, <1>3, <1>4, <1>5, <1>6, <1>7, <1>8 DEF Next

\* The invariant holds of every state (create, restart, remove, list_sessions, the
\* heartbeat and the shutdown of every worker, in any order).
THEOREM TerminalCorrect == Spec => []TerminalInv
BY InitTerminal, StepTerminal, PTL DEF Spec

LEMMA SessionsTyped == TerminalInv => TypeOK
BY DEF TerminalInv, Shapes, Structure, TypeOK, HandleRecords, OpRecords, Pcs, ListRecords,
       DownRecords

\* Outside of the slips there is one shell,
LEMMA OnlyShell == ASSUME TerminalInv PROVE OneShell
<1>1. CASE slips = {} /\ shells # {}
  <2>1. PICK g \in shells : TRUE
    BY <1>1
  <2>2. shells = {g}
    BY <1>1, <2>1 DEF TerminalInv, Core, AtMostOne
  <2> QED BY <2>2, FS_Singleton DEF OneShell
<1>2. CASE shells = {}
  BY <1>2, FS_EmptySet DEF OneShell
<1> QED BY <1>1, <1>2 DEF OneShell

\* which is found under its own key and hash,
LEMMA FoundByAll == ASSUME TerminalInv PROVE Published
<1> SUFFICES ASSUME slips = {}, Settled, NEW w \in Workers, NEW g \in Gens, Holds(w, g)
             PROVE  owner = g /\ meta = g
  BY DEF Published
<1>1. Core /\ g \in shells
  BY DEF TerminalInv, Holds
<1>2. \A v \in Workers : op[v].pc = "idle"
  BY DEF Settled, Busy, TerminalInv, Structure
<1> QED BY <1>1, <1>2 DEF Core, Named

\* and whose output stays.
LEMMA NothingDropped == ASSUME TerminalInv PROVE ScrollbackKept
BY DEF ScrollbackKept, TerminalInv, Core, Untorn, Holds


-----------------------------------------------------------------------------
(* Sequences of frames.  A chunk is a number, and 0 the end of the stream.    *)

\* The frames of a queue, and their order: Eof is neither before nor after a chunk.
Elems(s) == {s[i] : i \in 1..Len(s)}
Before(x, y) == x = Streams!Eof \/ y = Streams!Eof \/ x < y
Ascends(s) == \A i, j \in 1..Len(s) : i < j => Before(s[i], s[j])
AllBefore(A, B) == \A x \in A, y \in B : Before(x, y)
Consecutive(s) == \A i \in 1..(Len(s) - 1) : s[i + 1] # Streams!Eof => s[i + 1] = s[i] + 1
EofLast(s) == \A i \in 1..Len(s) : s[i] = Streams!Eof => i = Len(s)

\* A function on 1..n is a sequence, a sequence is one, and what operators on sequences make.
LEMMA FcnSeq == ASSUME NEW S, NEW n \in Nat, NEW f \in [1..n -> S]
  PROVE f \in Seq(S) /\ Len(f) = n /\ DOMAIN f = 1..n
BY SMT
LEMMA SeqFcn == ASSUME NEW S, NEW s \in Seq(S)
  PROVE s \in [1..Len(s) -> S] /\ Len(s) \in Nat /\ DOMAIN s = 1..Len(s)
BY SMT
LEMMA AppendedSeq == ASSUME NEW S, NEW s \in Seq(S), NEW x \in S
  PROVE /\ Append(s, x) \in Seq(S) /\ Len(Append(s, x)) = Len(s) + 1
        /\ \A i \in 1..Len(s) : Append(s, x)[i] = s[i]
        /\ Append(s, x)[Len(s) + 1] = x
BY SMT
LEMMA TailedSeq == ASSUME NEW S, NEW s \in Seq(S), s # <<>>
  PROVE /\ Tail(s) \in Seq(S) /\ Len(Tail(s)) = Len(s) - 1 /\ Len(s) >= 1
        /\ \A i \in 1..(Len(s) - 1) : Tail(s)[i] = s[i + 1]
        /\ Head(s) = s[1] /\ Head(s) \in S
BY SMT
LEMMA CutSeq == ASSUME NEW S, NEW s \in Seq(S), NEW m \in Nat \ {0}, NEW n \in 0..Len(s)
  PROVE /\ SubSeq(s, m, n) \in Seq(S)
        /\ Len(SubSeq(s, m, n)) = IF m <= n THEN n - m + 1 ELSE 0
        /\ \A i \in 1..Len(SubSeq(s, m, n)) : SubSeq(s, m, n)[i] = s[m + i - 1]
BY SMT
LEMMA JoinedSeq == ASSUME NEW S, NEW s \in Seq(S), NEW t \in Seq(S)
  PROVE /\ s \o t \in Seq(S) /\ Len(s \o t) = Len(s) + Len(t)
        /\ \A i \in 1..Len(s) : (s \o t)[i] = s[i]
        /\ \A i \in 1..Len(t) : (s \o t)[Len(s) + i] = t[i]
BY SMT
LEMMA NoneIn == ASSUME NEW S, NEW s \in Seq(S)
  PROVE (s = <<>>) <=> (Len(s) = 0)
BY SMT

LEMMA Wider == ASSUME NEW S, NEW T, S \subseteq T, NEW s \in Seq(S) PROVE s \in Seq(T)
<1>1. s \in [1..Len(s) -> S] /\ Len(s) \in Nat
  BY SeqFcn
<1>2. s \in [1..Len(s) -> T]
  BY <1>1
<1> QED BY <1>1, <1>2, FcnSeq
LEMMA ElemsIn == ASSUME NEW S, NEW s \in Seq(S) PROVE Elems(s) \subseteq S
<1>1. s \in [1..Len(s) -> S]
  BY SeqFcn
<1> QED BY <1>1 DEF Elems

\* A frame appended to what it follows keeps the order, and the run if it is the next.
LEMMA AppendedOrder == ASSUME NEW s \in Seq(Nat), NEW x \in Nat
  PROVE /\ Elems(Append(s, x)) = Elems(s) \cup {x}
        /\ Ascends(s) /\ AllBefore(Elems(s), {x}) => Ascends(Append(s, x))
        /\ Consecutive(s) /\ (s = <<>> \/ x = Streams!Eof \/ x = s[Len(s)] + 1)
             => Consecutive(Append(s, x))
        /\ Streams!Eof \notin Elems(s) => EofLast(Append(s, x))
<1>1. /\ Append(s, x) \in Seq(Nat) /\ Len(Append(s, x)) = Len(s) + 1
      /\ \A i \in 1..Len(s) : Append(s, x)[i] = s[i]
      /\ Append(s, x)[Len(s) + 1] = x /\ Len(s) \in Nat /\ (s = <<>> => Len(s) = 0)
  BY AppendedSeq
<1> DEFINE a == Append(s, x)
<1> HIDE DEF a
<1>2. /\ Len(a) = Len(s) + 1 /\ (\A i \in 1..Len(s) : a[i] = s[i])
      /\ a[Len(s) + 1] = x /\ Len(s) \in Nat /\ (s = <<>> => Len(s) = 0)
  BY <1>1 DEF a
<1>3. Elems(a) = Elems(s) \cup {x}
  <2>1. \A i \in 1..Len(a) : i \in 1..Len(s) \/ i = Len(s) + 1
    BY <1>2
  <2>2. Elems(a) \subseteq Elems(s) \cup {x}
    BY <1>2, <2>1 DEF Elems
  <2>3. \A i \in 1..Len(s) : i \in 1..Len(a)
    BY <1>2
  <2>4. Len(s) + 1 \in 1..Len(a)
    BY <1>2
  <2>5. Elems(s) \cup {x} \subseteq Elems(a)
    BY <1>2, <2>3, <2>4 DEF Elems
  <2> QED BY <2>2, <2>5
<1>4. Ascends(s) /\ AllBefore(Elems(s), {x}) => Ascends(a)
  BY <1>2 DEF Ascends, AllBefore, Elems
<1>5. ASSUME Consecutive(s), s = <<>> \/ x = Streams!Eof \/ x = s[Len(s)] + 1
      PROVE  Consecutive(a)
  <2> SUFFICES ASSUME NEW i \in 1..(Len(a) - 1), a[i + 1] # Streams!Eof
               PROVE  a[i + 1] = a[i] + 1
    BY DEF Consecutive
  <2>1. i \in 1..Len(s) /\ a[i] = s[i]
    BY <1>2
  <2>2. CASE i = Len(s)
    BY <1>2, <1>5, <2>1, <2>2
  <2>3. CASE i # Len(s)
    <3>1. i + 1 \in 1..Len(s) /\ i \in 1..(Len(s) - 1)
      BY <1>2, <2>1, <2>3
    <3>2. a[i + 1] = s[i + 1]
      BY <1>2, <3>1
    <3> QED BY <1>5, <2>1, <3>1, <3>2 DEF Consecutive
  <2> QED BY <2>2, <2>3
<1>6. Streams!Eof \notin Elems(s) => EofLast(a)
  BY <1>2 DEF EofLast, Elems
<1> QED BY <1>3, <1>4, <1>5, <1>6 DEF a

\* The head goes before the rest.
LEMMA TailedOrder == ASSUME NEW s \in Seq(Nat), s # <<>>
  PROVE /\ Elems(Tail(s)) \subseteq Elems(s) /\ Head(s) \in Elems(s)
        /\ Ascends(s) => Ascends(Tail(s)) /\ AllBefore({Head(s)}, Elems(Tail(s)))
        /\ EofLast(s) => EofLast(Tail(s)) /\ (Head(s) = Streams!Eof => Tail(s) = <<>>)
<1>1. /\ Tail(s) \in Seq(Nat) /\ Len(Tail(s)) = Len(s) - 1 /\ Len(s) \in Nat /\ Len(s) >= 1
      /\ \A i \in 1..(Len(s) - 1) : Tail(s)[i] = s[i + 1]
      /\ Head(s) = s[1] /\ (Len(Tail(s)) = 0 => Tail(s) = <<>>)
  BY TailedSeq, NoneIn, SeqFcn
<1> DEFINE t == Tail(s)
<1> DEFINE d == Head(s)
<1> HIDE DEF t, d
<1>2. /\ Len(t) = Len(s) - 1 /\ Len(s) \in Nat /\ Len(s) >= 1 /\ d = s[1]
      /\ \A i \in 1..(Len(s) - 1) : t[i] = s[i + 1]
      /\ Len(t) = 0 => t = <<>>
  BY <1>1 DEF t, d
<1>3. \A i \in 1..Len(t) : i + 1 \in 1..Len(s) /\ t[i] = s[i + 1]
  BY <1>2
<1>4. Elems(t) \subseteq Elems(s) /\ d \in Elems(s)
  <2>1. 1 \in 1..Len(s)
    BY <1>2
  <2> QED BY <1>2, <1>3, <2>1 DEF Elems
<1>5. Ascends(s) => Ascends(t)
  <2> SUFFICES ASSUME Ascends(s), NEW i \in 1..Len(t), NEW k \in 1..Len(t), i < k
               PROVE  Before(t[i], t[k])
    BY DEF Ascends
  <2>1. i + 1 \in 1..Len(s) /\ k + 1 \in 1..Len(s) /\ i + 1 < k + 1
    BY <1>2, <1>3
  <2>2. t[i] = s[i + 1] /\ t[k] = s[k + 1]
    BY <1>3
  <2>3. Before(s[i + 1], s[k + 1])
    BY <2>1 DEF Ascends
  <2> QED BY <2>2, <2>3
<1>6. Ascends(s) => AllBefore({d}, Elems(t))
  <2> SUFFICES ASSUME Ascends(s), NEW i \in 1..Len(t)
               PROVE  Before(d, t[i])
    BY DEF AllBefore, Elems
  <2>1. 1 \in 1..Len(s) /\ i + 1 \in 1..Len(s) /\ 1 < i + 1
    BY <1>2, <1>3
  <2>2. Before(s[1], s[i + 1])
    BY <2>1 DEF Ascends
  <2> QED BY <1>2, <1>3, <2>2
<1>7. EofLast(s) => EofLast(t) /\ (d = Streams!Eof => t = <<>>)
  <2> SUFFICES ASSUME EofLast(s)
               PROVE  EofLast(t) /\ (d = Streams!Eof => t = <<>>)
    OBVIOUS
  <2>1. ASSUME NEW i \in 1..Len(t), t[i] = Streams!Eof
        PROVE  i = Len(t)
    <3>1. i + 1 \in 1..Len(s) /\ s[i + 1] = Streams!Eof
      BY <1>3, <2>1
    <3>2. i + 1 = Len(s)
      BY <3>1 DEF EofLast
    <3> QED BY <1>2, <3>2
  <2>2. ASSUME d = Streams!Eof PROVE t = <<>>
    <3>1. 1 \in 1..Len(s) /\ s[1] = Streams!Eof
      BY <1>2, <2>2
    <3>2. Len(s) = 1
      BY <3>1 DEF EofLast
    <3> QED BY <1>2, <3>2
  <2> QED BY <2>1, <2>2 DEF EofLast
<1> QED BY <1>4, <1>5, <1>6, <1>7 DEF t, d

\* A piece of a sequence has its order.
LEMMA CutOrder == ASSUME NEW s \in Seq(Nat), NEW m \in Nat \ {0}, NEW n \in 0..Len(s)
  PROVE /\ Elems(SubSeq(s, m, n)) \subseteq Elems(s)
        /\ Ascends(s) => Ascends(SubSeq(s, m, n))
        /\ Consecutive(s) => Consecutive(SubSeq(s, m, n))
        /\ EofLast(s) => EofLast(SubSeq(s, m, n))
<1> DEFINE c == SubSeq(s, m, n)
<1>1. /\ Len(c) = (IF m <= n THEN n - m + 1 ELSE 0) /\ Len(s) \in Nat
      /\ \A i \in 1..Len(c) : c[i] = s[m + i - 1]
  BY CutSeq, SeqFcn
<1> HIDE DEF c
<1>2. /\ Len(c) \in Nat
      /\ \A i \in 1..Len(c) : m + i - 1 \in 1..Len(s) /\ c[i] = s[m + i - 1]
  BY <1>1
<1>3. Elems(c) \subseteq Elems(s)
  BY <1>2 DEF Elems
<1>4. Ascends(s) => Ascends(c)
  <2> SUFFICES ASSUME Ascends(s), NEW i \in 1..Len(c), NEW k \in 1..Len(c), i < k
               PROVE  Before(c[i], c[k])
    BY DEF Ascends
  <2>1. /\ m + i - 1 \in 1..Len(s) /\ c[i] = s[m + i - 1]
        /\ m + k - 1 \in 1..Len(s) /\ c[k] = s[m + k - 1]
    BY <1>2
  <2>2. m + i - 1 < m + k - 1
    BY <1>2
  <2>3. Before(s[m + i - 1], s[m + k - 1])
    BY <2>1, <2>2 DEF Ascends
  <2> QED BY <2>1, <2>3
<1>5. Consecutive(s) => Consecutive(c)
  <2> SUFFICES ASSUME Consecutive(s), NEW i \in 1..(Len(c) - 1), c[i + 1] # Streams!Eof
               PROVE  c[i + 1] = c[i] + 1
    BY DEF Consecutive
  <2>1. i \in 1..Len(c) /\ i + 1 \in 1..Len(c)
    BY <1>2
  <2>2. c[i] = s[m + i - 1] /\ c[i + 1] = s[(m + i - 1) + 1]
    BY <1>2, <2>1
  <2>3. m + i - 1 \in 1..(Len(s) - 1)
    BY <1>1, <1>2, <2>1
  <2> QED BY <2>2, <2>3 DEF Consecutive
<1>6. EofLast(s) => EofLast(c)
  <2> SUFFICES ASSUME EofLast(s), NEW i \in 1..Len(c), c[i] = Streams!Eof
               PROVE  i = Len(c)
    BY DEF EofLast
  <2>1. m + i - 1 \in 1..Len(s) /\ s[m + i - 1] = Streams!Eof
    BY <1>2
  <2>2. m + i - 1 = Len(s)
    BY <2>1 DEF EofLast
  <2> QED BY <1>1, <1>2, <2>2
<1> QED BY <1>3, <1>4, <1>5, <1>6 DEF c

\* Two sequences in order, the one before the other, are in order joined.
LEMMA JoinedOrder == ASSUME NEW s \in Seq(Nat), NEW t \in Seq(Nat)
  PROVE /\ Elems(s \o t) = Elems(s) \cup Elems(t)
        /\ Ascends(s) /\ Ascends(t) /\ AllBefore(Elems(s), Elems(t)) => Ascends(s \o t)
        /\ /\ Consecutive(s) /\ Consecutive(t)
           /\ s # <<>> /\ t # <<>> => (t[1] = Streams!Eof \/ t[1] = s[Len(s)] + 1)
           => Consecutive(s \o t)
<1> DEFINE j == s \o t
<1>1. /\ Len(j) = Len(s) + Len(t) /\ Len(s) \in Nat /\ Len(t) \in Nat
      /\ \A i \in 1..Len(s) : j[i] = s[i]
      /\ \A i \in 1..Len(t) : j[Len(s) + i] = t[i]
  BY JoinedSeq, SeqFcn
<1> HIDE DEF j
<1>2. \A i \in 1..Len(j) :
         \/ i \in 1..Len(s) /\ j[i] = s[i]
         \/ i - Len(s) \in 1..Len(t) /\ j[i] = t[i - Len(s)]
  <2> SUFFICES ASSUME NEW i \in 1..Len(j), i \notin 1..Len(s)
               PROVE  i - Len(s) \in 1..Len(t) /\ j[i] = t[i - Len(s)]
    BY <1>1
  <2>1. i - Len(s) \in 1..Len(t) /\ Len(s) + (i - Len(s)) = i
    BY <1>1
  <2>2. j[Len(s) + (i - Len(s))] = t[i - Len(s)]
    BY <1>1, <2>1
  <2> QED BY <2>1, <2>2
<1>3. Elems(j) = Elems(s) \cup Elems(t)
  <2>1. \A i \in 1..Len(s) : i \in 1..Len(j)
    BY <1>1
  <2>2. \A i \in 1..Len(t) : Len(s) + i \in 1..Len(j)
    BY <1>1
  <2>3. Elems(s) \subseteq Elems(j)
    BY <1>1, <2>1 DEF Elems
  <2>4. Elems(t) \subseteq Elems(j)
    <3> SUFFICES ASSUME NEW i \in 1..Len(t) PROVE t[i] \in Elems(j)
      BY DEF Elems
    <3> QED BY <1>1, <2>2 DEF Elems
  <2>5. Elems(j) \subseteq Elems(s) \cup Elems(t)
    <3> SUFFICES ASSUME NEW i \in 1..Len(j) PROVE j[i] \in Elems(s) \cup Elems(t)
      BY DEF Elems
    <3> QED BY <1>2 DEF Elems
  <2> QED BY <2>3, <2>4, <2>5
<1>4. Ascends(s) /\ Ascends(t) /\ AllBefore(Elems(s), Elems(t)) => Ascends(j)
  <2> SUFFICES ASSUME Ascends(s), Ascends(t), AllBefore(Elems(s), Elems(t)),
                      NEW i \in 1..Len(j), NEW k \in 1..Len(j), i < k
               PROVE  Before(j[i], j[k])
    BY DEF Ascends
  <2>1. CASE i \in 1..Len(s) /\ k \in 1..Len(s)
    BY <1>1, <2>1 DEF Ascends
  <2>2. CASE i \in 1..Len(s) /\ k \notin 1..Len(s)
    <3>1. i \in 1..Len(s) /\ j[i] = s[i]
      BY <1>2, <2>2
    <3>2. k - Len(s) \in 1..Len(t) /\ j[k] = t[k - Len(s)]
      BY <1>2, <2>2
    <3>3. j[i] \in Elems(s) /\ j[k] \in Elems(t)
      BY <3>1, <3>2 DEF Elems
    <3> QED BY <3>3 DEF AllBefore
  <2>3. CASE i \notin 1..Len(s)
    <3>1. /\ i - Len(s) \in 1..Len(t) /\ j[i] = t[i - Len(s)]
          /\ k - Len(s) \in 1..Len(t) /\ j[k] = t[k - Len(s)]
          /\ i - Len(s) < k - Len(s)
      BY <1>1, <1>2, <2>3
    <3> QED BY <3>1 DEF Ascends
  <2> QED BY <2>1, <2>2, <2>3
<1>5. ASSUME Consecutive(s), Consecutive(t),
             (s # <<>> /\ t # <<>>) => (t[1] = Streams!Eof \/ t[1] = s[Len(s)] + 1)
      PROVE  Consecutive(j)
  <2> SUFFICES ASSUME NEW i \in 1..(Len(j) - 1), j[i + 1] # Streams!Eof
               PROVE  j[i + 1] = j[i] + 1
    BY DEF Consecutive
  <2>1. CASE i + 1 \in 1..Len(s)
    <3>1. i \in 1..(Len(s) - 1)
      BY <1>1, <2>1
    <3>2. j[i] = s[i] /\ j[i + 1] = s[i + 1]
      BY <1>1, <2>1, <3>1
    <3> QED BY <1>5, <3>1, <3>2 DEF Consecutive
  <2>2. CASE i = Len(s)
    <3>1. j[i] = s[Len(s)] /\ j[i + 1] = t[1] /\ Len(s) # 0 /\ Len(t) # 0
      <4>1. Len(s) \in 1..Len(s) /\ 1 \in 1..Len(t)
        BY <1>1, <2>2
      <4> QED BY <1>1, <2>2, <4>1
    <3>2. s # <<>> /\ t # <<>>
      BY <3>1
    <3> QED BY <1>5, <3>1, <3>2
  <2>3. CASE i > Len(s)
    <3>1. /\ i - Len(s) \in 1..(Len(t) - 1) /\ j[i] = t[i - Len(s)]
          /\ j[i + 1] = t[(i - Len(s)) + 1]
      <4>1. /\ i \in 1..Len(j)
            /\ i + 1 \in 1..Len(j)
            /\ i \notin 1..Len(s)
            /\ i + 1 \notin 1..Len(s)
        BY <1>1, <2>3
      <4>2. /\ i - Len(s) \in 1..Len(t) /\ j[i] = t[i - Len(s)]
            /\ (i + 1) - Len(s) \in 1..Len(t) /\ j[i + 1] = t[(i + 1) - Len(s)]
        BY <1>2, <4>1
      <4>3. (i + 1) - Len(s) = (i - Len(s)) + 1
        BY <1>1
      <4> QED BY <1>1, <4>2, <4>3
    <3> QED BY <1>5, <3>1 DEF Consecutive
  <2> QED BY <1>1, <2>1, <2>2, <2>3
<1> QED BY <1>3, <1>4, <1>5 DEF j

-----------------------------------------------------------------------------
(* The invariant of a terminal's streams                                      *)

StreamHandles ==
  [worker : Viewers, alive : BOOLEAN, stopping : BOOLEAN,
   consumer : {"off", "runs", "over"}, cursor : Nat, loop : Seq(0..MaxOut),
   buffer : Seq(Streams!Chunks)]
ClientSteps == {"off", "looked", "got", "sending", "waits", "sends", "left"}
ClientRecords ==
  [at : Nat, step : ClientSteps, from : Nat, read : Nat, sees : Seq(Streams!Chunks),
   queue : Seq(0..MaxOut), subscribed : BOOLEAN]

Handle == 1..Len(streamsHandles)
Position == 1..Len(streamsOut)
StreamSlips == {"raced", "missed", "full", "lost", "trimmed", "removed", "early"}

FlatShapes ==
  /\ streamsOut \in Seq(0..MaxOut) /\ streamsGone \in 0..Len(streamsOut)
  /\ streamsMade \in 0..MaxOut
  /\ streamsShell \in {"runs", "over"} /\ streamsPump \in {"off", "runs", "over"}
  /\ streamsReader \in BOOLEAN /\ streamsRemoved \in BOOLEAN
  /\ streamsSlips \subseteq StreamSlips
  /\ streamsConnects \in 0..MaxConnects /\ streamsFaults \in 0..MaxFaults
  /\ streamsKeys \in Seq(1..MaxKeys) /\ streamsTyped \in Seq(1..MaxKeys)
  /\ streamsInCursor \in 0..Len(streamsKeys)
  /\ streamsSent \in 0..MaxKeys
HandleShapes ==
  /\ streamsHandles \in Seq(StreamHandles) /\ 1 \in Handle
  /\ Len(streamsHandles) <= 1 + streamsConnects
  /\ \A h \in Handle : streamsHandles[h].cursor <= Len(streamsOut)
  /\ streamsCache \in [Viewers -> Nat]
  /\ \A w \in Viewers : streamsCache[w] <= Len(streamsHandles)
ClientShapes ==
  /\ streamsClient \in [Clients -> ClientRecords]
  /\ \A c \in Clients :
        /\ streamsClient[c].at = 0 <=> streamsClient[c].step = "off"
        /\ streamsClient[c].at <= Len(streamsHandles)
        /\ streamsClient[c].from <= streamsClient[c].read
        /\ streamsClient[c].read <= Len(streamsOut)
        /\ Len(streamsClient[c].queue) <= Room

\* The PTY is read only between create()'s return and the EOF frame, and that is last.
EndsWithEof ==
  /\ streamsReader => streamsPump = "runs" /\ streamsHandles[1].consumer # "off"
  /\ streamsPump = "over" => streamsHandles[1].consumer # "off"
  /\ EofLast(streamsOut) /\ (Streams!Eof \in Elems(streamsOut) => streamsPump = "over")

\* The end of the stream ends every queue it goes through, and a socket has nothing
\* before it is open.
HandleEnds(h) ==
  /\ streamsHandles[h].consumer = "off" => streamsHandles[h].loop = <<>>
  /\ EofLast(streamsHandles[h].loop)
  /\ Streams!Eof \in Elems(streamsHandles[h].loop) => streamsHandles[h].consumer = "over"
ClientEnds(c) ==
  LET h == streamsClient[c].at IN
  /\ EofLast(streamsClient[c].queue)
  /\ streamsClient[c].step \in {"off", "looked", "got"} =>
       /\ streamsClient[c].sees = <<>> /\ streamsClient[c].queue = <<>>
       /\ ~streamsClient[c].subscribed
  /\ streamsClient[c].step \notin {"off", "looked", "got"} =>
       streamsHandles[h].consumer # "off"
  /\ Streams!Eof \in Elems(streamsClient[c].queue) =>
       streamsHandles[h].loop = <<>> /\ streamsHandles[h].consumer = "over"
EndsOnce == (\A h \in Handle : HandleEnds(h)) /\ (\A c \in Clients : ClientEnds(c))

\* What a cursor at n has still to read, and frames that the shell has written.
Ahead(n) == {streamsOut[k] : k \in (n + 1)..Len(streamsOut)}
Written(A) == \A x \in A : x <= streamsMade

OutAscends == Ascends(streamsOut) /\ Written(Elems(streamsOut))

\* Unless a replay was primed under a running consumer: each frame is in one place on its
\* way from the stream to a screen, and the earlier the further on.
HandleAscends(h) ==
  LET b == Elems(streamsHandles[h].buffer)
      l == Elems(streamsHandles[h].loop)
      n == streamsHandles[h].cursor
  IN /\ Ascends(streamsHandles[h].buffer) /\ Ascends(streamsHandles[h].loop)
     /\ AllBefore(b, l) /\ AllBefore(b \cup l, Ahead(n)) /\ Written(b \cup l)
ClientAscends(c) ==
  LET s == Elems(streamsClient[c].sees)
      q == Elems(streamsClient[c].queue)
      h == streamsHandles[streamsClient[c].at]
  IN /\ Ascends(streamsClient[c].sees) /\ Ascends(streamsClient[c].queue)
     /\ AllBefore(s, q) /\ Written(s \cup q)
     /\ streamsClient[c].at # 0 => /\ AllBefore(s \cup q, Elems(h.loop))
                                   /\ AllBefore(s \cup q, Ahead(h.cursor))

ScreensInOrder ==
  "raced" \notin streamsSlips =>
    /\ \A h \in Handle : HandleAscends(h)
    /\ \A c \in Clients : ClientAscends(c)

\* Unless something is lost: what waits for a handle's loop are the last frames that its
\* consumer has read, and what its buffer, or a socket's queue or screen, has ends where
\* those begin.
EndsAt(s, n) ==
  s # <<>> => /\ n \in Position
              /\ s[Len(s)] = n \/ (n = Len(streamsOut) /\ streamsOut[n] = Streams!Eof)
OutRuns ==
  /\ \A i \in Position : streamsOut[i] = Streams!Eof \/ streamsOut[i] = i
  /\ streamsGone = 0 \/ streamsGone < Len(streamsOut)
  /\ streamsPump # "over" => streamsMade = Len(streamsOut)
Fanned(h) == streamsHandles[h].cursor - Len(streamsHandles[h].loop)
HandleRuns(h) ==
  LET b == streamsHandles[h].buffer
      l == streamsHandles[h].loop
      n == streamsHandles[h].cursor
  IN /\ streamsGone <= n /\ Len(l) <= n
     /\ \A i \in 1..Len(l) : l[i] = streamsOut[Fanned(h) + i]
     /\ Consecutive(b) /\ EndsAt(b, Fanned(h))
ClientRuns(c) ==
  LET s == streamsClient[c].sees
      q == streamsClient[c].queue
      n == Fanned(streamsClient[c].at)
  IN /\ Consecutive(s) /\ Consecutive(q)
     /\ s # <<>> /\ q # <<>> => q[1] = Streams!Eof \/ q[1] = s[Len(s)] + 1
     /\ streamsClient[c].step \in {"waits", "sends", "left"} => streamsClient[c].subscribed
     /\ streamsClient[c].at # 0 => EndsAt(q, n) /\ (q = <<>> => EndsAt(s, n))
Gapless ==
  streamsSlips \subseteq {"early"} =>
    /\ OutRuns
    /\ \A h \in Handle : HandleRuns(h)
    /\ \A c \in Clients : ClientRuns(c)

\* What was typed came before what is still on the input stream.
KeysInOrder ==
  /\ \A i, j \in 1..Len(streamsKeys) : i < j => streamsKeys[i] < streamsKeys[j]
  /\ \A i, j \in 1..Len(streamsTyped) : i < j => streamsTyped[i] < streamsTyped[j]
  /\ \A i \in 1..Len(streamsTyped), j \in 1..Len(streamsKeys) :
       j > streamsInCursor => streamsTyped[i] < streamsKeys[j]
  /\ \A i \in 1..Len(streamsKeys) : streamsKeys[i] <= streamsSent
  /\ \A i \in 1..Len(streamsTyped) : streamsTyped[i] <= streamsSent

StreamsInv ==
  /\ FlatShapes /\ HandleShapes /\ ClientShapes
  /\ EndsWithEof /\ EndsOnce
  /\ OutAscends /\ ScreensInOrder /\ Gapless /\ KeysInOrder

-----------------------------------------------------------------------------
(* What an action leaves alone                                                *)

\* A handle, or a client, whose place in the order no action has changed.
KeptHandle(h) ==
    /\ h \in Handle
    /\ streamsHandles'[h].buffer = streamsHandles[h].buffer
    /\ streamsHandles'[h].loop = streamsHandles[h].loop
    /\ streamsHandles'[h].cursor = streamsHandles[h].cursor
KeptClient(c) ==
    /\ streamsClient'[c].at = streamsClient[c].at
    /\ streamsClient'[c].sees = streamsClient[c].sees
    /\ streamsClient'[c].queue = streamsClient[c].queue
    /\ streamsClient[c].at # 0 => /\ streamsHandles'[streamsClient[c].at].loop =
                                         streamsHandles[streamsClient[c].at].loop
                                  /\ streamsHandles'[streamsClient[c].at].cursor =
                                         streamsHandles[streamsClient[c].at].cursor
    /\ \/ streamsClient'[c].subscribed
       \/ streamsClient'[c].subscribed = streamsClient[c].subscribed /\ streamsClient'[c].step =
              streamsClient[c].step

\* With the stream unchanged, the order of such a handle and client is.
LEMMA KeptHandleHolds ==
  ASSUME UNCHANGED <<streamsOut, streamsMade>>, NEW h, KeptHandle(h)
  PROVE  /\ HandleAscends(h) => HandleAscends(h)'
         /\ streamsGone' = streamsGone /\ HandleRuns(h) => HandleRuns(h)'
<1>1. HandleAscends(h) => HandleAscends(h)'
  BY DEF KeptHandle, HandleAscends, Ahead, Written
<1>2. streamsGone' = streamsGone /\ HandleRuns(h) => HandleRuns(h)'
  BY DEF KeptHandle, HandleRuns, Fanned, EndsAt, Position
<1> QED BY <1>1, <1>2

LEMMA KeptClientHolds ==
  ASSUME UNCHANGED <<streamsOut, streamsMade>>, NEW c, KeptClient(c)
  PROVE  /\ ClientAscends(c) => ClientAscends(c)'
         /\ ClientRuns(c) => ClientRuns(c)'
<1>1. ClientAscends(c) => ClientAscends(c)'
  BY DEF KeptClient, ClientAscends, Ahead, Written
<1>2. ClientRuns(c) => ClientRuns(c)'
  BY DEF KeptClient, ClientRuns, Fanned, EndsAt, Position
<1> QED BY <1>1, <1>2

GoodHandle(h) ==
    /\ "raced" \notin streamsSlips' => HandleAscends(h)'
    /\ streamsSlips' \subseteq {"early"} => HandleRuns(h)'
GoodClient(c) ==
    /\ "raced" \notin streamsSlips' => ClientAscends(c)'
    /\ streamsSlips' \subseteq {"early"} => ClientRuns(c)'

\* The order holds after a step if every handle and client is either left alone or in order.
LEMMA OrderKept ==
  ASSUME StreamsInv, UNCHANGED <<streamsOut, streamsMade>>,
                                 streamsPump' # "over" => streamsPump # "over",
         streamsSlips \subseteq streamsSlips',
         streamsGone' = streamsGone \/ ~(streamsSlips' \subseteq {"early"}),
         \A h \in Handle' : KeptHandle(h) \/ GoodHandle(h),
         \A c \in Clients : KeptClient(c) \/ GoodClient(c)
  PROVE  OutAscends' /\ ScreensInOrder' /\ Gapless'
<1>1. OutAscends'
  BY DEF StreamsInv, OutAscends, Written
<1>2. ScreensInOrder'
  <2> SUFFICES ASSUME "raced" \notin streamsSlips'
               PROVE  /\ \A h \in Handle' : HandleAscends(h)'
                      /\ \A c \in Clients : ClientAscends(c)'
    BY DEF ScreensInOrder
  <2>1. (\A h \in Handle : HandleAscends(h)) /\ (\A c \in Clients : ClientAscends(c))
    BY DEF StreamsInv, ScreensInOrder
  <2>2. ASSUME NEW h \in Handle' PROVE HandleAscends(h)'
    <3>1. KeptHandle(h) => h \in Handle
      BY DEF KeptHandle
    <3> QED BY <2>1, <3>1, KeptHandleHolds DEF GoodHandle
  <2>3. ASSUME NEW c \in Clients PROVE ClientAscends(c)'
    BY <2>1, KeptClientHolds DEF GoodClient
  <2> QED BY <2>2, <2>3
<1>3. Gapless'
  <2> SUFFICES ASSUME streamsSlips' \subseteq {"early"}
               PROVE  /\ OutRuns'
                      /\ \A h \in Handle' : HandleRuns(h)'
                      /\ \A c \in Clients : ClientRuns(c)'
    BY DEF Gapless
  <2>1. /\ OutRuns /\ (\A h \in Handle : HandleRuns(h)) /\ (\A c \in Clients : ClientRuns(c))
        /\ streamsGone' = streamsGone
    BY DEF StreamsInv, Gapless
  <2>2. ASSUME NEW h \in Handle' PROVE HandleRuns(h)'
    <3>1. KeptHandle(h) => h \in Handle
      BY DEF KeptHandle
    <3> QED BY <2>1, <3>1, KeptHandleHolds DEF GoodHandle
  <2>3. ASSUME NEW c \in Clients PROVE ClientRuns(c)'
    BY <2>1, KeptClientHolds DEF GoodClient
  <2>4. OutRuns'
    BY <2>1 DEF OutRuns, Position
  <2> QED BY <2>2, <2>3, <2>4
<1> QED BY <1>1, <1>2, <1>3

LEMMA KeysKept ==
  ASSUME StreamsInv, UNCHANGED <<streamsKeys, streamsTyped, streamsInCursor,
                                 streamsSent>> PROVE KeysInOrder'
BY DEF StreamsInv, KeysInOrder

\* A queue, or a client, for which the end of the stream has not changed.
KeptQueue(h) ==
    /\ h \in Handle
    /\ streamsHandles'[h].loop = streamsHandles[h].loop
    /\ streamsHandles[h].consumer # "off" =>
           streamsHandles'[h].consumer = streamsHandles[h].consumer
KeptEnds(c) ==
    /\ streamsClient'[c].at = streamsClient[c].at
    /\ streamsClient'[c].sees = streamsClient[c].sees
    /\ streamsClient'[c].queue = streamsClient[c].queue
    /\ streamsClient'[c].subscribed = streamsClient[c].subscribed
    /\ streamsClient[c].step \in {"off", "looked", "got"} <=> streamsClient'[c].step \in {"off",
           "looked", "got"}
    /\ streamsClient[c].at # 0 =>
          /\ streamsHandles'[streamsClient[c].at].loop = streamsHandles[streamsClient[c].at].loop
          /\ streamsHandles[streamsClient[c].at].consumer # "off" =>
                streamsHandles'[streamsClient[c].at].consumer =
                    streamsHandles[streamsClient[c].at].consumer

LEMMA EmptySeq == Elems(<<>>) = {} /\ EofLast(<<>>) /\ Ascends(<<>>) /\ Consecutive(<<>>)
<1>1. Len(<<>>) = 0
  OBVIOUS
<1>2. 1..0 = {} /\ 1..(0 - 1) = {}
  BY SMT
<1> QED BY <1>1, <1>2 DEF Elems, EofLast, Ascends, Consecutive

\* So with the ends.
LEMMA EndsKept ==
  ASSUME StreamsInv,
         \A h \in Handle' : KeptQueue(h) \/ HandleEnds(h)',
         \A c \in Clients : KeptEnds(c) \/ ClientEnds(c)'
  PROVE  EndsOnce'
<1>1. /\ \A h \in Handle : HandleEnds(h)
      /\ \A c \in Clients : ClientEnds(c) /\ (streamsClient[c].at = 0 <=>
             streamsClient[c].step = "off")
  BY DEF StreamsInv, EndsOnce, ClientShapes
<1>2. ASSUME NEW h \in Handle' PROVE HandleEnds(h)'
  <2>1. CASE KeptQueue(h)
    <3>1. HandleEnds(h)
      BY <1>1, <2>1 DEF KeptQueue
    <3>2. CASE streamsHandles[h].consumer = "off"
      BY <2>1, <3>1, <3>2, EmptySeq DEF KeptQueue, HandleEnds
    <3> QED BY <2>1, <3>1, <3>2 DEF KeptQueue, HandleEnds
  <2> QED BY <1>2, <2>1
<1>3. ASSUME NEW c \in Clients PROVE ClientEnds(c)'
  <2>1. CASE KeptEnds(c)
    <3>1. CASE streamsClient[c].step \in {"off", "looked", "got"}
      BY <1>1, <2>1, <3>1, EmptySeq DEF KeptEnds, ClientEnds
    <3>2. CASE streamsClient[c].step \notin {"off", "looked", "got"}
      <4>1. streamsClient[c].at # 0 /\ streamsHandles[streamsClient[c].at].consumer # "off"
        BY <1>1, <3>2 DEF ClientEnds
      <4> QED BY <1>1, <2>1, <3>2, <4>1 DEF KeptEnds, ClientEnds
    <3> QED BY <3>1, <3>2
  <2> QED BY <1>3, <2>1
<1> QED BY <1>2, <1>3 DEF EndsOnce

\* Shapes that only grow with the stream and with the handles.
LEMMA ClientShapesKept ==
  ASSUME ClientShapes, UNCHANGED streamsClient, Len(streamsHandles') \in Nat,
         Len(streamsHandles) \in Nat, Len(streamsOut) \in Nat,
         Len(streamsHandles) <= Len(streamsHandles'), Len(streamsOut') \in Nat,
             Len(streamsOut) <= Len(streamsOut')
  PROVE  ClientShapes'
<1> USE DEF ClientShapes, ClientRecords
<1>1. \A c \in Clients :
          streamsClient[c].at \in Nat /\ streamsClient[c].from \in Nat /\ streamsClient[c].read
              \in Nat
  OBVIOUS
<1> QED BY <1>1

\* A handle's fields have their types.
LEMMA HandleTypes ==
  ASSUME HandleShapes
  PROVE  /\ streamsHandles \in [Handle -> StreamHandles] /\ Len(streamsHandles) \in Nat
         /\ 1 \in Handle
         /\ \A h \in Handle : /\ streamsHandles[h] \in StreamHandles
                              /\ streamsHandles[h].cursor \in Nat
                              /\ streamsHandles[h].loop \in Seq(0..MaxOut)
                              /\ streamsHandles[h].buffer \in Seq(Streams!Chunks)
                              /\ streamsHandles[h].consumer \in {"off", "runs", "over"}
                              /\ streamsHandles[h].alive \in BOOLEAN
<1>1. streamsHandles \in [Handle -> StreamHandles] /\ Len(streamsHandles) \in Nat /\ 1 \in Handle
  BY SeqFcn DEF HandleShapes, Handle
<1>2. \A h \in Handle : streamsHandles[h] \in StreamHandles
  BY <1>1
<1> QED BY <1>1, <1>2 DEF StreamHandles

LEMMA HandleShapesKept ==
  ASSUME HandleShapes, UNCHANGED <<streamsHandles, streamsCache>>, streamsConnects \in Nat,
                                   streamsConnects' \in Nat,
                                   streamsConnects <= streamsConnects',
         Len(streamsOut) \in Nat, Len(streamsOut') \in Nat, Len(streamsOut) <= Len(streamsOut')
  PROVE  HandleShapes'
<1>1. \A h \in Handle : streamsHandles[h].cursor \in Nat
  BY HandleTypes
<1>2. Len(streamsHandles) \in Nat
  BY HandleTypes
<1> QED BY <1>1, <1>2 DEF HandleShapes, Handle

\* A handle's record changes, and no other.
LEMMA OneHandle ==
  ASSUME HandleShapes, UNCHANGED <<streamsOut, streamsCache, streamsConnects>>, NEW h \in Handle,
         streamsHandles' \in [1..Len(streamsHandles) -> StreamHandles],
         \A g \in Handle : g # h => streamsHandles'[g] = streamsHandles[g],
         streamsHandles'[h].cursor <= Len(streamsOut)
  PROVE  HandleShapes' /\ Len(streamsHandles') = Len(streamsHandles) /\ Handle' = Handle
<1>1. Len(streamsHandles) \in Nat
  BY SeqFcn DEF HandleShapes
<1>2. streamsHandles' \in Seq(StreamHandles) /\ Len(streamsHandles') = Len(streamsHandles)
  BY <1>1, FcnSeq
<1>3. Handle' = Handle
  BY <1>2 DEF Handle
<1>4. \A g \in Handle : streamsHandles'[g].cursor <= Len(streamsOut)
  BY DEF HandleShapes
<1> QED BY <1>2, <1>3, <1>4 DEF HandleShapes

-----------------------------------------------------------------------------
(* The order, from the parts of a handle or a client that an action sets      *)

\* With the stream unchanged, a handle or a client with these fields is in order.
LEMMA HandleAscendsBy ==
  ASSUME UNCHANGED <<streamsOut, streamsMade>>, NEW h, NEW b, NEW l, NEW n,
         streamsHandles'[h].buffer = b, streamsHandles'[h].loop = l,
             streamsHandles'[h].cursor = n,
         Ascends(b), Ascends(l), AllBefore(Elems(b), Elems(l)),
         AllBefore(Elems(b) \cup Elems(l), Ahead(n)), Written(Elems(b) \cup Elems(l))
  PROVE  HandleAscends(h)'
<1>1. Ahead(n)' = Ahead(n)
  BY DEF Ahead
<1>2. Written(Elems(b) \cup Elems(l))'
  BY DEF Written
<1>3. Ahead(streamsHandles[h].cursor)' = Ahead(n)
  BY <1>1 DEF Ahead
<1> QED BY <1>2, <1>3 DEF HandleAscends, Written

LEMMA ClientAscendsBy ==
  ASSUME UNCHANGED <<streamsOut, streamsMade>>, NEW c, NEW s, NEW q, NEW a, NEW l, NEW n,
         streamsClient'[c].sees = s, streamsClient'[c].queue = q, streamsClient'[c].at = a,
         a # 0 => streamsHandles'[a].loop = l /\ streamsHandles'[a].cursor = n,
         Ascends(s), Ascends(q), AllBefore(Elems(s), Elems(q)), Written(Elems(s) \cup Elems(q)),
         a # 0 => /\ AllBefore(Elems(s) \cup Elems(q), Elems(l))
                  /\ AllBefore(Elems(s) \cup Elems(q), Ahead(n))
  PROVE  ClientAscends(c)'
<1>1. Ahead(n)' = Ahead(n)
  BY DEF Ahead
<1>2. Written(Elems(s) \cup Elems(q))'
  BY DEF Written
<1>3. a # 0 => Ahead(streamsHandles[a].cursor)' = Ahead(n)
  BY <1>1 DEF Ahead
<1> QED BY <1>2, <1>3 DEF ClientAscends, Written

LEMMA HandleRunsBy ==
  ASSUME UNCHANGED streamsOut, NEW h, NEW b, NEW l, NEW n,
         streamsHandles'[h].buffer = b, streamsHandles'[h].loop = l,
             streamsHandles'[h].cursor = n,
         streamsGone' <= n, Len(l) <= n, \A i \in 1..Len(l) : l[i] = streamsOut[n - Len(l) + i],
         Consecutive(b), EndsAt(b, n - Len(l))
  PROVE  HandleRuns(h)'
<1>1. EndsAt(b, n - Len(l))'
  BY DEF EndsAt, Position
<1>2. EndsAt(streamsHandles[h].buffer, Fanned(h))'
  BY <1>1 DEF EndsAt, Position, Fanned
<1> QED BY <1>2 DEF HandleRuns, Fanned

LEMMA ClientRunsBy ==
  ASSUME UNCHANGED streamsOut, NEW c, NEW s, NEW q, NEW a, NEW n,
         streamsClient'[c].sees = s, streamsClient'[c].queue = q, streamsClient'[c].at = a,
         a # 0 => streamsHandles'[a].cursor - Len(streamsHandles'[a].loop) = n,
         Consecutive(s), Consecutive(q),
         s # <<>> /\ q # <<>> => q[1] = Streams!Eof \/ q[1] = s[Len(s)] + 1,
         streamsClient'[c].step \in {"waits", "sends", "left"} => streamsClient'[c].subscribed,
         a # 0 => EndsAt(q, n) /\ (q = <<>> => EndsAt(s, n))
  PROVE  ClientRuns(c)'
<1>1. a # 0 => EndsAt(q, n)' /\ (q = <<>> => EndsAt(s, n)')
  BY DEF EndsAt, Position
<1>2. streamsClient'[c].at # 0 => EndsAt(streamsClient[c].queue, Fanned(streamsClient[c].at))'
                                  /\ (streamsClient'[c].queue = <<>> =>
                                         EndsAt(streamsClient[c].sees,
                                             Fanned(streamsClient[c].at))')
  BY <1>1 DEF EndsAt, Position, Fanned
<1> QED BY <1>2 DEF ClientRuns

-----------------------------------------------------------------------------
(* The owner's side                                                           *)

\* create() has published the terminal: nothing is on any screen.
LEMMA InitStreams == ASSUME Streams!Init PROVE StreamsInv
<1> USE StreamsAssumption DEF Streams!Init
<1> DEFINE first == [worker |-> Forker, alive |-> TRUE, stopping |-> FALSE,
                     consumer |-> "off", cursor |-> 0, loop |-> <<>>, buffer |-> <<>>]
<1>1. first \in StreamHandles
  BY DEF StreamHandles
<1>2. /\ streamsHandles = <<first>>
      /\ Len(streamsHandles) = 1
      /\ streamsHandles[1] = first
      /\ Handle = {1}
  BY SMT DEF Handle
<1>3. Len(<<>>) = 0 /\ 1..0 = {}
  BY SMT
<1>4. FlatShapes
  <2>1. <<>> \in Seq(0..MaxOut) /\ <<>> \in Seq(1..MaxKeys)
    BY SMT
  <2>2. /\ streamsGone \in 0..Len(streamsOut)
        /\ streamsMade \in 0..MaxOut
        /\ streamsInCursor \in 0..Len(streamsKeys)
        /\ streamsSent \in 0..MaxKeys
        /\ streamsConnects \in 0..MaxConnects
        /\ streamsFaults \in 0..MaxFaults
    BY <1>3
  <2> QED BY <2>1, <2>2 DEF FlatShapes
<1>5. HandleShapes
  <2>1. streamsHandles \in Seq(StreamHandles)
    BY <1>1, <1>2
  <2>2. first.cursor <= Len(streamsOut)
    BY <1>3
  <2> QED BY <1>2, <2>1, <2>2 DEF HandleShapes
<1>6. \A c \in Clients : streamsClient[c] = Streams!Away
  OBVIOUS
<1>7. ClientShapes
  <2>1. Streams!Away \in ClientRecords
    BY DEF Streams!Away, ClientRecords, ClientSteps
  <2> QED BY <1>2, <1>3, <1>6, <2>1 DEF ClientShapes, Streams!Away
<1>8. Elems(streamsOut) = {} /\ EndsWithEof
  BY <1>2, EmptySeq DEF EndsWithEof
<1>9. EndsOnce
  BY <1>2, <1>6, EmptySeq DEF EndsOnce, HandleEnds, ClientEnds, Streams!Away
<1>10. OutAscends
  BY <1>8, EmptySeq DEF OutAscends, Written
<1>11. ScreensInOrder
  <2>1. HandleAscends(1)
    BY <1>2, EmptySeq DEF HandleAscends, AllBefore, Written
  <2>2. \A c \in Clients : ClientAscends(c)
    BY <1>6, EmptySeq DEF ClientAscends, AllBefore, Written, Streams!Away
  <2> QED BY <1>2, <2>1, <2>2 DEF ScreensInOrder
<1>12. Gapless
  <2>1. OutRuns
    BY <1>3 DEF OutRuns, Position
  <2>2. HandleRuns(1)
    BY <1>2, <1>3, EmptySeq DEF HandleRuns, EndsAt
  <2>3. \A c \in Clients : ClientRuns(c)
    BY <1>6, EmptySeq DEF ClientRuns, Streams!Away
  <2> QED BY <1>2, <2>1, <2>2, <2>3 DEF Gapless
<1>13. KeysInOrder
  BY <1>3 DEF KeysInOrder
<1> QED BY <1>4, <1>5, <1>7, <1>8, <1>9, <1>10, <1>11, <1>12, <1>13 DEF StreamsInv

LEMMA StreamLengths == ASSUME StreamsInv
  PROVE /\ Len(streamsOut) \in Nat
        /\ Len(streamsHandles) \in Nat
        /\ streamsConnects \in Nat
        /\ streamsMade \in Nat
        /\ Len(streamsKeys) \in Nat
        /\ Len(streamsTyped) \in Nat
BY SeqFcn, HandleTypes DEF StreamsInv, FlatShapes

LEMMA StartOwnerIoKeeps == ASSUME StreamsInv, Streams!StartOwnerIo PROVE StreamsInv'
<1> USE DEF Streams!StartOwnerIo, Streams!ptyVars
<1>1. /\ Len(streamsOut) \in Nat
      /\ Len(streamsHandles) \in Nat
      /\ streamsConnects \in Nat
      /\ Len(streamsKeys) \in Nat
  BY StreamLengths
<1>2. streamsSlips \subseteq streamsSlips' /\ streamsSlips' \subseteq streamsSlips \cup {"early"}
  BY DEF Streams!Slip
<1>3. FlatShapes'
  BY <1>1, <1>2 DEF StreamsInv, FlatShapes, StreamSlips
<1>4. HandleShapes' /\ ClientShapes'
  BY <1>1, ClientShapesKept, HandleShapesKept DEF StreamsInv
<1>5. EndsWithEof'
  BY DEF StreamsInv, EndsWithEof, FlatShapes
<1>6. EndsOnce'
  BY EndsKept DEF KeptQueue, KeptEnds, Handle
<1>7. OutAscends' /\ ScreensInOrder' /\ Gapless'
  BY <1>2, OrderKept DEF KeptHandle, KeptClient, Handle
<1>8. KeysInOrder'
  BY <1>1 DEF StreamsInv, KeysInOrder, FlatShapes
<1> QED BY <1>3, <1>4, <1>5, <1>6, <1>7, <1>8 DEF StreamsInv

LEMMA ShellExitsKeeps == ASSUME StreamsInv, Streams!ShellExits PROVE StreamsInv'
<1> USE DEF Streams!ShellExits, Streams!ptyVars, Streams!inputVars
<1>1. Len(streamsOut) \in Nat /\ Len(streamsHandles) \in Nat /\ streamsConnects \in Nat
  BY StreamLengths
<1>2. FlatShapes' /\ EndsWithEof'
  BY DEF StreamsInv, FlatShapes, EndsWithEof
<1>4. HandleShapes' /\ ClientShapes'
  BY <1>1, ClientShapesKept, HandleShapesKept DEF StreamsInv
<1>6. EndsOnce'
  BY EndsKept DEF KeptQueue, KeptEnds, Handle
<1>7. OutAscends' /\ ScreensInOrder' /\ Gapless'
  BY OrderKept DEF KeptHandle, KeptClient, Handle
<1>8. KeysInOrder'
  BY KeysKept
<1> QED BY <1>2, <1>4, <1>6, <1>7, <1>8 DEF StreamsInv

LEMMA CreateReturnsKeeps == ASSUME StreamsInv, Streams!CreateReturns PROVE StreamsInv'
<1> USE DEF Streams!CreateReturns, Streams!inputVars
<1>1. Len(streamsOut) \in Nat /\ Len(streamsHandles) \in Nat /\ streamsConnects \in Nat
  BY StreamLengths
<1>2. streamsHandles \in [Handle -> StreamHandles] /\ 1 \in Handle
  BY HandleTypes DEF StreamsInv
<1>3. /\ streamsHandles' \in [1..Len(streamsHandles) -> StreamHandles]
      /\ \A h \in Handle : /\ streamsHandles'[h].loop = streamsHandles[h].loop
                           /\ streamsHandles'[h].buffer = streamsHandles[h].buffer
                           /\ streamsHandles'[h].cursor = streamsHandles[h].cursor
                           /\ h # 1 => streamsHandles'[h] = streamsHandles[h]
      /\ streamsHandles'[1].consumer = "runs"
  BY <1>2 DEF StreamHandles, Handle
<1>4. HandleShapes' /\ Len(streamsHandles') = Len(streamsHandles) /\ Handle' = Handle
  BY <1>2, <1>3, OneHandle DEF StreamsInv, HandleShapes
<1>5. ClientShapes'
  BY <1>1, <1>4, ClientShapesKept DEF StreamsInv
<1>6. FlatShapes'
  BY <1>2 DEF StreamsInv, FlatShapes, StreamHandles
<1>7. EndsWithEof'
  BY <1>3 DEF StreamsInv, FlatShapes, EndsWithEof
<1>8. \A h \in Handle : KeptQueue(h) /\ KeptHandle(h)
  BY <1>2, <1>3 DEF KeptQueue, KeptHandle
<1>9. \A c \in Clients : streamsClient[c].at # 0 => streamsClient[c].at \in Handle
  BY <1>1 DEF StreamsInv, ClientShapes, ClientRecords, Handle
<1>10. \A c \in Clients : KeptEnds(c) /\ KeptClient(c)
  BY <1>3, <1>8, <1>9 DEF KeptEnds, KeptClient, KeptQueue
<1>11. EndsOnce'
  BY <1>4, <1>8, <1>10, EndsKept
<1>12. OutAscends' /\ ScreensInOrder' /\ Gapless'
  BY <1>4, <1>8, <1>10, OrderKept
<1> QED BY <1>4, <1>5, <1>6, <1>7, <1>11, <1>12, KeysKept DEF StreamsInv

\* The faults that a run counts keep their bound.
LEMMA FaultsBounded == ASSUME StreamsInv,
                              UNCHANGED streamsFaults \/ Streams!Fault
                                  PROVE streamsFaults' \in 0..MaxFaults
<1>1. streamsFaults \in 0..MaxFaults /\ MaxFaults \in Nat
  BY StreamsAssumption DEF StreamsInv, FlatShapes
<1>2. CASE UNCHANGED streamsFaults
  BY <1>1, <1>2
<1>3. CASE Streams!Fault
  <2>1. streamsFaults < MaxFaults /\ streamsFaults' = streamsFaults + 1
    BY <1>3 DEF Streams!Fault
  <2> QED BY <1>1, <2>1
<1> QED BY <1>2, <1>3

LEMMA InputTypesKeeps == ASSUME StreamsInv, Streams!InputTypes PROVE StreamsInv'
<1> USE DEF Streams!InputTypes, Streams!ptyVars
<1>1. /\ Len(streamsOut) \in Nat
      /\ Len(streamsHandles) \in Nat
      /\ streamsConnects \in Nat
      /\ Len(streamsKeys) \in Nat
      /\ Len(streamsTyped) \in Nat
  BY StreamLengths
<1>2. streamsHandles \in [Handle -> StreamHandles] /\ 1 \in Handle
  BY HandleTypes DEF StreamsInv
<1>3. /\ streamsHandles' \in [1..Len(streamsHandles) -> StreamHandles]
      /\ \A h \in Handle : /\ streamsHandles'[h].loop = streamsHandles[h].loop
                           /\ streamsHandles'[h].buffer = streamsHandles[h].buffer
                           /\ streamsHandles'[h].cursor = streamsHandles[h].cursor
                           /\ streamsHandles'[h].consumer = streamsHandles[h].consumer
                           /\ h # 1 => streamsHandles'[h] = streamsHandles[h]
  <2>1. CASE UNCHANGED streamsHandles
    BY <1>2, <2>1 DEF Handle
  <2>2. CASE streamsHandles' = [streamsHandles EXCEPT ![1].alive = FALSE]
    <3>1. streamsHandles[1] \in StreamHandles
      BY <1>2
    <3>2. [streamsHandles[1] EXCEPT !.alive = FALSE] \in StreamHandles
      BY <3>1 DEF StreamHandles
    <3>3. streamsHandles' = [streamsHandles EXCEPT
                               ![1] = [streamsHandles[1] EXCEPT !.alive = FALSE]]
      BY <1>2, <2>2
    <3>4. streamsHandles' \in [1..Len(streamsHandles) -> StreamHandles]
      BY <1>2, <3>2, <3>3 DEF Handle
    <3>5. \A h \in Handle : h # 1 => streamsHandles'[h] = streamsHandles[h]
      BY <1>2, <3>3
    <3>6. streamsHandles'[1] = [streamsHandles[1] EXCEPT !.alive = FALSE]
      BY <1>2, <3>3
    <3>7. /\ streamsHandles'[1].loop = streamsHandles[1].loop
          /\ streamsHandles'[1].buffer = streamsHandles[1].buffer
          /\ streamsHandles'[1].cursor = streamsHandles[1].cursor
          /\ streamsHandles'[1].consumer = streamsHandles[1].consumer
      BY <3>1, <3>6 DEF StreamHandles
    <3> QED BY <3>4, <3>5, <3>7
  <2> QED BY <2>1, <2>2
<1>4. HandleShapes' /\ Len(streamsHandles') = Len(streamsHandles) /\ Handle' = Handle
  BY <1>2, <1>3, OneHandle DEF StreamsInv, HandleShapes
<1>5. ClientShapes'
  BY <1>1, <1>4, ClientShapesKept DEF StreamsInv
<1>6. FlatShapes' /\ KeysInOrder'
  <2>8. /\ streamsKeys \in Seq(1..MaxKeys)
        /\ streamsInCursor \in 0..Len(streamsKeys)
        /\ streamsInCursor < Len(streamsKeys)
    BY DEF StreamsInv, FlatShapes
  <2>9. streamsKeys \in [1..Len(streamsKeys) -> 1..MaxKeys]
    BY <2>8, SeqFcn
  <2>0. /\ streamsInCursor + 1 \in 1..Len(streamsKeys)
        /\ streamsInCursor \in Nat
        /\ streamsKeys \in [1..Len(streamsKeys) -> 1..MaxKeys]
    BY <1>1, <2>8, <2>9
  <2>1. /\ streamsKeys[streamsInCursor + 1] \in 1..MaxKeys
        /\ streamsInCursor + 1 \in 1..Len(streamsKeys)
        /\ streamsInCursor \in Nat
    BY <2>0
  <2>2. /\ streamsTyped' \in Seq(1..MaxKeys) /\ Len(streamsTyped') \in Nat
        /\ \A i \in 1..Len(streamsTyped') : \/ i \in 1..Len(streamsTyped) /\ streamsTyped'[i] =
                                                   streamsTyped[i]
                                            \/ i = Len(streamsTyped) + 1 /\ streamsTyped'[i] =
                                                   streamsKeys[streamsInCursor + 1]
    <3>1. CASE UNCHANGED streamsTyped
      BY <1>1, <3>1 DEF StreamsInv, FlatShapes
    <3>2. CASE streamsTyped' = Append(streamsTyped, streamsKeys[streamsInCursor + 1])
      <4>1. /\ streamsTyped' \in Seq(1..MaxKeys) /\ Len(streamsTyped') = Len(streamsTyped) + 1
            /\ \A i \in 1..Len(streamsTyped) : streamsTyped'[i] = streamsTyped[i]
            /\ streamsTyped'[Len(streamsTyped) + 1] = streamsKeys[streamsInCursor + 1]
        BY <2>1, <3>2, AppendedSeq DEF StreamsInv, FlatShapes
      <4> QED BY <1>1, <4>1
    <3> QED BY <3>1, <3>2
  <2>6. streamsFaults' \in 0..MaxFaults
    <3>1. UNCHANGED streamsFaults \/ Streams!Fault
      OBVIOUS
    <3> QED BY <3>1, FaultsBounded
  <2>7. streamsInCursor' \in 0..Len(streamsKeys)
    BY <1>1, <2>1
  <2>3. FlatShapes'
    BY <2>2, <2>6, <2>7 DEF StreamsInv, FlatShapes
  <2>4. /\ \A i, j \in 1..Len(streamsTyped') : i < j => streamsTyped'[i] < streamsTyped'[j]
        /\ \A i \in 1..Len(streamsTyped') : streamsTyped'[i] <= streamsSent
        /\ \A i \in 1..Len(streamsTyped'), j \in 1..Len(streamsKeys) : j > streamsInCursor + 1 =>
               streamsTyped'[i] < streamsKeys[j]
    <3> DEFINE k == streamsInCursor + 1
    <3>1. /\ \A i, j \in 1..Len(streamsKeys) : i < j => streamsKeys[i] < streamsKeys[j]
          /\ \A i, j \in 1..Len(streamsTyped) : i < j => streamsTyped[i] < streamsTyped[j]
          /\ \A i \in 1..Len(streamsTyped) :
                 streamsTyped[i] < streamsKeys[k] /\ streamsTyped[i] <= streamsSent
          /\ \A i \in 1..Len(streamsTyped), j \in 1..Len(streamsKeys) : j > k =>
                 streamsTyped[i] < streamsKeys[j]
          /\ streamsKeys[k] <= streamsSent /\ k \in 1..Len(streamsKeys)
      <4>1. KeysInOrder /\ k \in 1..Len(streamsKeys) /\ k > streamsInCursor
        BY <2>1 DEF StreamsInv
      <4>2. \A i \in 1..Len(streamsTyped) :
               streamsTyped[i] < streamsKeys[k] /\ streamsTyped[i] <= streamsSent
        BY <4>1 DEF KeysInOrder
      <4>3. \A j \in 1..Len(streamsKeys) : j > k => j > streamsInCursor
        BY <2>1
      <4>4. \A i \in 1..Len(streamsTyped), j \in 1..Len(streamsKeys) : j > k =>
               streamsTyped[i] < streamsKeys[j]
        BY <4>1, <4>3 DEF KeysInOrder
      <4> QED BY <4>1, <4>2, <4>4 DEF KeysInOrder
    <3> HIDE DEF k
    <3>2. \A i, j \in 1..Len(streamsTyped') : i < j => streamsTyped'[i] < streamsTyped'[j]
      BY <1>1, <2>2, <3>1 DEF k
    <3>3. \A i \in 1..Len(streamsTyped') : streamsTyped'[i] <= streamsSent
      BY <2>2, <3>1 DEF k
    <3>4. \A i \in 1..Len(streamsTyped'), j \in 1..Len(streamsKeys) : j > k =>
              streamsTyped'[i] < streamsKeys[j]
      BY <1>1, <2>2, <3>1 DEF k
    <3> QED BY <3>2, <3>3, <3>4 DEF k
  <2>5. KeysInOrder'
    BY <2>4 DEF StreamsInv, KeysInOrder
  <2> QED BY <2>3, <2>5
<1>7. EndsWithEof'
  BY <1>2, <1>3 DEF StreamsInv, FlatShapes, EndsWithEof
<1>8. \A h \in Handle : KeptQueue(h) /\ KeptHandle(h)
  BY <1>2, <1>3 DEF KeptQueue, KeptHandle
<1>9. \A c \in Clients : streamsClient[c].at # 0 => streamsClient[c].at \in Handle
  BY <1>1 DEF StreamsInv, ClientShapes, ClientRecords, Handle
<1>10. \A c \in Clients : KeptEnds(c) /\ KeptClient(c)
  BY <1>3, <1>8, <1>9 DEF KeptEnds, KeptClient, KeptQueue
<1>11. EndsOnce'
  BY <1>4, <1>8, <1>10, EndsKept
<1>12. OutAscends' /\ ScreensInOrder' /\ Gapless'
  BY <1>4, <1>8, <1>10, OrderKept
<1> QED BY <1>4, <1>5, <1>6, <1>7, <1>11, <1>12 DEF StreamsInv

\* A frame is added to the stream, of the shell's or its last.
Appends(f) ==
    /\ Streams!Add(f)
    /\ \/ f = Streams!Eof /\ streamsMade' = streamsMade /\ streamsPump' = "over"
       \/ f = streamsMade + 1 /\ streamsMade' = streamsMade + 1 /\ streamsPump' = streamsPump

\* Positions of the stream.
LEMMA OutFacts == ASSUME StreamsInv
  PROVE /\ streamsOut \in Seq(Nat)
        /\ Len(streamsOut) \in Nat
        /\ streamsMade \in Nat
        /\ streamsGone \in Nat
        /\ \A i \in Position : streamsOut[i] \in Nat /\ streamsOut[i] \in Elems(streamsOut)
        /\ \A h \in Handle : streamsHandles[h].cursor \in 0..Len(streamsOut)
<1>1. /\ streamsOut \in Seq(0..MaxOut)
      /\ streamsMade \in 0..MaxOut
      /\ Len(streamsOut) \in Nat
      /\ streamsGone \in 0..Len(streamsOut)
  BY StreamLengths DEF StreamsInv, FlatShapes
<1>2. streamsOut \in Seq(Nat)
  <2>1. 0..MaxOut \subseteq Nat
    OBVIOUS
  <2> QED BY <1>1, <2>1, Wider
<1>3. \A i \in Position : streamsOut[i] \in Nat /\ streamsOut[i] \in Elems(streamsOut)
  BY <1>2, SeqFcn DEF Position, Elems
<1> QED BY <1>1, <1>2, <1>3, HandleTypes DEF StreamsInv, HandleShapes

\* What an added frame leaves of the stream, and the frames before it.
LEMMA Appending ==
  ASSUME StreamsInv, streamsReader, NEW f \in Nat, Appends(f)
  PROVE  /\ streamsOut' \in Seq(Nat)
         /\ Len(streamsOut') = Len(streamsOut) + 1
         /\ streamsGone' \in 0..Len(streamsOut')
         /\ \A i \in Position : streamsOut'[i] = streamsOut[i] /\ streamsOut[i] # Streams!Eof
         /\ streamsOut'[Len(streamsOut) + 1] = f
         /\ Elems(streamsOut)' = Elems(streamsOut) \cup {f}
         /\ Streams!Eof \notin Elems(streamsOut) /\ EofLast(streamsOut)'
         /\ f \in 0..MaxOut => streamsOut' \in Seq(0..MaxOut)
         /\ streamsSlips \subseteq streamsSlips'
         /\ streamsSlips' \subseteq streamsSlips \cup {"trimmed"}
         /\ streamsGone' = 0 \/ streamsGone' < Len(streamsOut') \/ streamsGone' = streamsGone
         /\ "trimmed" \notin streamsSlips' => \A h \in Handle :
                streamsGone' <= streamsHandles[h].cursor
         /\ OutAscends'
<1>1. /\ streamsOut \in Seq(Nat)
      /\ Len(streamsOut) \in Nat
      /\ streamsMade \in Nat
      /\ streamsOut' = Append(streamsOut, f)
      /\ streamsGone \in 0..Len(streamsOut)
  BY OutFacts DEF Appends, Streams!Add, StreamsInv, FlatShapes
<1>2. /\ streamsOut' \in Seq(Nat) /\ Len(streamsOut') = Len(streamsOut) + 1
      /\ \A i \in 1..Len(streamsOut) : streamsOut'[i] = streamsOut[i]
      /\ streamsOut'[Len(streamsOut) + 1] = f
  BY <1>1, AppendedSeq
<1>3. Streams!Eof \notin Elems(streamsOut)
  BY DEF StreamsInv, EndsWithEof
<1>4. /\ Elems(streamsOut') = Elems(streamsOut) \cup {f} /\ EofLast(streamsOut')
      /\ Ascends(streamsOut) /\ AllBefore(Elems(streamsOut), {f}) => Ascends(streamsOut')
  BY <1>1, <1>3, AppendedOrder
<1>5. \A i \in Position : streamsOut[i] # Streams!Eof /\ streamsOut'[i] = streamsOut[i]
  BY <1>2, <1>3, OutFacts DEF Position
<1>6. f = Streams!Eof \/ (f = streamsMade + 1 /\ streamsMade' = streamsMade + 1)
  BY DEF Appends
<1>7. streamsMade' \in Nat /\ streamsMade <= streamsMade' /\ f <= streamsMade'
  BY <1>1 DEF Appends, Streams!Eof
<1>8. Ascends(streamsOut) /\ Written(Elems(streamsOut)) /\ Elems(streamsOut) \subseteq Nat
  BY OutFacts DEF StreamsInv, OutAscends, Elems, Position
<1>9. AllBefore(Elems(streamsOut), {f})
  BY <1>1, <1>6, <1>8 DEF AllBefore, Written, Before
<1>10. OutAscends'
  <2>1. \A x \in Elems(streamsOut) : x <= streamsMade'
    BY <1>1, <1>7, <1>8 DEF Written
  <2>2. \A x \in Elems(streamsOut)' : x <= streamsMade'
    BY <1>4, <1>7, <2>1 DEF Elems
  <2>3. Ascends(streamsOut)'
    BY <1>4, <1>8, <1>9 DEF Ascends
  <2> QED BY <2>2, <2>3 DEF OutAscends, Written
<1> DEFINE left == IF Len(streamsOut) + 1 > Keep + streamsGone THEN Len(streamsOut) + 1 - Keep
               ELSE streamsGone
<1>11. /\ left \in Nat
       /\ streamsGone' = left
       /\ streamsSlips' = streamsSlips \cup (IF \E h \in DOMAIN streamsHandles :
              streamsHandles[h].cursor < left
                                             THEN {"trimmed"} ELSE {})
  BY StreamsAssumption, <1>1 DEF Appends, Streams!Add, Streams!Slip
<1>12. /\ streamsGone' \in 0..Len(streamsOut')
       /\ (streamsGone' = 0 \/ streamsGone' < Len(streamsOut') \/ streamsGone' = streamsGone)
  BY StreamsAssumption, <1>1, <1>2, <1>11
<1>13. "trimmed" \notin streamsSlips' => \A h \in Handle :
           streamsGone' <= streamsHandles[h].cursor
  <2>1. DOMAIN streamsHandles = Handle
    BY SeqFcn DEF StreamsInv, HandleShapes, Handle
  <2>2. \A h \in Handle : streamsHandles[h].cursor \in Nat
    BY OutFacts
  <2> QED BY <1>11, <2>1, <2>2
<1>14. f \in 0..MaxOut => streamsOut' \in Seq(0..MaxOut)
  BY <1>1, AppendedSeq DEF StreamsInv, FlatShapes
<1>15. Elems(streamsOut)' = Elems(streamsOut') /\ EofLast(streamsOut)' = EofLast(streamsOut')
  BY DEF Elems, EofLast
<1> QED BY <1>2, <1>3, <1>4, <1>5, <1>10, <1>11, <1>12, <1>13, <1>14, <1>15

\* The added frame is after all that is on its way.
LEMMA GrowsInOrder ==
  ASSUME StreamsInv, streamsReader, UNCHANGED <<streamsHandles, streamsClient>>,
         streamsSlips \subseteq streamsSlips', streamsMade' \in Nat, streamsMade <= streamsMade',
         streamsOut' = streamsOut \/ (\E f \in Nat : Appends(f))
  PROVE  ScreensInOrder'
<1>1. /\ streamsMade \in Nat /\ Len(streamsOut) \in Nat
      /\ \A h \in Handle : streamsHandles[h].cursor \in 0..Len(streamsOut)
  BY OutFacts
<1>2. ASSUME NEW A, A \subseteq Nat, Written(A), NEW n \in 0..Len(streamsOut), AllBefore(A,
             Ahead(n))
      PROVE  AllBefore(A, Ahead(n)') /\ Written(A)'
  <2>1. Written(A)'
    BY <1>1, <1>2 DEF Written
  <2>2. CASE streamsOut' = streamsOut
    BY <1>2, <2>1, <2>2 DEF Ahead
  <2>3. CASE \E f \in Nat : Appends(f)
    <3>1. PICK f \in Nat : Appends(f)
      BY <2>3
    <3>2. /\ Len(streamsOut') = Len(streamsOut) + 1 /\ streamsOut'[Len(streamsOut) + 1] = f
          /\ \A i \in Position : streamsOut'[i] = streamsOut[i]
      BY <3>1, Appending
    <3>3. \A x \in A : Before(x, f)
      BY <1>1, <1>2, <3>1 DEF Appends, Written, Before
    <3>4. Ahead(n)' \subseteq Ahead(n) \cup {f}
      <4> SUFFICES ASSUME NEW k \in (n + 1)..Len(streamsOut')
                       PROVE streamsOut'[k] \in Ahead(n) \cup {f}
        BY DEF Ahead
      <4>1. CASE k = Len(streamsOut) + 1
        BY <3>2, <4>1
      <4>2. CASE k # Len(streamsOut) + 1
        <5>1. k \in (n + 1)..Len(streamsOut) /\ k \in Position
          BY <1>1, <1>2, <3>2, <4>2 DEF Position
        <5> QED BY <3>2, <5>1 DEF Ahead
      <4> QED BY <4>1, <4>2
    <3> QED BY <1>2, <2>1, <3>3, <3>4 DEF AllBefore
  <2> QED BY <2>2, <2>3
<1>3. Handle' = Handle
  BY DEF Handle
<1> SUFFICES ASSUME "raced" \notin streamsSlips'
             PROVE  /\ \A h \in Handle : HandleAscends(h)'
                    /\ \A c \in Clients : ClientAscends(c)'
  BY <1>3 DEF ScreensInOrder
<1>4. /\ \A h \in Handle : HandleAscends(h)
      /\ \A c \in Clients : ClientAscends(c)
  BY DEF StreamsInv, ScreensInOrder
<1>5. ASSUME NEW h \in Handle PROVE HandleAscends(h)'
  <2>0. \E B, L, k : /\ B = Elems(streamsHandles[h].buffer) /\ L = Elems(streamsHandles[h].loop)
                     /\ k = streamsHandles[h].cursor
    OBVIOUS
  <2>1. PICK B, L, n : /\ B = Elems(streamsHandles[h].buffer) /\ L =
                              Elems(streamsHandles[h].loop)
                       /\ n = streamsHandles[h].cursor
    BY <2>0
  <2>2. B \subseteq Streams!Chunks /\ L \subseteq 0..MaxOut
    BY <2>1, HandleTypes, ElemsIn DEF StreamsInv
  <2>3. B \cup L \subseteq Nat
    BY <2>2 DEF Streams!Chunks
  <2>4. n \in 0..Len(streamsOut) /\ Written(B \cup L) /\ AllBefore(B \cup L, Ahead(n))
    BY <1>1, <1>4, <2>1 DEF HandleAscends
  <2>5. AllBefore(B \cup L, Ahead(n)') /\ Written(B \cup L)'
    BY <1>2, <2>3, <2>4
  <2>6. /\ B = Elems(streamsHandles[h].buffer)'
        /\ L = Elems(streamsHandles[h].loop)'
        /\ n = streamsHandles'[h].cursor
    BY <2>1 DEF Elems
  <2>7. AllBefore(B, L) /\ Ascends(streamsHandles[h].buffer)' /\ Ascends(streamsHandles[h].loop)'
    BY <1>4, <2>1 DEF HandleAscends, Ascends
  <2> QED BY <2>5, <2>6, <2>7 DEF HandleAscends, Ahead, Written
<1>6. ASSUME NEW c \in Clients PROVE ClientAscends(c)'
  <2>0. \E B, L, h, k : /\ B = Elems(streamsClient[c].sees) /\ L = Elems(streamsClient[c].queue)
                        /\ h = streamsClient[c].at /\ k = streamsHandles[h].cursor
    OBVIOUS
  <2>1. PICK B, L, h, n : /\ B = Elems(streamsClient[c].sees) /\ L =
                                 Elems(streamsClient[c].queue)
                          /\ h = streamsClient[c].at /\ n = streamsHandles[h].cursor
    BY <2>0
  <2>2. B \subseteq Streams!Chunks /\ L \subseteq 0..MaxOut
    BY <2>1, ElemsIn DEF StreamsInv, ClientShapes, ClientRecords
  <2>3. B \cup L \subseteq Nat
    BY <2>2 DEF Streams!Chunks
  <2>8. h # 0 => h \in Handle
    BY <2>1, HandleTypes DEF StreamsInv, ClientShapes, ClientRecords, Handle
  <2>4. /\ Written(B \cup L)
        /\ h # 0 => n \in 0..Len(streamsOut) /\ AllBefore(B \cup L, Ahead(n))
    BY <1>1, <1>4, <2>1, <2>8 DEF ClientAscends
  <2>5. h # 0 => AllBefore(B \cup L, Ahead(n)')
    BY <1>2, <2>3, <2>4
  <2>6. /\ B = Elems(streamsClient[c].sees)' /\ L = Elems(streamsClient[c].queue)'
        /\ h = streamsClient'[c].at /\ n = streamsHandles'[h].cursor
    BY <2>1 DEF Elems
  <2>9. Written(B \cup L)'
    BY <1>1, <2>3, <2>4 DEF Written
  <2>7. /\ AllBefore(B, L) /\ Ascends(streamsClient[c].sees)' /\ Ascends(streamsClient[c].queue)'
        /\ h # 0 => AllBefore(B \cup L, Elems(streamsHandles[h].loop)')
    BY <1>4, <2>1 DEF ClientAscends, Ascends, Elems
  <2> QED BY <2>5, <2>6, <2>7, <2>9 DEF ClientAscends, Ahead, Written, Elems
<1> QED BY <1>5, <1>6

\* It is the next of the stream; only an unread entry that it trims leaves a gap.
LEMMA GrowsGapless ==
  ASSUME StreamsInv, streamsReader, UNCHANGED <<streamsHandles, streamsClient>>,
         NEW f \in Nat, Appends(f)
  PROVE  Gapless'
<1>1. /\ streamsOut' \in Seq(Nat)
      /\ Len(streamsOut') = Len(streamsOut) + 1
      /\ streamsGone' \in 0..Len(streamsOut')
      /\ \A i \in Position : streamsOut'[i] = streamsOut[i] /\ streamsOut[i] # Streams!Eof
      /\ streamsOut'[Len(streamsOut) + 1] = f
      /\ streamsSlips \subseteq streamsSlips'
      /\ streamsSlips' \subseteq streamsSlips \cup {"trimmed"}
      /\ streamsGone' = 0 \/ streamsGone' < Len(streamsOut') \/ streamsGone' = streamsGone
      /\ "trimmed" \notin streamsSlips' => \A h \in Handle :
             streamsGone' <= streamsHandles[h].cursor
  BY Appending
<1>2. /\ Len(streamsOut) \in Nat /\ streamsMade \in Nat /\ streamsGone \in Nat
      /\ \A h \in Handle :
             streamsHandles[h].cursor \in 0..Len(streamsOut) /\ Len(streamsHandles[h].loop)
                 \in Nat
  BY OutFacts, HandleTypes, SeqFcn DEF StreamsInv
<1>3. Handle' = Handle
  BY DEF Handle
<1> SUFFICES ASSUME streamsSlips' \subseteq {"early"}
             PROVE  /\ OutRuns'
                    /\ \A h \in Handle : HandleRuns(h)'
                    /\ \A c \in Clients : ClientRuns(c)'
  BY <1>3 DEF Gapless
<1>4. OutRuns /\ (\A h \in Handle : HandleRuns(h)) /\ (\A c \in Clients : ClientRuns(c))
  BY <1>1 DEF StreamsInv, Gapless
<1>5. streamsPump = "runs"
  BY DEF StreamsInv, EndsWithEof
<1>6. OutRuns'
  <2>1. streamsMade = Len(streamsOut)
    BY <1>4, <1>5 DEF OutRuns
  <2>2. f = Streams!Eof \/ (f = Len(streamsOut) + 1 /\ streamsMade' = streamsMade + 1)
    BY <2>1 DEF Appends
  <2>3. \A i \in 1..Len(streamsOut') : i \in Position \/ i = Len(streamsOut) + 1
    BY <1>1, <1>2 DEF Position
  <2>4. \A i \in 1..Len(streamsOut') : streamsOut'[i] = Streams!Eof \/ streamsOut'[i] = i
    BY <1>1, <1>4, <2>2, <2>3 DEF OutRuns
  <2>5. streamsPump' # "over" => streamsMade' = Len(streamsOut')
    BY <1>1, <2>1 DEF Appends
  <2>6. streamsGone' = 0 \/ streamsGone' < Len(streamsOut')
    BY <1>1, <1>2, <1>4 DEF OutRuns
  <2> QED BY <2>4, <2>5, <2>6 DEF OutRuns, Position
<1>7. ASSUME NEW s, NEW n, EndsAt(s, n) PROVE EndsAt(s, n)'
  <2>1. s # <<>> => n \in Position /\ s[Len(s)] = n
    BY <1>1, <1>7 DEF EndsAt
  <2>2. \A i \in Position : i \in 1..Len(streamsOut')
    BY <1>1, <1>2 DEF Position
  <2> QED BY <2>1, <2>2 DEF EndsAt, Position
<1>8. ASSUME NEW h \in Handle PROVE HandleRuns(h)'
  <2>1. streamsGone' <= streamsHandles[h].cursor
    BY <1>1
  <2>2. \E b, l, k : /\ b = streamsHandles[h].buffer
                     /\ l = streamsHandles[h].loop
                     /\ k = streamsHandles[h].cursor
    OBVIOUS
  <2>3. PICK b, l, k : /\ b = streamsHandles[h].buffer
                       /\ l = streamsHandles[h].loop
                       /\ k = streamsHandles[h].cursor
    BY <2>2
  <2>4. /\ Len(l) <= k /\ (\A i \in 1..Len(l) : l[i] = streamsOut[k - Len(l) + i])
        /\ Consecutive(b) /\ EndsAt(b, k - Len(l)) /\ k \in 0..Len(streamsOut) /\ Len(l) \in Nat
    BY <1>2, <1>4, <2>3 DEF HandleRuns, Fanned
  <2>5. \A i \in 1..Len(l) : l[i] = streamsOut'[k - Len(l) + i]
    <3>1. \A i \in 1..Len(l) : k - Len(l) + i \in Position
      BY <1>2, <2>4 DEF Position
    <3> QED BY <1>1, <2>4, <3>1
  <2>6. EndsAt(b, k - Len(l))'
    BY <1>7, <2>4
  <2> QED BY <2>1, <2>3, <2>4, <2>5, <2>6 DEF HandleRuns, Fanned, Consecutive, EndsAt, Position
<1>9. ASSUME NEW c \in Clients PROVE ClientRuns(c)'
  <2>2. \E s, q, n : /\ s = streamsClient[c].sees
                     /\ q = streamsClient[c].queue
                     /\ n = Fanned(streamsClient[c].at)
    OBVIOUS
  <2>3. PICK s, q, n : /\ s = streamsClient[c].sees
                       /\ q = streamsClient[c].queue
                       /\ n = Fanned(streamsClient[c].at)
    BY <2>2
  <2>4. streamsClient[c].at # 0 => EndsAt(q, n) /\ (q = <<>> => EndsAt(s, n))
    BY <1>4, <2>3 DEF ClientRuns
  <2>5. streamsClient[c].at # 0 => EndsAt(q, n)' /\ (q = <<>> => EndsAt(s, n)')
    BY <1>7, <2>4
  <2>6. n = Fanned(streamsClient[c].at)'
    BY <2>3 DEF Fanned
  <2> QED BY <1>4, <2>3, <2>5, <2>6 DEF ClientRuns, Consecutive, EndsAt, Position
<1> QED BY <1>6, <1>8, <1>9

\* What the stream's growth leaves alone.
LEMMA GrowthKeeps ==
  ASSUME StreamsInv, streamsReader,
         UNCHANGED <<streamsShell, Streams!inputVars, streamsHandles, streamsCache,
                     streamsClient, streamsRemoved, streamsConnects>>,
         Streams!Outputs \/ Streams!PtyEnds
  PROVE  StreamsInv'
<1> USE DEF Streams!inputVars
<1>1. /\ Len(streamsOut) \in Nat
      /\ Len(streamsHandles) \in Nat
      /\ streamsConnects \in Nat
      /\ streamsMade \in 0..MaxOut
  BY StreamLengths DEF StreamsInv, FlatShapes
<1>2. streamsPump = "runs" /\ streamsHandles[1].consumer # "off"
  BY DEF StreamsInv, EndsWithEof
<1>3. \/ \E f \in 0..MaxOut : Appends(f) /\ UNCHANGED streamsFaults /\ (f = Streams!Eof <=>
             Streams!PtyEnds) /\ (f # Streams!Eof <=> Streams!Outputs)
      \/ UNCHANGED <<streamsOut,
                     streamsGone>> /\ Streams!Fault /\ streamsSlips' = streamsSlips \cup {"lost"}
  <2>1. CASE Streams!Outputs
    <3>1. /\ streamsMade + 1 \in 0..MaxOut
          /\ streamsMade + 1 # Streams!Eof
          /\ streamsMade' = streamsMade + 1
          /\ streamsPump' = streamsPump
      BY StreamsAssumption, <1>1, <2>1 DEF Streams!Outputs, Streams!Eof
    <3>2. streamsShell = "runs"
      BY <2>1 DEF Streams!Outputs
    <3>3. ~Streams!PtyEnds
      BY <3>2 DEF Streams!PtyEnds
    <3> QED BY <2>1, <3>1, <3>3 DEF Streams!Outputs, Appends, Streams!Slip
  <2>2. CASE Streams!PtyEnds
    <3>1. /\ Streams!Eof \in 0..MaxOut
          /\ streamsMade' = streamsMade
          /\ streamsPump' = "over"
          /\ streamsShell = "over"
      BY StreamsAssumption, <1>1, <2>2 DEF Streams!PtyEnds, Streams!Eof
    <3>2. ~Streams!Outputs
      BY <3>1 DEF Streams!Outputs
    <3> QED BY <2>2, <3>1, <3>2 DEF Streams!PtyEnds, Appends, Streams!Slip
  <2> QED BY <2>1, <2>2
<1>4. /\ streamsMade' \in 0..MaxOut /\ streamsMade <= streamsMade' /\ streamsReader' \in BOOLEAN
      /\ \/ Streams!Outputs /\ streamsPump' = streamsPump /\ streamsReader' = streamsReader
         \/ Streams!PtyEnds /\ streamsPump' = "over" /\ streamsReader' = FALSE
  <2>1. streamsReader = TRUE
    BY DEF StreamsInv, FlatShapes
  <2>2. CASE Streams!Outputs
    <3>1. streamsMade < MaxOut /\ streamsMade' = streamsMade + 1
      BY <2>2 DEF Streams!Outputs
    <3>2. streamsMade' \in 0..MaxOut /\ streamsMade <= streamsMade'
      BY StreamsAssumption, <1>1, <3>1
    <3> QED BY <2>1, <2>2, <3>2 DEF Streams!Outputs
  <2>3. CASE Streams!PtyEnds
    <3>1. streamsMade' = streamsMade /\ streamsPump' = "over" /\ streamsReader' = FALSE
      BY <2>3 DEF Streams!PtyEnds
    <3>2. streamsMade' \in 0..MaxOut /\ streamsMade <= streamsMade'
      BY <1>1, <3>1
    <3> QED BY <2>3, <3>1, <3>2
  <2> QED BY <2>2, <2>3
<1>5. /\ streamsOut' \in Seq(0..MaxOut) /\ streamsGone' \in 0..Len(streamsOut')
      /\ Len(streamsOut') \in Nat /\ Len(streamsOut) <= Len(streamsOut')
      /\ streamsSlips \subseteq streamsSlips'
      /\ streamsSlips' \subseteq StreamSlips
      /\ streamsFaults' \in 0..MaxFaults
      /\ OutAscends'
      /\ EofLast(streamsOut)' /\ (Streams!Eof \in Elems(streamsOut)' => streamsPump' = "over")
  <2>1. CASE UNCHANGED <<streamsOut,
                         streamsGone>> /\ Streams!Fault /\ streamsSlips' = streamsSlips
                             \cup {"lost"}
    <3>1. /\ Streams!Eof \notin Elems(streamsOut)'
          /\ EofLast(streamsOut)'
          /\ Elems(streamsOut)' = Elems(streamsOut)
      BY <1>2, <2>1 DEF StreamsInv, EndsWithEof, EofLast, Elems
    <3>2. OutAscends'
      <4>1. \A x \in Elems(streamsOut) : x \in Nat /\ x <= streamsMade
        BY OutFacts, ElemsIn DEF StreamsInv, OutAscends, Written
      <4>2. \A x \in Elems(streamsOut) : x <= streamsMade'
        BY <1>1, <1>4, <4>1
      <4> QED BY <2>1, <3>1, <4>2 DEF StreamsInv, OutAscends, Written, Ascends
    <3>3. streamsSlips \subseteq streamsSlips' /\ streamsSlips' \subseteq StreamSlips
      BY <2>1 DEF StreamsInv, FlatShapes, StreamSlips
    <3>4. streamsFaults' \in 0..MaxFaults
      BY <2>1, FaultsBounded
    <3> QED BY <1>1, <2>1, <3>1, <3>2, <3>3, <3>4 DEF StreamsInv, FlatShapes
  <2>2. CASE ~(UNCHANGED <<streamsOut,
                           streamsGone>> /\ Streams!Fault /\ streamsSlips' = streamsSlips
                               \cup {"lost"})
    <3>1. PICK f \in 0..MaxOut : Appends(f) /\ UNCHANGED streamsFaults /\ (f = Streams!Eof <=>
                   Streams!PtyEnds)
      BY <1>3, <2>2
    <3>2. f \in Nat
      OBVIOUS
    <3>3. /\ streamsOut' \in Seq(0..MaxOut)
          /\ Len(streamsOut') = Len(streamsOut) + 1
          /\ streamsGone' \in 0..Len(streamsOut')
          /\ Elems(streamsOut)' = Elems(streamsOut) \cup {f}
          /\ Streams!Eof \notin Elems(streamsOut)
          /\ EofLast(streamsOut)'
          /\ streamsSlips \subseteq streamsSlips'
          /\ streamsSlips' \subseteq streamsSlips \cup {"trimmed"}
          /\ OutAscends'
      BY <3>1, <3>2, Appending
    <3>4. Streams!Eof \in Elems(streamsOut)' => streamsPump' = "over"
      BY <3>1, <3>3 DEF Streams!PtyEnds, Elems
    <3>5. streamsSlips' \subseteq StreamSlips /\ streamsFaults' \in 0..MaxFaults
      BY <3>1, <3>3 DEF StreamsInv, FlatShapes, StreamSlips
    <3> QED BY <1>1, <3>3, <3>4, <3>5
  <2> QED BY <2>1, <2>2
<1>6. FlatShapes'
  BY <1>2, <1>4, <1>5 DEF StreamsInv, FlatShapes
<1>7. HandleShapes' /\ ClientShapes'
  BY <1>1, <1>5, ClientShapesKept, HandleShapesKept DEF StreamsInv
<1>8. EndsWithEof'
  BY <1>2, <1>4, <1>5 DEF EndsWithEof
<1>9. EndsOnce'
  BY EndsKept DEF KeptQueue, KeptEnds, Handle
<1>10. ScreensInOrder'
  <2>1. streamsOut' = streamsOut \/ \E f \in Nat : Appends(f)
    BY <1>3
  <2> QED BY <1>4, <1>5, <2>1, GrowsInOrder
<1>11. Gapless'
  <2>1. CASE \E f \in Nat : Appends(f)
    BY <2>1, GrowsGapless
  <2>2. CASE ~\E f \in Nat : Appends(f)
    <3>1. "lost" \in streamsSlips'
      BY <1>3, <2>2
    <3> QED BY <3>1 DEF Gapless
  <2> QED BY <2>1, <2>2
<1>12. KeysInOrder'
  BY KeysKept
<1> QED BY <1>5, <1>6, <1>7, <1>8, <1>9, <1>10, <1>11, <1>12 DEF StreamsInv

LEMMA OutputsKeeps == ASSUME StreamsInv, Streams!Outputs PROVE StreamsInv'
BY GrowthKeeps DEF Streams!Outputs
LEMMA PtyEndsKeeps == ASSUME StreamsInv, Streams!PtyEnds PROVE StreamsInv'
BY GrowthKeeps DEF Streams!PtyEnds

-----------------------------------------------------------------------------
(* A worker's consumer and event loop                                         *)

\* The frame at the cursor goes to the loop: it is before what is ahead, after what waits.
LEMMA ConsumeKeeps ==
  ASSUME StreamsInv, NEW h \in DOMAIN streamsHandles, Streams!Consume(h) PROVE StreamsInv'
<1>1. /\ Len(streamsOut) \in Nat
      /\ Len(streamsHandles) \in Nat
      /\ streamsConnects \in Nat
      /\ streamsOut \in Seq(Nat)
      /\ streamsGone \in Nat
      /\ streamsOut \in Seq(0..MaxOut) /\ streamsMade \in Nat
  BY StreamLengths, OutFacts DEF StreamsInv, FlatShapes
<1>2. /\ streamsHandles \in [Handle -> StreamHandles] /\ h \in Handle
      /\ \A g \in Handle : /\ streamsHandles[g].cursor \in 0..Len(streamsOut)
                           /\ streamsHandles[g].loop \in Seq(0..MaxOut)
                           /\ streamsHandles[g].loop \in Seq(Nat)
  <2>1. \A g \in Handle :
            streamsHandles[g].cursor \in 0..Len(streamsOut) /\ streamsHandles[g].loop
                \in Seq(0..MaxOut)
    BY HandleTypes, OutFacts DEF StreamsInv
  <2>2. 0..MaxOut \subseteq Nat
    OBVIOUS
  <2>3. \A g \in Handle : streamsHandles[g].loop \in Seq(Nat)
    BY <2>1, <2>2, Wider
  <2> QED BY <2>1, <2>3, HandleTypes DEF StreamsInv
<1>3. \E k, b, l, m : /\ m = Streams!Newer(h) /\ k = streamsHandles[h].cursor
                      /\ b = streamsHandles[h].buffer /\ l = streamsHandles[h].loop
  OBVIOUS
<1>4. PICK k, b, l, m : /\ m = Streams!Newer(h) /\ k = streamsHandles[h].cursor
                        /\ b = streamsHandles[h].buffer /\ l = streamsHandles[h].loop
  BY <1>3
<1>5. /\ k \in 0..Len(streamsOut) /\ m \in (k + 1)..Len(streamsOut) /\ m \in Position
      /\ m = (IF k < streamsGone THEN streamsGone + 1 ELSE k + 1)
      /\ l \in Seq(Nat) /\ l \in Seq(0..MaxOut)
  <2>1. k \in 0..Len(streamsOut) /\ l \in Seq(Nat) /\ l \in Seq(0..MaxOut)
    BY <1>1, <1>2, <1>4
  <2>2. m = (IF k < streamsGone THEN streamsGone + 1 ELSE k + 1)
    BY <1>4, <2>1 DEF Streams!Newer
  <2>3. m <= Len(streamsOut)
    BY <1>4 DEF Streams!Consume
  <2>4. m \in (k + 1)..Len(streamsOut)
    <3>1. k \in Nat /\ m \in Nat /\ k + 1 <= m
      BY <1>1, <2>1, <2>2
    <3> QED BY <1>1, <2>3, <3>1
  <2> QED BY <2>1, <2>2, <2>4 DEF Position
<1>6. streamsOut[m] \in 0..MaxOut /\ streamsOut[m] \in Elems(streamsOut) /\ streamsOut[m] \in Nat
  BY <1>1, <1>5, OutFacts, SeqFcn DEF Position
<1>7. PICK f \in Nat : f = streamsOut[m] /\ f \in 0..MaxOut /\ f \in Elems(streamsOut)
  BY <1>6
<1>8. streamsHandles' = [streamsHandles EXCEPT ![h].cursor = m,
                                               ![h].loop = Append(@, f),
                                               ![h].alive = @ /\ f # Streams!Eof,
                                               ![h].consumer = IF f = Streams!Eof THEN "over"
                                                   ELSE @]
  BY <1>4, <1>7 DEF Streams!Consume
<1>9. /\ Append(l, f) \in Seq(0..MaxOut) /\ Len(Append(l, f)) = Len(l) + 1
      /\ \A i \in 1..Len(l) : Append(l, f)[i] = l[i]
      /\ Append(l, f)[Len(l) + 1] = f /\ Len(l) \in Nat
  BY <1>5, <1>7, AppendedSeq, SeqFcn
<1>10. /\ streamsHandles' \in [1..Len(streamsHandles) -> StreamHandles]
       /\ \A g \in Handle : g # h => streamsHandles'[g] = streamsHandles[g]
       /\ streamsHandles'[h].buffer = b /\ streamsHandles'[h].cursor = m
       /\ streamsHandles'[h].loop = Append(l, f)
       /\ streamsHandles'[h].consumer = IF f = Streams!Eof THEN "over"
              ELSE streamsHandles[h].consumer
  <2>1. m \in Nat
    BY <1>1, <1>5
  <2>2. DOMAIN streamsHandles = 1..Len(streamsHandles) /\ streamsHandles[h] \in StreamHandles
    BY <1>2 DEF Handle
  <2>3. streamsHandles' = [streamsHandles EXCEPT ![h] = [streamsHandles[h] EXCEPT
           !.cursor = m, !.loop = Append(l, f), !.alive = @ /\ f # Streams!Eof,
           !.consumer = IF f = Streams!Eof THEN "over" ELSE @]]
    BY <1>4, <1>8
  <2>4. [streamsHandles[h] EXCEPT
           !.cursor = m, !.loop = Append(l, f), !.alive = @ /\ f # Streams!Eof,
           !.consumer = IF f = Streams!Eof THEN "over" ELSE @] \in StreamHandles
    BY <1>9, <2>1, <2>2 DEF StreamHandles
  <2>5. streamsHandles' \in [Handle -> StreamHandles]
    BY <1>2, <2>3, <2>4
  <2>6. \A g \in Handle : g # h => streamsHandles'[g] = streamsHandles[g]
    BY <1>2, <2>3
  <2>7. streamsHandles'[h] = [streamsHandles[h] EXCEPT
           !.cursor = m, !.loop = Append(l, f), !.alive = @ /\ f # Streams!Eof,
           !.consumer = IF f = Streams!Eof THEN "over" ELSE @]
    BY <1>2, <2>3
  <2>8. /\ streamsHandles'[h].buffer = b /\ streamsHandles'[h].cursor = m
        /\ streamsHandles'[h].loop = Append(l, f)
        /\ streamsHandles'[h].consumer = IF f = Streams!Eof THEN "over"
               ELSE streamsHandles[h].consumer
    BY <1>4, <2>2, <2>7 DEF StreamHandles
  <2> QED BY <2>5, <2>6, <2>8 DEF Handle
<1>11. HandleShapes' /\ Len(streamsHandles') = Len(streamsHandles) /\ Handle' = Handle
  <2>1. m <= Len(streamsOut)
    BY <1>1, <1>5
  <2> QED BY <1>2, <1>10, <2>1, OneHandle DEF Streams!Consume, StreamsInv
<1>12. ClientShapes'
  BY <1>1, <1>11, ClientShapesKept DEF Streams!Consume, StreamsInv
<1>13. FlatShapes' /\ KeysInOrder'
  BY KeysKept DEF Streams!Consume, StreamsInv, FlatShapes, Streams!ptyVars, Streams!inputVars
<1>14. streamsHandles[h].consumer = "runs"
  BY DEF Streams!Consume
<1>15. EndsWithEof'
  <2>1. streamsHandles[1].consumer # "off" => streamsHandles'[1].consumer # "off"
    <3>1. 1 \in Handle
      BY HandleTypes DEF StreamsInv
    <3> QED BY <1>10, <1>14, <3>1
  <2>2. UNCHANGED <<streamsReader, streamsPump, streamsOut>>
    BY DEF Streams!Consume, Streams!ptyVars
  <2>3. UNCHANGED EofLast(streamsOut) /\ UNCHANGED Elems(streamsOut)
    BY <2>2 DEF EofLast, Elems
  <2> QED BY <2>1, <2>2, <2>3 DEF StreamsInv, EndsWithEof
<1>16. \A c \in Clients : streamsClient[c].at # 0 => streamsClient[c].at \in Handle
  BY <1>1 DEF StreamsInv, ClientShapes, ClientRecords, Handle
<1>17. UNCHANGED <<streamsOut, streamsMade, streamsGone, streamsSlips, streamsPump,
                   streamsClient>>
  BY DEF Streams!Consume, Streams!ptyVars
<1>18. Streams!Eof \notin Elems(l)
  BY <1>2, <1>4, <1>14 DEF StreamsInv, EndsOnce, HandleEnds
<1>19. /\ Elems(Append(l, f)) = Elems(l) \cup {f} /\ EofLast(Append(l, f))
       /\ Ascends(l) /\ AllBefore(Elems(l), {f}) => Ascends(Append(l, f))
  BY <1>5, <1>18, AppendedOrder
<1>20. EndsOnce'
  <2>1. HandleEnds(h)'
    <3>1. Elems(streamsHandles'[h].loop) = Elems(l) \cup {f} /\ EofLast(streamsHandles'[h].loop)
      BY <1>10, <1>19
    <3>2. streamsHandles'[h].consumer # "off"
      BY <1>10, <1>14
    <3> QED BY <1>10, <1>18, <3>1, <3>2 DEF HandleEnds, EofLast, Elems
  <2>2. \A g \in Handle : g # h => KeptQueue(g)
    BY <1>10 DEF KeptQueue
  <2>3. ASSUME NEW c \in Clients, streamsClient[c].at = h PROVE ClientEnds(c)'
    <3>1. Streams!Eof \notin Elems(streamsClient[c].queue)
      BY <1>14, <2>3 DEF StreamsInv, EndsOnce, ClientEnds
    <3>2. streamsHandles'[h].consumer # "off"
      BY <1>10, <1>14
    <3> QED BY <1>17, <2>3, <3>1, <3>2 DEF StreamsInv, EndsOnce, ClientEnds, EofLast, Elems
  <2>4. ASSUME NEW c \in Clients, streamsClient[c].at # h PROVE KeptEnds(c)
    BY <1>10, <1>16, <1>17, <2>4 DEF KeptEnds
  <2> QED BY <1>11, <2>1, <2>2, <2>3, <2>4, EndsKept
<1>21. OutAscends' /\ ScreensInOrder' /\ Gapless'
  <2>1. \A g \in Handle : g # h => KeptHandle(g)
    BY <1>10 DEF KeptHandle
  <2>2. \A c \in Clients : streamsClient[c].at # h => KeptClient(c)
    BY <1>10, <1>16, <1>17 DEF KeptClient
  <2>3. Ahead(m) \subseteq Ahead(k) /\ f \in Ahead(k) /\ AllBefore({f}, Ahead(m))
    <3>1. Ahead(m) \subseteq Ahead(k) /\ f \in Ahead(k)
      BY <1>1, <1>5, <1>7 DEF Ahead
    <3>2. \A i \in (m + 1)..Len(streamsOut) : Before(streamsOut[m], streamsOut[i])
      <4>1. \A i \in (m + 1)..Len(streamsOut) :
                i \in 1..Len(streamsOut) /\ m \in 1..Len(streamsOut) /\ m < i
        BY <1>1, <1>5
      <4> QED BY <4>1 DEF StreamsInv, OutAscends, Ascends
    <3> QED BY <1>7, <3>1, <3>2 DEF AllBefore, Ahead
  <2>4. f <= streamsMade
    BY <1>7 DEF StreamsInv, OutAscends, Written
  <2>5. ASSUME "raced" \notin streamsSlips' PROVE HandleAscends(h)'
    <3>1. HandleAscends(h)
      BY <1>2, <1>17, <2>5 DEF StreamsInv, ScreensInOrder
    <3>2. \E B : B = Elems(b)
      OBVIOUS
    <3>3. PICK B : B = Elems(b)
      BY <3>2
    <3>4. /\ Ascends(b) /\ Ascends(l) /\ AllBefore(B, Elems(l)) /\ Written(B \cup Elems(l))
          /\ AllBefore(B \cup Elems(l), Ahead(k))
      BY <1>4, <3>1, <3>3 DEF HandleAscends
    <3>5. /\ AllBefore(Elems(l), {f}) /\ AllBefore(B, {f})
          /\ AllBefore(B \cup Elems(l) \cup {f}, Ahead(m)) /\ Written(B \cup Elems(l) \cup {f})
      BY <2>3, <2>4, <3>4 DEF AllBefore, Written
    <3>6. /\ Ascends(Append(l, f)) /\ Elems(Append(l, f)) = Elems(l) \cup {f}
      BY <1>19, <3>4, <3>5
    <3>7. AllBefore(B, Elems(l) \cup {f})
      BY <3>4, <3>5 DEF AllBefore
    <3>8. Ahead(m)' = Ahead(m) /\ \A A : Written(A)' <=> Written(A)
      BY <1>17 DEF Ahead, Written
    <3>9. /\ streamsHandles'[h].buffer = b
          /\ streamsHandles'[h].loop = Append(l, f)
          /\ streamsHandles'[h].cursor = m
          /\ Elems(streamsHandles[h].buffer)' = B
          /\ Elems(streamsHandles[h].loop)' = Elems(l) \cup {f}
          /\ Ahead(streamsHandles[h].cursor)' = Ahead(m)
      BY <1>10, <1>17, <3>3, <3>6 DEF Elems, Ahead
    <3>10. /\ Ascends(streamsHandles[h].buffer)' /\ Ascends(streamsHandles[h].loop)'
           /\ AllBefore(Elems(streamsHandles[h].buffer)', Elems(streamsHandles[h].loop)')
           /\ AllBefore(Elems(streamsHandles[h].buffer)' \cup Elems(streamsHandles[h].loop)',
                  Ahead(streamsHandles[h].cursor)')
           /\ Written(Elems(streamsHandles[h].buffer) \cup Elems(streamsHandles[h].loop))'
      <4>1. Ascends(streamsHandles[h].buffer)' /\ Ascends(streamsHandles[h].loop)'
        BY <3>4, <3>6, <3>9 DEF Ascends
      <4>2. Written(Elems(streamsHandles[h].buffer) \cup Elems(streamsHandles[h].loop))'
        BY <1>17, <3>5, <3>9 DEF Written, Elems
      <4>3. B \cup (Elems(l) \cup {f}) = B \cup Elems(l) \cup {f}
        OBVIOUS
      <4> QED BY <3>5, <3>7, <3>9, <4>1, <4>2, <4>3
    <3> QED BY <3>10 DEF HandleAscends, AllBefore
  <2>6. ASSUME streamsSlips' \subseteq {"early"}
        PROVE  /\ m = k + 1 /\ m - Len(Append(l, f)) = k - Len(l)
               /\ HandleRuns(h)'
    <3>1. HandleRuns(h)
      BY <1>2, <1>17, <2>6 DEF StreamsInv, Gapless
    <3>2. /\ streamsGone <= k
          /\ Len(l) <= k
          /\ (\A i \in 1..Len(l) : l[i] = streamsOut[k - Len(l) + i])
          /\ Consecutive(b) /\ EndsAt(b, k - Len(l))
      BY <1>4, <3>1 DEF HandleRuns, Fanned
    <3>3. m = k + 1 /\ m - Len(Append(l, f)) = k - Len(l)
      BY <1>1, <1>5, <1>9, <3>2
    <3>4. \A i \in 1..Len(Append(l, f)) : Append(l, f)[i] = streamsOut[m - Len(Append(l, f)) + i]
      <4>1. \A i \in 1..Len(Append(l, f)) : i \in 1..Len(l) \/ i = Len(l) + 1
        BY <1>9
      <4>2. k - Len(l) + (Len(l) + 1) = m
        BY <1>5, <1>9, <3>3
      <4> QED BY <1>7, <1>9, <3>2, <3>3, <4>1, <4>2
    <3>5. streamsGone' <= m /\ Len(Append(l, f)) <= m
      BY <1>1, <1>5, <1>9, <1>17, <3>2, <3>3
    <3>6. EndsAt(b, m - Len(Append(l, f)))
      BY <3>2, <3>3
    <3>7. HandleRuns(h)'
      BY <1>10, <1>17, <3>2, <3>4, <3>5, <3>6, HandleRunsBy
    <3> QED BY <3>3, <3>7
  <2>7. ASSUME NEW c \in Clients, streamsClient[c].at = h, "raced" \notin streamsSlips'
        PROVE  ClientAscends(c)'
    <3>1. ClientAscends(c)
      BY <1>17, <2>7 DEF StreamsInv, ScreensInOrder
    <3>2. \E s, q : s = streamsClient[c].sees /\ q = streamsClient[c].queue
      OBVIOUS
    <3>3. PICK s, q : s = streamsClient[c].sees /\ q = streamsClient[c].queue
      BY <3>2
    <3>4. h # 0
      BY <1>2 DEF Handle
    <3>5. /\ Ascends(s) /\ Ascends(q) /\ AllBefore(Elems(s), Elems(q))
          /\ Written(Elems(s) \cup Elems(q))
          /\ AllBefore(Elems(s) \cup Elems(q), Elems(l))
          /\ AllBefore(Elems(s) \cup Elems(q), Ahead(k))
      BY <1>4, <2>7, <3>1, <3>3, <3>4 DEF ClientAscends
    <3>6. /\ AllBefore(Elems(s) \cup Elems(q), Elems(Append(l, f)))
          /\ AllBefore(Elems(s) \cup Elems(q), Ahead(m))
      BY <1>19, <2>3, <3>5 DEF AllBefore
    <3>7. streamsClient'[c].sees = s /\ streamsClient'[c].queue = q /\ streamsClient'[c].at = h
      BY <1>17, <2>7, <3>3
    <3> QED BY <1>10, <1>17, <3>5, <3>6, <3>7, ClientAscendsBy
  <2>8. ASSUME NEW c \in Clients, streamsClient[c].at = h, streamsSlips' \subseteq {"early"}
        PROVE  ClientRuns(c)'
    <3>1. ClientRuns(c)
      BY <1>17, <2>8 DEF StreamsInv, Gapless
    <3>2. Fanned(streamsClient[c].at)' = Fanned(streamsClient[c].at)
      BY <1>4, <1>10, <1>17, <2>6, <2>8 DEF Fanned
    <3> QED BY <1>17, <3>1, <3>2 DEF ClientRuns, EndsAt, Position
  <2>9. ASSUME NEW g \in Handle'
        PROVE  KeptHandle(g) \/ GoodHandle(g)
    BY <1>11, <2>1, <2>5, <2>6 DEF GoodHandle
  <2>10. ASSUME NEW c \in Clients
         PROVE  KeptClient(c) \/ GoodClient(c)
    BY <2>2, <2>7, <2>8 DEF GoodClient
  <2>11. UNCHANGED <<streamsOut, streamsMade, streamsGone, streamsSlips, streamsPump>>
    BY <1>17
  <2>12. /\ streamsPump' # "over" => streamsPump # "over"
         /\ streamsSlips \subseteq streamsSlips'
         /\ streamsGone' = streamsGone \/ ~(streamsSlips' \subseteq {"early"})
    BY <2>11
  <2> QED BY <2>9, <2>10, <2>11, <2>12, OrderKept
<1> QED BY <1>11, <1>12, <1>13, <1>15, <1>20, <1>21 DEF StreamsInv

\* The newest part of a sequence has its order and its end.
LEMMA NewestOf ==
  ASSUME NEW S, S \subseteq Nat, NEW s \in Seq(S), NEW n \in Nat \ {0}
  PROVE  /\ Streams!Newest(s, n) \in Seq(S) /\ Elems(Streams!Newest(s, n)) \subseteq Elems(s)
         /\ Ascends(s) => Ascends(Streams!Newest(s, n))
         /\ Consecutive(s) => Consecutive(Streams!Newest(s, n))
         /\ s # <<>> => Streams!Newest(s, n) # <<>> /\ Streams!Newest(s, n)[Len(Streams!Newest(s,
                n))] = s[Len(s)]
<1>1. s \in Seq(Nat) /\ Len(s) \in Nat
  BY Wider, SeqFcn
<1>2. CASE Len(s) <= n
  BY <1>2 DEF Streams!Newest
<1>3. CASE ~(Len(s) <= n)
  <2> DEFINE m == Len(s) - n + 1
  <2>1. m \in Nat \ {0} /\ Len(s) \in 0..Len(s) /\ Streams!Newest(s, n) = SubSeq(s, m, Len(s))
        /\ m <= Len(s) /\ Len(s) - m + 1 = n
    BY <1>1, <1>3 DEF Streams!Newest
  <2> HIDE DEF m
  <2> DEFINE t == SubSeq(s, m, Len(s))
  <2>2. t \in Seq(S) /\ Len(t) = n /\ \A i \in 1..Len(t) : t[i] = s[m + i - 1]
    BY <2>1, CutSeq
  <2>3. /\ Elems(t) \subseteq Elems(s) /\ (Ascends(s) => Ascends(t))
        /\ (Consecutive(s) => Consecutive(t))
    BY <1>1, <2>1, CutOrder
  <2> HIDE DEF t
  <2>4. t # <<>> /\ t[Len(t)] = s[Len(s)]
    <3>1. n \in 1..Len(t) /\ m + n - 1 = Len(s)
      BY <1>1, <2>1, <2>2
    <3>2. t[n] = s[m + n - 1]
      BY <2>2, <3>1
    <3>3. t # <<>>
      BY <2>2, NoneIn
    <3> QED BY <2>2, <3>1, <3>2, <3>3
  <2> QED BY <2>1, <2>2, <2>3, <2>4 DEF t
<1> QED BY <1>2, <1>3

\* A client's fields have their types, as has what a handle has queued.
LEMMA ClientTypes ==
  ASSUME StreamsInv, NEW c \in Clients
  PROVE  /\ streamsClient \in [Clients -> ClientRecords] /\ streamsClient[c] \in ClientRecords
         /\ streamsClient[c].sees \in Seq(Streams!Chunks) /\ streamsClient[c].sees \in Seq(Nat)
         /\ streamsClient[c].queue \in Seq(0..MaxOut) /\ streamsClient[c].queue \in Seq(Nat)
         /\ Len(streamsClient[c].queue) \in Nat /\ Len(streamsClient[c].queue) <= Room
         /\ streamsClient[c].at \in Nat
         /\ streamsClient[c].from \in Nat
         /\ streamsClient[c].read \in Nat
         /\ streamsClient[c].at # 0 => streamsClient[c].at \in Handle
         /\ streamsClient[c].at = 0 <=> streamsClient[c].step = "off"
<1>1. streamsClient \in [Clients -> ClientRecords] /\ streamsClient[c] \in ClientRecords
  BY DEF StreamsInv, ClientShapes
<1>2. /\ streamsClient[c].sees \in Seq(Streams!Chunks)
      /\ streamsClient[c].queue \in Seq(0..MaxOut)
      /\ streamsClient[c].at \in Nat
      /\ streamsClient[c].from \in Nat
      /\ streamsClient[c].read \in Nat
  BY <1>1 DEF ClientRecords
<1>3. Streams!Chunks \subseteq Nat /\ 0..MaxOut \subseteq Nat
  BY DEF Streams!Chunks
<1>4. streamsClient[c].sees \in Seq(Nat) /\ streamsClient[c].queue \in Seq(Nat)
  BY <1>2, <1>3, Wider
<1>5. Len(streamsClient[c].queue) \in Nat /\ Len(streamsClient[c].queue) <= Room
  BY <1>2, SeqFcn DEF StreamsInv, ClientShapes
<1>6. streamsClient[c].at # 0 => streamsClient[c].at \in Handle
  BY <1>2, HandleTypes DEF StreamsInv, ClientShapes, Handle
<1>7. streamsClient[c].at = 0 <=> streamsClient[c].step = "off"
  BY DEF StreamsInv, ClientShapes
<1> QED BY <1>1, <1>2, <1>4, <1>5, <1>6, <1>7

LEMMA HandleSeqs ==
  ASSUME StreamsInv, NEW h \in Handle
  PROVE  /\ streamsHandles[h].loop \in Seq(Nat) /\ streamsHandles[h].buffer \in Seq(Nat)
         /\ Len(streamsHandles[h].loop) \in Nat /\ Len(streamsHandles[h].buffer) \in Nat
<1>1. /\ streamsHandles[h].loop \in Seq(0..MaxOut)
      /\ streamsHandles[h].buffer \in Seq(Streams!Chunks)
  BY HandleTypes DEF StreamsInv
<1>2. Streams!Chunks \subseteq Nat /\ 0..MaxOut \subseteq Nat
  BY DEF Streams!Chunks
<1> QED BY <1>1, <1>2, Wider, SeqFcn

\* The loop's head goes to the buffer and to every subscriber; those who miss it are named.
LEMMA FanOutKeeps ==
  ASSUME StreamsInv, NEW h \in DOMAIN streamsHandles, Streams!FanOut(h) PROVE StreamsInv'
<1>1. /\ Len(streamsOut) \in Nat /\ Len(streamsHandles) \in Nat /\ streamsConnects \in Nat
      /\ streamsHandles \in [Handle -> StreamHandles] /\ h \in Handle
  BY StreamLengths, HandleTypes DEF StreamsInv
<1>2. UNCHANGED <<streamsShell, streamsMade, streamsReader, streamsPump, streamsOut, streamsGone,
                  Streams!inputVars, streamsCache, streamsRemoved, streamsConnects,
                  streamsFaults>>
  BY DEF Streams!FanOut, Streams!ptyVars
<1>3. \E b, l, n : /\ b = streamsHandles[h].buffer
                   /\ l = streamsHandles[h].loop
                   /\ n = streamsHandles[h].cursor
  OBVIOUS
<1>4. PICK b, l, n : /\ b = streamsHandles[h].buffer
                     /\ l = streamsHandles[h].loop
                     /\ n = streamsHandles[h].cursor
  BY <1>3
<1>5. /\ b \in Seq(Streams!Chunks) /\ l \in Seq(0..MaxOut) /\ b \in Seq(Nat) /\ l \in Seq(Nat)
      /\ Len(l) \in Nat /\ Len(b) \in Nat /\ n \in 0..Len(streamsOut) /\ l # <<>>
  BY <1>1, <1>4, HandleTypes, HandleSeqs, OutFacts DEF StreamsInv, Streams!FanOut
<1>6. /\ Tail(l) \in Seq(0..MaxOut) /\ Len(Tail(l)) = Len(l) - 1 /\ Len(l) >= 1
      /\ \A i \in 1..(Len(l) - 1) : Tail(l)[i] = l[i + 1]
      /\ Head(l) = l[1] /\ Head(l) \in 0..MaxOut
  BY <1>5, TailedSeq
<1>7. /\ Elems(Tail(l)) \subseteq Elems(l) /\ Head(l) \in Elems(l)
      /\ Ascends(l) => Ascends(Tail(l)) /\ AllBefore({Head(l)}, Elems(Tail(l)))
      /\ EofLast(l) => EofLast(Tail(l)) /\ (Head(l) = Streams!Eof => Tail(l) = <<>>)
  BY <1>5, TailedOrder
<1>8. PICK f \in Nat : f = Head(l) /\ f \in 0..MaxOut
  BY <1>6
<1>9. PICK t : t = Tail(l)
  OBVIOUS
<1>10. \E r : r = IF f = Streams!Eof THEN b ELSE Streams!Newest(Append(b, f), Keep)
  OBVIOUS
<1>11. PICK r : r = IF f = Streams!Eof THEN b ELSE Streams!Newest(Append(b, f), Keep)
  BY <1>10
<1>12. /\ r \in Seq(Streams!Chunks) /\ Elems(r) \subseteq Elems(b) \cup {f}
       /\ Ascends(b) /\ AllBefore(Elems(b), {f}) => Ascends(r)
       /\ f = Streams!Eof => r = b
       /\ f # Streams!Eof => r # <<>> /\ r[Len(r)] = f
       /\ Consecutive(b) /\ (b = <<>> \/ f = Streams!Eof \/ f = b[Len(b)] + 1) => Consecutive(r)
  <2>1. CASE f = Streams!Eof
    BY <1>5, <1>11, <2>1
  <2>2. CASE f # Streams!Eof
    <3>1. f \in Streams!Chunks /\ Streams!Chunks \subseteq Nat
      BY <1>8, <2>2 DEF Streams!Chunks, Streams!Eof
    <3>2. PICK a : a = Append(b, f)
      OBVIOUS
    <3>3. a \in Seq(Streams!Chunks) /\ Len(a) = Len(b) + 1 /\ a[Len(b) + 1] = f
      BY <1>5, <3>1, <3>2, AppendedSeq
    <3>4. /\ Elems(a) = Elems(b) \cup {f}
          /\ Ascends(b) /\ AllBefore(Elems(b), {f}) => Ascends(a)
          /\ Consecutive(b) /\ (b = <<>> \/ f = Streams!Eof \/ f = b[Len(b)] + 1) =>
                 Consecutive(a)
      BY <1>5, <3>2, AppendedOrder
    <3>5. a # <<>> /\ a[Len(a)] = f
      BY <1>5, <3>3, NoneIn
    <3>6. r = Streams!Newest(a, Keep)
      BY <1>11, <2>2, <3>2
    <3>7. /\ r \in Seq(Streams!Chunks) /\ Elems(r) \subseteq Elems(a)
          /\ Ascends(a) => Ascends(r)
          /\ Consecutive(a) => Consecutive(r)
          /\ a # <<>> => r # <<>> /\ r[Len(r)] = a[Len(a)]
      BY StreamsAssumption, <3>1, <3>3, <3>6, NewestOf
    <3> QED BY <2>2, <3>4, <3>5, <3>7
  <2> QED BY <2>1, <2>2
<1>13. streamsHandles' = [streamsHandles EXCEPT ![h] = [streamsHandles[h] EXCEPT !.loop = t,
           !.buffer = r]]
  BY <1>4, <1>8, <1>9, <1>11 DEF Streams!FanOut
<1>14. /\ streamsHandles' \in [1..Len(streamsHandles) -> StreamHandles]
       /\ \A g \in Handle : g # h => streamsHandles'[g] = streamsHandles[g]
       /\ streamsHandles'[h].buffer = r /\ streamsHandles'[h].cursor = n
       /\ streamsHandles'[h].loop = t
       /\ streamsHandles'[h].consumer = streamsHandles[h].consumer
  <2>1. streamsHandles[h] \in StreamHandles /\ t \in Seq(0..MaxOut) /\ r \in Seq(Streams!Chunks)
    BY <1>1, <1>6, <1>9, <1>12
  <2>2. \E y \in StreamHandles : /\ y = [streamsHandles[h] EXCEPT !.loop = t, !.buffer = r]
                                 /\ streamsHandles' = [streamsHandles EXCEPT ![h] = y]
    <3>1. [streamsHandles[h] EXCEPT !.loop = t, !.buffer = r] \in StreamHandles
      BY <2>1 DEF StreamHandles
    <3> QED BY <1>13, <3>1
  <2>3. /\ streamsHandles' \in [Handle -> StreamHandles]
        /\ \A g \in Handle : g # h => streamsHandles'[g] = streamsHandles[g]
    BY <1>1, <2>2
  <2>4. streamsHandles'[h] = [streamsHandles[h] EXCEPT !.loop = t, !.buffer = r]
    BY <1>1, <1>13
  <2>5. /\ streamsHandles'[h].buffer = r /\ streamsHandles'[h].cursor = n
        /\ streamsHandles'[h].loop = t
        /\ streamsHandles'[h].consumer = streamsHandles[h].consumer
    BY <1>4, <2>1, <2>4 DEF StreamHandles
  <2> QED BY <2>3, <2>5 DEF Handle
<1>15. HandleShapes' /\ Len(streamsHandles') = Len(streamsHandles) /\ Handle' = Handle
  <2>1. HandleShapes /\ h \in Handle /\ UNCHANGED <<streamsOut, streamsCache, streamsConnects>>
    BY <1>1, <1>2 DEF StreamsInv
  <2>2. streamsHandles'[h].cursor <= Len(streamsOut)
    BY <1>1, <1>5, <1>14
  <2> QED BY <1>14, <2>1, <2>2, OneHandle
<1>16. /\ streamsSlips \subseteq streamsSlips' /\ streamsSlips' \subseteq StreamSlips
       /\ (\E c \in Clients : streamsClient[c].at = h /\ Streams!Full(c)) =>
              "full" \in streamsSlips'
       /\ (\E c \in Clients : streamsClient[c].at = h /\ streamsClient[c].step = "sending") =>
              "missed" \in streamsSlips'
  BY DEF Streams!FanOut, Streams!Slip, StreamSlips, StreamsInv, FlatShapes
<1>17. \A c \in Clients :
          /\ streamsClient[c].at = h /\ Streams!Full(c)
               => streamsClient'[c] = [streamsClient[c] EXCEPT !.subscribed = FALSE]
          /\ streamsClient[c].at = h /\ streamsClient[c].subscribed /\ ~Streams!Full(c)
               => streamsClient'[c] = [streamsClient[c] EXCEPT !.queue = Append(@, f)]
          /\ streamsClient[c].at # h \/ ~streamsClient[c].subscribed =>
                 streamsClient'[c] = streamsClient[c]
  BY <1>4, <1>8 DEF Streams!FanOut, Streams!Full
<1>18. \A c \in Clients :
          /\ streamsClient'[c].at = streamsClient[c].at
          /\ streamsClient'[c].step = streamsClient[c].step
          /\ streamsClient'[c].sees = streamsClient[c].sees
          /\ streamsClient'[c].from = streamsClient[c].from
          /\ streamsClient'[c].read = streamsClient[c].read
          /\ \/ streamsClient[c].at = h /\ streamsClient[c].subscribed /\ ~Streams!Full(c)
                /\ streamsClient'[c].queue = Append(streamsClient[c].queue, f)
                /\ streamsClient'[c].subscribed = streamsClient[c].subscribed
             \/ streamsClient'[c].queue = streamsClient[c].queue
                /\ \/ streamsClient'[c].subscribed = streamsClient[c].subscribed
                      /\ (streamsClient[c].at # h \/ ~streamsClient[c].subscribed)
                   \/ ~streamsClient'[c].subscribed /\ streamsClient[c].at = h /\ Streams!Full(c)
  <2> SUFFICES ASSUME NEW c \in Clients
               PROVE
          /\ streamsClient'[c].at = streamsClient[c].at
          /\ streamsClient'[c].step = streamsClient[c].step
          /\ streamsClient'[c].sees = streamsClient[c].sees
          /\ streamsClient'[c].from = streamsClient[c].from
          /\ streamsClient'[c].read = streamsClient[c].read
          /\ \/ streamsClient[c].at = h /\ streamsClient[c].subscribed /\ ~Streams!Full(c)
                /\ streamsClient'[c].queue = Append(streamsClient[c].queue, f)
                /\ streamsClient'[c].subscribed = streamsClient[c].subscribed
             \/ streamsClient'[c].queue = streamsClient[c].queue
                /\ \/ streamsClient'[c].subscribed = streamsClient[c].subscribed
                      /\ (streamsClient[c].at # h \/ ~streamsClient[c].subscribed)
                   \/ ~streamsClient'[c].subscribed /\ streamsClient[c].at = h /\ Streams!Full(c)
    OBVIOUS
  <2>1. streamsClient[c] \in ClientRecords
    BY ClientTypes
  <2>2. CASE streamsClient[c].at = h /\ Streams!Full(c)
    BY <1>17, <2>1, <2>2 DEF ClientRecords
  <2>3. CASE streamsClient[c].at = h /\ streamsClient[c].subscribed /\ ~Streams!Full(c)
    BY <1>17, <2>1, <2>3 DEF ClientRecords
  <2>4. CASE streamsClient[c].at # h \/ ~streamsClient[c].subscribed
    BY <1>17, <2>4
  <2> QED BY <2>2, <2>3, <2>4
<1>19. ClientShapes'
  <2>1. ASSUME NEW c \in Clients
        PROVE  streamsClient'[c] \in ClientRecords /\ Len(streamsClient'[c].queue) <= Room
    <3>1. /\ streamsClient[c] \in ClientRecords /\ streamsClient[c].queue \in Seq(0..MaxOut)
          /\ Len(streamsClient[c].queue) \in Nat /\ Len(streamsClient[c].queue) <= Room
      BY ClientTypes
    <3>2. CASE streamsClient[c].at = h /\ streamsClient[c].subscribed /\ ~Streams!Full(c)
      <4>1. streamsClient'[c] = [streamsClient[c] EXCEPT !.queue = Append(streamsClient[c].queue,
                f)]
        BY <1>17, <3>2
      <4>2. /\ Append(streamsClient[c].queue, f) \in Seq(0..MaxOut)
            /\ Len(Append(streamsClient[c].queue, f)) = Len(streamsClient[c].queue) + 1
        BY <1>8, <3>1, AppendedSeq
      <4>3. Len(streamsClient[c].queue) + 1 <= Room
        BY StreamsAssumption, <3>1, <3>2 DEF Streams!Full
      <4>4. /\ streamsClient'[c] \in ClientRecords
            /\ streamsClient'[c].queue = Append(streamsClient[c].queue, f)
        BY <3>1, <4>1, <4>2 DEF ClientRecords
      <4> QED BY <4>2, <4>3, <4>4
    <3>3. CASE ~(streamsClient[c].at = h /\ streamsClient[c].subscribed /\ ~Streams!Full(c))
      <4>1. streamsClient'[c] = streamsClient[c] \/ streamsClient'[c] =
                [streamsClient[c] EXCEPT !.subscribed = FALSE]
        BY <1>17, <3>3
      <4>2. [streamsClient[c] EXCEPT !.subscribed = FALSE] \in ClientRecords
        BY <3>1 DEF ClientRecords
      <4>3. streamsClient'[c] \in ClientRecords
        BY <3>1, <4>1, <4>2
      <4>4. streamsClient'[c].queue = streamsClient[c].queue
        BY <1>18, <3>3
      <4> QED BY <3>1, <4>3, <4>4
    <3> QED BY <3>2, <3>3
  <2>2. streamsClient' \in [Clients -> ClientRecords]
    <3>1. streamsClient' = [c \in Clients |-> streamsClient'[c]]
      BY DEF Streams!FanOut
    <3> QED BY <2>1, <3>1
  <2> QED BY <1>2, <1>15, <1>18, <2>1, <2>2 DEF StreamsInv, ClientShapes
<1>20. FlatShapes' /\ KeysInOrder'
  BY <1>2, <1>16, KeysKept DEF StreamsInv, FlatShapes, Streams!inputVars
<1>21. \A g \in Handle : streamsHandles'[g].consumer = streamsHandles[g].consumer
  BY <1>14
<1>22. EndsWithEof'
  <2>1. streamsHandles'[1].consumer = streamsHandles[1].consumer
    BY <1>21, HandleTypes DEF StreamsInv
  <2>2. UNCHANGED EofLast(streamsOut) /\ UNCHANGED Elems(streamsOut)
    BY <1>2 DEF EofLast, Elems
  <2> QED BY <1>2, <2>1, <2>2 DEF StreamsInv, EndsWithEof
<1>23. /\ streamsHandles[h].consumer # "off" /\ EofLast(l)
       /\ Streams!Eof \in Elems(l) => streamsHandles[h].consumer = "over"
  BY <1>1, <1>4, <1>5 DEF StreamsInv, EndsOnce, HandleEnds
<1>24. \A c \in Clients : streamsClient[c].at # 0 => streamsClient[c].at \in Handle
  BY ClientTypes
<1>25. EndsOnce'
  <2>1. HandleEnds(h)'
    <3>1. /\ EofLast(t) /\ (Streams!Eof \in Elems(t) => streamsHandles[h].consumer = "over")
      BY <1>7, <1>9, <1>23
    <3>2. /\ EofLast(streamsHandles[h].loop)'
          /\ (Streams!Eof \in Elems(streamsHandles[h].loop)' =>
                 streamsHandles'[h].consumer = "over")
      BY <1>14, <3>1 DEF EofLast, Elems
    <3> QED BY <1>14, <1>23, <3>2 DEF HandleEnds
  <2>2. \A g \in Handle : g # h => KeptQueue(g)
    BY <1>14 DEF KeptQueue
  <2>3. ASSUME NEW c \in Clients, streamsClient[c].at = h PROVE ClientEnds(c)'
    <3>1. \E q : q = streamsClient[c].queue
      OBVIOUS
    <3>2. PICK q : q = streamsClient[c].queue
      BY <3>1
    <3>3. q \in Seq(Nat) /\ Streams!Eof \notin Elems(q) /\ EofLast(q)
      BY <1>4, <1>5, <2>3, <3>2, ClientTypes DEF StreamsInv, EndsOnce, ClientEnds
    <3>4. /\ streamsClient[c].step \in {"off", "looked", "got"} =>
                streamsClient[c].sees = <<>> /\ q = <<>> /\ ~streamsClient[c].subscribed
      BY <3>2 DEF StreamsInv, EndsOnce, ClientEnds
    <3>5. /\ EofLast(streamsClient'[c].queue)
          /\ (Streams!Eof \in Elems(streamsClient'[c].queue) => f = Streams!Eof)
      <4>1. EofLast(Append(q, f)) /\ Elems(Append(q, f)) = Elems(q) \cup {f}
        BY <1>8, <3>3, AppendedOrder
      <4>2. streamsClient'[c].queue = q \/ streamsClient'[c].queue = Append(q, f)
        BY <1>18, <3>2
      <4> QED BY <3>3, <4>1, <4>2
    <3>6. f = Streams!Eof => t = <<>> /\ streamsHandles[h].consumer = "over"
      BY <1>7, <1>8, <1>9, <1>23
    <3>7. /\ EofLast(streamsClient[c].queue)' /\ (Streams!Eof
                 \in Elems(streamsClient[c].queue)' =>
                streamsHandles'[h].loop = <<>> /\ streamsHandles'[h].consumer = "over")
      BY <1>14, <3>5, <3>6 DEF EofLast, Elems
    <3>8. streamsClient'[c].step \in {"off", "looked", "got"} =>
             /\ streamsClient'[c].sees = <<>>
             /\ streamsClient'[c].queue = <<>>
             /\ ~streamsClient'[c].subscribed
      BY <1>18, <3>2, <3>4
    <3>9. streamsHandles'[h].consumer # "off" /\ streamsClient'[c].at = h
      BY <1>14, <1>18, <1>23, <2>3
    <3> QED BY <3>7, <3>8, <3>9 DEF ClientEnds
  <2>4. ASSUME NEW c \in Clients, streamsClient[c].at # h PROVE KeptEnds(c)
    BY <1>14, <1>17, <1>24, <2>4 DEF KeptEnds
  <2> QED BY <1>15, <2>1, <2>2, <2>3, <2>4, EndsKept
<1>26. /\ UNCHANGED <<streamsOut, streamsMade, streamsGone, streamsPump>>
       /\ streamsSlips \subseteq streamsSlips'
  BY <1>2, <1>16
<1>27. ASSUME "raced" \notin streamsSlips'
       PROVE  /\ HandleAscends(h)'
              /\ \A c \in Clients : streamsClient[c].at = h => ClientAscends(c)'
  <2>1. HandleAscends(h)
    BY <1>1, <1>26, <1>27 DEF StreamsInv, ScreensInOrder
  <2>2. \E B, L : B = Elems(b) /\ L = Elems(l)
    OBVIOUS
  <2>3. PICK B, L : B = Elems(b) /\ L = Elems(l)
    BY <2>2
  <2>4. /\ Ascends(b) /\ Ascends(l) /\ AllBefore(B, L)
        /\ AllBefore(B \cup L, Ahead(n)) /\ Written(B \cup L)
    BY <1>4, <2>1, <2>3 DEF HandleAscends
  <2>5. f \in L /\ Elems(t) \subseteq L /\ Ascends(t) /\ AllBefore({f}, Elems(t))
    BY <1>7, <1>8, <1>9, <2>3, <2>4
  <2>6. Ascends(r) /\ Elems(r) \subseteq B \cup {f}
    BY <1>12, <2>3, <2>4, <2>5 DEF AllBefore
  <2>7. HandleAscends(h)'
    <3>1. /\ AllBefore(Elems(r), Elems(t)) /\ AllBefore(Elems(r) \cup Elems(t), Ahead(n))
          /\ Written(Elems(r) \cup Elems(t))
      BY <2>4, <2>5, <2>6 DEF AllBefore, Written
    <3> QED BY <1>14, <1>26, <2>5, <2>6, <3>1, HandleAscendsBy
  <2>8. ASSUME NEW c \in Clients, streamsClient[c].at = h PROVE ClientAscends(c)'
    <3>1. ClientAscends(c) /\ h # 0
      BY <1>1, <1>26, <1>27 DEF StreamsInv, ScreensInOrder, Handle
    <3>2. \E s, q, p : /\ s = streamsClient[c].sees
                       /\ q = streamsClient[c].queue
                       /\ p = streamsClient'[c].queue
      OBVIOUS
    <3>3. PICK s, q, p : /\ s = streamsClient[c].sees
                         /\ q = streamsClient[c].queue
                         /\ p = streamsClient'[c].queue
      BY <3>2
    <3>4. /\ Ascends(s) /\ Ascends(q) /\ AllBefore(Elems(s), Elems(q))
          /\ Written(Elems(s) \cup Elems(q))
          /\ AllBefore(Elems(s) \cup Elems(q), L)
          /\ AllBefore(Elems(s) \cup Elems(q), Ahead(n))
      BY <1>4, <2>3, <2>8, <3>1, <3>3 DEF ClientAscends
    <3>5. q \in Seq(Nat)
      BY <3>3, ClientTypes
    <3>6. AllBefore(Elems(q), {f}) /\ AllBefore({f}, Ahead(n)) /\ Written({f})
      BY <2>4, <2>5, <3>4 DEF AllBefore, Written
    <3>7. Ascends(p) /\ Elems(p) \subseteq Elems(q) \cup {f}
      BY <1>8, <1>18, <3>3, <3>4, <3>5, <3>6, AppendedOrder
    <3>8. /\ AllBefore(Elems(s), Elems(p)) /\ Written(Elems(s) \cup Elems(p))
          /\ AllBefore(Elems(s) \cup Elems(p), Elems(t))
          /\ AllBefore(Elems(s) \cup Elems(p), Ahead(n))
      BY <2>5, <3>4, <3>6, <3>7 DEF AllBefore, Written
    <3>9. streamsClient'[c].sees = s /\ streamsClient'[c].queue = p /\ streamsClient'[c].at = h
      BY <1>18, <2>8, <3>3
    <3> QED BY <1>14, <1>26, <3>4, <3>7, <3>8, <3>9, ClientAscendsBy
  <2> QED BY <2>7, <2>8
<1>28. ASSUME streamsSlips' \subseteq {"early"}
       PROVE  /\ HandleRuns(h)'
              /\ \A c \in Clients : streamsClient[c].at = h => ClientRuns(c)'
  <2>1. OutRuns /\ HandleRuns(h)
    BY <1>1, <1>26, <1>28 DEF StreamsInv, Gapless
  <2>2. /\ streamsGone <= n
        /\ Len(l) <= n
        /\ (\A i \in 1..Len(l) : l[i] = streamsOut[n - Len(l) + i])
        /\ Consecutive(b) /\ EndsAt(b, n - Len(l))
    BY <1>4, <2>1 DEF HandleRuns, Fanned
  <2>3. \E k : k = n - Len(l)
    OBVIOUS
  <2>4. PICK k : k = n - Len(l)
    BY <2>3
  <2>5. /\ k \in Nat /\ k + 1 \in Position /\ k < Len(streamsOut) /\ n - Len(t) = k + 1
        /\ Len(t) \in Nat /\ Len(t) <= n /\ Len(t) = Len(l) - 1
    BY <1>1, <1>5, <1>6, <1>9, <2>2, <2>4 DEF Position
  <2>6. f = streamsOut[k + 1]
    <3>1. 1 \in 1..Len(l)
      BY <1>5, <1>6
    <3> QED BY <1>6, <1>8, <2>2, <2>4, <3>1
  <2>7. f = Streams!Eof \/ f = k + 1
    BY <2>1, <2>5, <2>6 DEF OutRuns
  <2>8. f = Streams!Eof => k + 1 = Len(streamsOut)
    BY <2>5, <2>6 DEF StreamsInv, EndsWithEof, EofLast, Position
  \* What ends before the frame is followed by it, and what it is added to ends at it.
  <2>9. ASSUME NEW x, EndsAt(x, k), x # <<>>
        PROVE  x[Len(x)] = k
    BY <1>1, <2>5, <2>9 DEF EndsAt
  <2>10. ASSUME NEW x, x # <<>> => f = Streams!Eof \/ x[Len(x)] = f
         PROVE  EndsAt(x, k + 1)
    BY <2>5, <2>6, <2>7, <2>8, <2>10 DEF EndsAt
  <2>11. HandleRuns(h)'
    <3>1. ASSUME NEW i \in 1..Len(t) PROVE t[i] = streamsOut[n - Len(t) + i]
      <4>1. i \in 1..(Len(l) - 1) /\ i + 1 \in 1..Len(l) /\ n - Len(t) + i = n - Len(l) + (i + 1)
        BY <1>5, <2>5
      <4> QED BY <1>6, <1>9, <2>2, <4>1
    <3>2. Consecutive(r)
      <4>1. b # <<>> => b[Len(b)] = k
        BY <2>2, <2>4, <2>9
      <4> QED BY <1>12, <2>2, <2>7, <4>1
    <3>3. EndsAt(r, n - Len(t))
      BY <1>12, <2>5, <2>10
    <3>4. streamsGone' <= n
      BY <1>26, <2>2
    <3>5. /\ UNCHANGED streamsOut
          /\ streamsHandles'[h].buffer = r
          /\ streamsHandles'[h].loop = t
          /\ streamsHandles'[h].cursor = n
      BY <1>14, <1>26
    <3>6. Len(t) <= n
      BY <2>5
    <3> QED BY <3>1, <3>2, <3>3, <3>4, <3>5, <3>6, HandleRunsBy
  <2>12. ASSUME NEW c \in Clients, streamsClient[c].at = h PROVE ClientRuns(c)'
    <3>1. ClientRuns(c) /\ ClientEnds(c) /\ h # 0
      BY <1>1, <1>26, <1>28 DEF StreamsInv, Gapless, EndsOnce, Handle
    <3>2. \E s, q, p : /\ s = streamsClient[c].sees
                       /\ q = streamsClient[c].queue
                       /\ p = streamsClient'[c].queue
      OBVIOUS
    <3>3. PICK s, q, p : /\ s = streamsClient[c].sees
                         /\ q = streamsClient[c].queue
                         /\ p = streamsClient'[c].queue
      BY <3>2
    <3>4. /\ s \in Seq(Nat)
          /\ q \in Seq(Nat)
          /\ streamsClient[c].step # "off"
          /\ streamsClient[c].step \in ClientSteps
      BY <2>12, <3>1, <3>3, ClientTypes DEF ClientRecords
    <3>5. streamsClient[c].step # "sending" /\ ~Streams!Full(c)
      BY <1>16, <1>28, <2>12
    <3>6. /\ Consecutive(s) /\ Consecutive(q)
          /\ s # <<>> /\ q # <<>> => q[1] = Streams!Eof \/ q[1] = s[Len(s)] + 1
          /\ EndsAt(q, k) /\ (q = <<>> => EndsAt(s, k))
          /\ streamsClient[c].step \in {"waits", "sends", "left"} => streamsClient[c].subscribed
      BY <1>4, <2>4, <2>12, <3>1, <3>3 DEF ClientRuns, Fanned
    <3>7. /\ streamsClient'[c].sees = s
          /\ streamsClient'[c].queue = p
          /\ streamsClient'[c].at = h
          /\ streamsClient'[c].step = streamsClient[c].step
      BY <1>18, <2>12, <3>3
    <3>8. CASE streamsClient[c].step \in {"looked", "got"}
      <4>1. s = <<>> /\ q = <<>> /\ ~streamsClient[c].subscribed
        BY <3>1, <3>3, <3>8 DEF ClientEnds
      <4>2. p = <<>>
        BY <1>18, <3>3, <4>1
      <4>3. EndsAt(<<>>, k + 1)
        BY <2>10
      <4>4. streamsHandles'[h].cursor - Len(streamsHandles'[h].loop) = k + 1
        BY <1>14, <2>5
      <4>5. streamsClient'[c].step \notin {"waits", "sends", "left"}
        BY <3>7, <3>8
      <4> QED BY <1>26, <3>6, <3>7, <4>1, <4>2, <4>3, <4>4, <4>5, EmptySeq, ClientRunsBy
    <3>9. CASE streamsClient[c].step \in {"waits", "sends", "left"}
      <4>1. streamsClient[c].subscribed /\ p = Append(q, f) /\ streamsClient'[c].subscribed
        BY <1>18, <2>12, <3>3, <3>5, <3>6, <3>9
      <4>2. /\ Len(p) = Len(q) + 1 /\ (\A i \in 1..Len(q) : p[i] = q[i]) /\ p[Len(q) + 1] = f
            /\ p \in Seq(Nat)
            /\ Len(q) \in Nat
            /\ (q = <<>> => Len(q) = 0)
            /\ (q # <<>> => Len(q) # 0)
        BY <1>8, <3>4, <4>1, AppendedSeq, NoneIn, SeqFcn
      <4>3. q # <<>> => q[Len(q)] = k
        BY <2>9, <3>6
      <4>4. Consecutive(p)
        BY <1>8, <2>7, <3>4, <3>6, <4>1, <4>3, AppendedOrder
      <4>5. EndsAt(p, k + 1) /\ p # <<>>
        <5>1. p[Len(p)] = f
          BY <4>2
        <5>2. p # <<>>
          BY <4>2, NoneIn
        <5> QED BY <2>10, <5>1, <5>2
      <4>6. s # <<>> => p[1] = Streams!Eof \/ p[1] = s[Len(s)] + 1
        <5>1. CASE q = <<>>
          <6>1. p[1] = f /\ (s # <<>> => s[Len(s)] = k)
            BY <2>9, <3>6, <4>2, <5>1
          <6> QED BY <2>7, <6>1
        <5>2. CASE q # <<>>
          <6>1. 1 \in 1..Len(q)
            BY <4>2, <5>2
          <6> QED BY <3>6, <4>2, <5>2, <6>1
        <5> QED BY <5>1, <5>2
      <4>7. streamsHandles'[h].cursor - Len(streamsHandles'[h].loop) = k + 1
        BY <1>14, <2>5
      <4> QED BY <1>26, <3>6, <3>7, <4>1, <4>4, <4>5, <4>6, <4>7, ClientRunsBy
    <3> QED BY <3>4, <3>5, <3>8, <3>9 DEF ClientSteps
  <2> QED BY <2>11, <2>12
<1>29. OutAscends' /\ ScreensInOrder' /\ Gapless'
  <2>1. \A g \in Handle : g # h => KeptHandle(g)
    BY <1>14 DEF KeptHandle
  <2>2. \A c \in Clients : streamsClient[c].at # h => KeptClient(c)
    BY <1>14, <1>17, <1>24 DEF KeptClient
  <2>3. ASSUME NEW g \in Handle' PROVE KeptHandle(g) \/ GoodHandle(g)
    BY <1>15, <1>27, <1>28, <2>1 DEF GoodHandle
  <2>4. ASSUME NEW c \in Clients PROVE KeptClient(c) \/ GoodClient(c)
    BY <1>27, <1>28, <2>2 DEF GoodClient
  <2>5. /\ streamsPump' # "over" => streamsPump # "over"
        /\ streamsGone' = streamsGone \/ ~(streamsSlips' \subseteq {"early"})
    BY <1>26
  <2> QED BY <1>26, <2>3, <2>4, <2>5, OrderKept
<1> QED BY <1>15, <1>19, <1>20, <1>22, <1>25, <1>29 DEF StreamsInv

-----------------------------------------------------------------------------
(* A client's steps                                                           *)

\* A client's record changes, and no other.
LEMMA ClientSet ==
  ASSUME StreamsInv, UNCHANGED streamsOut, Len(streamsHandles') \in Nat,
         Len(streamsHandles) <= Len(streamsHandles'),
         NEW c \in Clients, NEW r \in ClientRecords,
             streamsClient' = [streamsClient EXCEPT ![c] = r],
         r.at = 0 <=> r.step = "off", r.at <= Len(streamsHandles'), r.from <= r.read,
         r.read <= Len(streamsOut), Len(r.queue) <= Room
  PROVE  /\ ClientShapes' /\ streamsClient'[c] = r
         /\ \A d \in Clients : d # c => streamsClient'[d] = streamsClient[d]
<1>1. streamsClient \in [Clients -> ClientRecords] /\ Len(streamsHandles) \in Nat
  BY ClientTypes, StreamLengths DEF StreamsInv, ClientShapes
<1>2. /\ streamsClient' \in [Clients -> ClientRecords] /\ streamsClient'[c] = r
      /\ \A d \in Clients : d # c => streamsClient'[d] = streamsClient[d]
  BY <1>1
<1>3. \A d \in Clients :
          streamsClient[d].at \in Nat /\ streamsClient[d].at <= Len(streamsHandles)
  BY ClientTypes DEF StreamsInv, ClientShapes
<1>4. \A d \in Clients : streamsClient'[d].at <= Len(streamsHandles')
  BY <1>1, <1>2, <1>3
<1>5. ASSUME NEW d \in Clients
      PROVE  /\ streamsClient'[d].at = 0 <=> streamsClient'[d].step = "off"
             /\ streamsClient'[d].from <= streamsClient'[d].read
             /\ streamsClient'[d].read <= Len(streamsOut)
             /\ Len(streamsClient'[d].queue) <= Room
  BY <1>2 DEF StreamsInv, ClientShapes
<1> QED BY <1>2, <1>4, <1>5 DEF ClientShapes

\* A client that has nothing yet is in order.
LEMMA FreshClient ==
  ASSUME UNCHANGED <<streamsOut, streamsMade>>, NEW c,
         streamsClient'[c].sees = <<>>, streamsClient'[c].queue = <<>>,
             ~streamsClient'[c].subscribed,
         streamsClient'[c].step \in {"off", "looked", "got"}
  PROVE  GoodClient(c) /\ ClientEnds(c)'
<1>1. ClientEnds(c)'
  BY EmptySeq DEF ClientEnds, EofLast, Elems
<1>2. ClientAscends(c)'
  <2>1. \E a, l, n : /\ a = streamsClient'[c].at
                     /\ l = streamsHandles'[a].loop
                     /\ n = streamsHandles'[a].cursor
    OBVIOUS
  <2>2. PICK a, l, n : /\ a = streamsClient'[c].at
                       /\ l = streamsHandles'[a].loop
                       /\ n = streamsHandles'[a].cursor
    BY <2>1
  <2>3. /\ AllBefore(Elems(<<>>), Elems(<<>>)) /\ Written(Elems(<<>>) \cup Elems(<<>>))
        /\ AllBefore(Elems(<<>>) \cup Elems(<<>>), Elems(l))
        /\ AllBefore(Elems(<<>>) \cup Elems(<<>>), Ahead(n))
    BY EmptySeq DEF AllBefore, Written
  <2> QED BY <2>2, <2>3, EmptySeq, ClientAscendsBy
<1>3. ClientRuns(c)'
  <2>1. \E a, n : /\ a = streamsClient'[c].at
                  /\ n = streamsHandles'[a].cursor - Len(streamsHandles'[a].loop)
    OBVIOUS
  <2>2. PICK a, n : /\ a = streamsClient'[c].at
                    /\ n = streamsHandles'[a].cursor - Len(streamsHandles'[a].loop)
    BY <2>1
  <2>3. EndsAt(<<>>, n)
    BY DEF EndsAt
  <2>4. streamsClient'[c].step \notin {"waits", "sends", "left"}
    OBVIOUS
  <2> QED BY <2>2, <2>3, <2>4, EmptySeq, ClientRunsBy
<1> QED BY <1>1, <1>2, <1>3 DEF GoodClient

\* A step that changes one client's record only keeps the invariant if that client does.
LEMMA ClientMoves ==
  ASSUME StreamsInv, NEW c \in Clients, NEW r \in ClientRecords,
         streamsClient' = [streamsClient EXCEPT ![c] = r],
         r.at = 0 <=> r.step = "off", r.at <= Len(streamsHandles), r.from <= r.read,
         r.read <= Len(streamsOut), Len(r.queue) <= Room,
         UNCHANGED <<streamsShell, Streams!ptyVars, streamsPump, streamsOut, streamsGone,
                     Streams!inputVars, streamsHandles, streamsCache, streamsRemoved,
                     streamsSlips, streamsFaults>>,
         streamsConnects' = streamsConnects \/ Streams!Arrives(c),
         KeptClient(c) \/ GoodClient(c), KeptEnds(c) \/ ClientEnds(c)'
  PROVE  StreamsInv'
<1>1. /\ Len(streamsHandles) \in Nat
      /\ Len(streamsOut) \in Nat
      /\ streamsConnects \in 0..MaxConnects
      /\ streamsConnects' \in 0..MaxConnects /\ streamsConnects <= streamsConnects'
  BY StreamsAssumption, StreamLengths DEF Streams!Arrives, StreamsInv, FlatShapes
<1>2. ClientShapes' /\ \A d \in Clients : d # c => streamsClient'[d] = streamsClient[d]
  <2>1. /\ UNCHANGED streamsOut
        /\ Len(streamsHandles') \in Nat
        /\ Len(streamsHandles) <= Len(streamsHandles')
        /\ r.at <= Len(streamsHandles')
    BY <1>1
  <2> QED BY <2>1, ClientSet
<1>3. HandleShapes'
  BY <1>1, HandleShapesKept DEF StreamsInv
<1>4. FlatShapes' /\ KeysInOrder'
  BY <1>1, KeysKept DEF StreamsInv, FlatShapes, Streams!ptyVars, Streams!inputVars
<1>5. EndsWithEof'
  BY DEF StreamsInv, EndsWithEof, Streams!ptyVars, EofLast, Elems
<1>6. EndsOnce'
  <2>1. \A h \in Handle' : KeptQueue(h)
    BY DEF KeptQueue, Handle
  <2>2. \A d \in Clients : KeptEnds(d) \/ ClientEnds(d)'
    BY <1>2 DEF KeptEnds
  <2> QED BY <2>1, <2>2, EndsKept
<1>7. OutAscends' /\ ScreensInOrder' /\ Gapless'
  <2>1. \A h \in Handle' : KeptHandle(h)
    BY DEF KeptHandle, Handle
  <2>2. \A d \in Clients : KeptClient(d) \/ GoodClient(d)
    BY <1>2 DEF KeptClient
  <2>3. UNCHANGED <<streamsOut, streamsMade, streamsPump, streamsGone, streamsSlips>>
    BY DEF Streams!ptyVars
  <2>4. /\ streamsPump' # "over" => streamsPump # "over"
        /\ streamsSlips \subseteq streamsSlips'
        /\ streamsGone' = streamsGone \/ ~(streamsSlips' \subseteq {"early"})
    BY <2>3
  <2> QED BY <2>1, <2>2, <2>3, <2>4, OrderKept
<1> QED BY <1>2, <1>3, <1>4, <1>5, <1>6, <1>7 DEF StreamsInv

LEMMA AwayShape == Streams!Away \in ClientRecords /\ Len(Streams!Away.queue) = 0
BY DEF Streams!Away, ClientRecords, ClientSteps

\* A client that gets a cached handle has nothing on its screen.
LEMMA GetCachedKeeps ==
  ASSUME StreamsInv, NEW c \in Clients, NEW w \in Viewers, Streams!GetCached(c, w)
  PROVE  StreamsInv'
<1>1. \E r : r = (IF streamsHandles[streamsCache[w]].consumer = "off"
             THEN [Streams!Away EXCEPT !.at = streamsCache[w], !.step = "looked",
                 !.from = streamsGone, !.read = Len(streamsOut)]
             ELSE [Streams!Away EXCEPT !.at = streamsCache[w], !.step = "got"])
  OBVIOUS
<1>2. PICK r : r = (IF streamsHandles[streamsCache[w]].consumer = "off"
             THEN [Streams!Away EXCEPT !.at = streamsCache[w], !.step = "looked",
                 !.from = streamsGone, !.read = Len(streamsOut)]
             ELSE [Streams!Away EXCEPT !.at = streamsCache[w], !.step = "got"])
  BY <1>1
<1>3. streamsCache[w] \in Nat /\ streamsCache[w] <= Len(streamsHandles) /\ streamsCache[w] # 0
  BY DEF Streams!GetCached, Streams!Usable, StreamsInv, HandleShapes
<1>4. Len(streamsOut) \in Nat /\ streamsGone \in Nat /\ streamsGone <= Len(streamsOut)
  BY StreamLengths DEF StreamsInv, FlatShapes
<1>5. /\ r \in ClientRecords /\ r.at = streamsCache[w] /\ r.step \in {"looked", "got"}
      /\ r.from <= r.read /\ r.read <= Len(streamsOut) /\ r.sees = <<>> /\ r.queue = <<>>
      /\ ~r.subscribed
  <2>1. /\ Streams!Away \in ClientRecords
        /\ Streams!Away.from = 0
        /\ Streams!Away.read = 0
        /\ Streams!Away.sees = <<>>
        /\ Streams!Away.queue = <<>> /\ ~Streams!Away.subscribed
    BY AwayShape DEF Streams!Away
  <2>2. CASE streamsHandles[streamsCache[w]].consumer = "off"
    <3>1. r = [Streams!Away EXCEPT !.at = streamsCache[w], !.step = "looked",
              !.from = streamsGone, !.read = Len(streamsOut)]
      BY <1>2, <2>2
    <3>2. r \in ClientRecords
      BY <1>3, <1>4, <2>1, <3>1 DEF ClientRecords, ClientSteps
    <3>3. /\ r.at = streamsCache[w]
          /\ r.step = "looked"
          /\ r.from = streamsGone
          /\ r.read = Len(streamsOut)
          /\ r.sees = <<>> /\ r.queue = <<>> /\ ~r.subscribed
      BY <3>1 DEF Streams!Away
    <3> QED BY <1>4, <3>2, <3>3
  <2>3. CASE streamsHandles[streamsCache[w]].consumer # "off"
    <3>1. r = [Streams!Away EXCEPT !.at = streamsCache[w], !.step = "got"]
      BY <1>2, <2>3
    <3>2. r \in ClientRecords
      BY <1>3, <1>4, <2>1, <3>1 DEF ClientRecords, ClientSteps
    <3>3. /\ r.at = streamsCache[w] /\ r.step = "got" /\ r.from = 0 /\ r.read = 0
          /\ r.sees = <<>> /\ r.queue = <<>> /\ ~r.subscribed
      BY <3>1 DEF Streams!Away
    <3> QED BY <1>4, <3>2, <3>3
  <2> QED BY <2>2, <2>3
<1>6. Len(r.queue) <= Room
  BY StreamsAssumption, <1>5, AwayShape DEF Streams!Away
<1>7. streamsClient' = [streamsClient EXCEPT ![c] = r]
  BY <1>2 DEF Streams!GetCached
<1>8. streamsClient'[c] = r
  BY <1>7 DEF StreamsInv, ClientShapes
<1>9. GoodClient(c) /\ ClientEnds(c)'
  BY <1>5, <1>8, FreshClient DEF Streams!GetCached, Streams!ptyVars
<1>10. r.at = 0 <=> r.step = "off"
  BY <1>3, <1>5
<1>11. r.at <= Len(streamsHandles)
  BY <1>3, <1>5
<1> QED BY <1>5, <1>6, <1>7, <1>9, <1>10, <1>11, ClientMoves DEF Streams!GetCached

\* A client that leaves has nothing.
LEMMA LeavesKeeps ==
  ASSUME StreamsInv, NEW c \in Clients, Streams!Answered(c) \/ Streams!Disconnect(c)
  PROVE  StreamsInv'
<1>1. /\ streamsClient' = [streamsClient EXCEPT ![c] = Streams!Away]
      /\ streamsClient'[c] = Streams!Away
  BY DEF Streams!Answered, Streams!Disconnect, StreamsInv, ClientShapes
<1>2. UNCHANGED <<streamsShell, Streams!ptyVars, streamsPump, streamsOut, streamsGone,
                  Streams!inputVars, streamsHandles, streamsCache, streamsRemoved,
                  streamsSlips, streamsConnects, streamsFaults>>
  BY DEF Streams!Answered, Streams!Disconnect
<1>3. GoodClient(c) /\ ClientEnds(c)'
  BY <1>1, <1>2, FreshClient DEF Streams!Away, Streams!ptyVars
<1>4. Len(streamsOut) \in Nat /\ Len(streamsHandles) \in Nat
  BY StreamLengths
<1>5. /\ Streams!Away.at = 0
      /\ Streams!Away.step = "off"
      /\ Streams!Away.at <= Len(streamsHandles)
      /\ Streams!Away.from <= Streams!Away.read
      /\ Streams!Away.read <= Len(streamsOut) /\ Len(Streams!Away.queue) <= Room
  BY StreamsAssumption, <1>4, AwayShape DEF Streams!Away
<1> QED BY <1>1, <1>2, <1>3, <1>5, AwayShape, ClientMoves

LEMMA FollowIs == ASSUME NEW h PROVE Streams!Follow(h) \in {"waits", "left"}
BY DEF Streams!Follow

\* Neither changes what the client has, or has in its queue.
LEMMA FollowsKeeps ==
  ASSUME StreamsInv, NEW c \in Clients, Streams!Subscribe(c) \/ Streams!ClientSent(c)
  PROVE  StreamsInv'
<1>1. UNCHANGED <<streamsShell, Streams!ptyVars, streamsPump, streamsOut, streamsGone,
                  Streams!inputVars, streamsHandles, streamsCache, streamsRemoved,
                  streamsSlips, streamsConnects, streamsFaults>>
  BY DEF Streams!Subscribe, Streams!ClientSent
<1>2. \E r : r = streamsClient'[c]
  OBVIOUS
<1>3. PICK r : r = streamsClient'[c]
  BY <1>2
<1>4. streamsClient[c] \in ClientRecords /\ streamsClient \in [Clients -> ClientRecords]
  BY ClientTypes
<1>5. /\ streamsClient[c].step \in {"sending", "sends"}
      /\ \/ /\ streamsClient' = [streamsClient EXCEPT ![c] = [streamsClient[c] EXCEPT !.step =
                   Streams!Follow(streamsClient[c].at),
                                                             !.subscribed = TRUE]]
            /\ r = [streamsClient[c] EXCEPT !.step = Streams!Follow(streamsClient[c].at),
                   !.subscribed = TRUE]
         \/ /\ streamsClient' = [streamsClient EXCEPT ![c] = [streamsClient[c] EXCEPT !.step =
                   Streams!Follow(streamsClient[c].at)]]
            /\ r = [streamsClient[c] EXCEPT !.step = Streams!Follow(streamsClient[c].at)]
            /\ streamsClient[c].step = "sends"
  BY <1>3, <1>4 DEF Streams!Subscribe, Streams!ClientSent
<1>6. /\ r \in ClientRecords /\ r.at = streamsClient[c].at /\ r.step \in {"waits", "left"}
      /\ r.sees = streamsClient[c].sees /\ r.queue = streamsClient[c].queue
      /\ r.from = streamsClient[c].from /\ r.read = streamsClient[c].read
      /\ \/ r.subscribed
         \/ r.subscribed = streamsClient[c].subscribed /\ streamsClient[c].step = "sends"
  <2>1. Streams!Follow(streamsClient[c].at) \in {"waits", "left"}
    BY FollowIs
  <2> QED BY <1>4, <1>5, <2>1 DEF ClientRecords, ClientSteps
<1>7. streamsClient' = [streamsClient EXCEPT ![c] = r]
  BY <1>5
<1>8. ClientEnds(c)'
  <2>1. ClientEnds(c) /\ streamsHandles[streamsClient[c].at].consumer # "off"
    BY <1>5 DEF StreamsInv, EndsOnce, ClientEnds
  <2> QED BY <1>1, <1>3, <1>6, <2>1 DEF ClientEnds, EofLast, Elems
<1>9. GoodClient(c)
  <2>1. ASSUME "raced" \notin streamsSlips' PROVE ClientAscends(c)'
    <3>1. ClientAscends(c)
      BY <1>1, <2>1 DEF StreamsInv, ScreensInOrder
    <3> QED BY <1>1, <1>3, <1>6, <3>1 DEF ClientAscends, Ahead, Written, Ascends, Elems,
               Streams!ptyVars
  <2>2. ASSUME streamsSlips' \subseteq {"early"} PROVE ClientRuns(c)'
    <3>1. ClientRuns(c)
      BY <1>1, <2>2 DEF StreamsInv, Gapless
    <3> QED BY <1>1, <1>3, <1>6, <3>1 DEF ClientRuns, Fanned, EndsAt, Position, Consecutive
  <2> QED BY <2>1, <2>2 DEF GoodClient
<1>10. /\ r.at = 0 <=> r.step = "off"
       /\ r.at <= Len(streamsHandles)
       /\ r.from <= r.read
       /\ r.read <= Len(streamsOut)
       /\ Len(r.queue) <= Room
  BY <1>5, <1>6 DEF StreamsInv, ClientShapes
<1> QED BY <1>1, <1>6, <1>7, <1>8, <1>9, <1>10, ClientMoves

\* What a client takes from its queue: all of it but the sentinel, which is last.
LEMMA TakenIs ==
  ASSUME NEW q \in Seq(Nat), EofLast(q)
  PROVE  /\ Streams!ToSet(q) = Elems(q)
         /\ Streams!Eof \in Elems(q) => Streams!SelectInSeq(q, LAMBDA x :
                x = Streams!Eof) = Len(q)
<1>1. Len(q) \in Nat /\ DOMAIN q = 1..Len(q)
  BY SeqFcn
<1>2. Streams!ToSet(q) = Elems(q)
  BY <1>1 DEF Streams!ToSet, Elems
<1>3. ASSUME Streams!Eof \in Elems(q) PROVE Streams!SelectInSeq(q,
             LAMBDA x : x = Streams!Eof) = Len(q)
  <2>1. PICK k \in 1..Len(q) : q[k] = Streams!Eof
    BY <1>3 DEF Elems
  <2>2. k = Len(q) /\ {i \in 1..Len(q) : q[i] = Streams!Eof} = {Len(q)}
    BY <2>1 DEF EofLast
  <2>3. Streams!Min({Len(q)}) = Len(q)
    BY <1>1 DEF Streams!Min
  <2>4. Streams!SelectInSeq(q, LAMBDA x : x = Streams!Eof)
          = LET I == {i \in 1..Len(q) : q[i] = Streams!Eof} IN IF I # {} THEN Streams!Min(I)
              ELSE 0
    BY DEF Streams!SelectInSeq
  <2> QED BY <2>2, <2>3, <2>4
<1> QED BY <1>2, <1>3

LEMMA OneLess ==
  ASSUME NEW n \in Nat, n # 0
  PROVE  (IF 1 <= n - 1 THEN (n - 1) - 1 + 1 ELSE 0) = n - 1
OBVIOUS

\* It is a piece of the queue.
LEMMA TakenInOrder ==
  ASSUME NEW q \in Seq(0..MaxOut), MaxOut \in Nat, q # <<>>, EofLast(q), NEW d,
         \/ Streams!Eof \notin Elems(q) /\ d = q
         \/ Streams!Eof \in Elems(q) /\ d = SubSeq(q, 1, Len(q) - 1)
  PROVE  /\ d \in Seq(Streams!Chunks) /\ d \in Seq(Nat) /\ Len(d) \in {Len(q), Len(q) - 1}
         /\ \A i \in 1..Len(d) : d[i] = q[i]
         /\ Elems(d) \subseteq Elems(q)
         /\ Ascends(q) => Ascends(d)
         /\ Consecutive(q) => Consecutive(d)
         /\ Len(d) = Len(q) \/ q[Len(q)] = Streams!Eof
<1>1. /\ Len(q) \in Nat /\ Len(q) # 0 /\ q \in [1..Len(q) -> 0..MaxOut] /\ q \in Seq(Nat)
  <2>1. 0..MaxOut \subseteq Nat
    OBVIOUS
  <2> QED BY <2>1, SeqFcn, NoneIn, Wider
<1>2. CASE Streams!Eof \notin Elems(q)
  <2>1. d = q
    BY <1>2
  <2>2. \A i \in 1..Len(q) : q[i] \in Streams!Chunks
    BY <1>1, <1>2 DEF Elems, Streams!Chunks, Streams!Eof
  <2>3. q \in [1..Len(q) -> Streams!Chunks]
    BY <1>1, <2>2
  <2>4. q \in Seq(Streams!Chunks)
    BY <1>1, <2>3, FcnSeq
  <2> QED BY <1>1, <2>1, <2>4
<1>3. CASE Streams!Eof \in Elems(q)
  <2>1. PICK k \in 1..Len(q) : q[k] = Streams!Eof
    BY <1>3 DEF Elems
  <2>2. q[Len(q)] = Streams!Eof
    BY <2>1 DEF EofLast
  <2>3. d = SubSeq(q, 1, Len(q) - 1) /\ Len(q) - 1 \in 0..Len(q) /\ 1 \in Nat \ {0}
    BY <1>1, <1>3
  <2>4. /\ d \in Seq(0..MaxOut)
        /\ Len(d) = IF 1 <= Len(q) - 1 THEN (Len(q) - 1) - 1 + 1 ELSE 0
        /\ \A i \in 1..Len(d) : d[i] = q[1 + i - 1]
    BY <2>3, CutSeq
  <2>5. /\ Elems(d) \subseteq Elems(q) /\ (Ascends(q) => Ascends(d))
        /\ (Consecutive(q) => Consecutive(d))
    BY <1>1, <2>3, CutOrder
  <2>6. Len(d) = Len(q) - 1 /\ \A i \in 1..Len(d) : d[i] = q[i]
    <3>1. Len(d) = Len(q) - 1
      BY <1>1, <2>4, OneLess
    <3>2. \A i \in 1..Len(d) : 1 + i - 1 = i
      OBVIOUS
    <3> QED BY <2>4, <3>1, <3>2
  <2>7. \A i \in 1..Len(d) : d[i] \in Streams!Chunks
    <3> SUFFICES ASSUME NEW i \in 1..Len(d) PROVE d[i] \in Streams!Chunks
      OBVIOUS
    <3>1. i \in 1..Len(q) /\ i # Len(q)
      <4>1. Len(q) \in Nat /\ Len(d) = Len(q) - 1
        BY <1>1, <2>6
      <4> QED BY <4>1
    <3>2. q[i] \in 0..MaxOut /\ q[i] # Streams!Eof
      BY <1>1, <3>1 DEF EofLast
    <3> QED BY <2>6, <3>2 DEF Streams!Chunks, Streams!Eof
  <2>8. Len(d) \in Nat /\ d \in [1..Len(d) -> Streams!Chunks]
    BY <2>4, <2>7, SeqFcn
  <2>9. d \in Seq(Streams!Chunks) /\ d \in Seq(Nat)
    <3>1. 0..MaxOut \subseteq Nat
      OBVIOUS
    <3> QED BY <2>4, <2>8, <3>1, FcnSeq, Wider
  <2> QED BY <2>2, <2>5, <2>6, <2>9
<1> QED BY <1>2, <1>3

\* What a client takes goes behind what it sees, and the queue goes on from there.
LEMMA ClientTakesKeeps ==
  ASSUME StreamsInv, NEW c \in Clients, Streams!ClientTakes(c)
  PROVE  StreamsInv'
<1>1. UNCHANGED <<streamsShell, Streams!ptyVars, streamsPump, streamsOut, streamsGone,
                  Streams!inputVars, streamsHandles, streamsCache, streamsRemoved,
                  streamsSlips, streamsConnects, streamsFaults>>
  BY DEF Streams!ClientTakes
<1>2. \E s, q, d : /\ s = streamsClient[c].sees /\ q = streamsClient[c].queue
                   /\ d = (IF Streams!Eof \in Streams!ToSet(q)
                           THEN SubSeq(q, 1, Streams!SelectInSeq(q, LAMBDA x :
                               x = Streams!Eof) - 1) ELSE q)
  OBVIOUS
<1>3. PICK s, q, d : /\ s = streamsClient[c].sees /\ q = streamsClient[c].queue
                     /\ d = (IF Streams!Eof \in Streams!ToSet(q)
                             THEN SubSeq(q, 1, Streams!SelectInSeq(q, LAMBDA x :
                                 x = Streams!Eof) - 1) ELSE q)
  BY <1>2
<1>4. /\ s \in Seq(Streams!Chunks) /\ s \in Seq(Nat) /\ q \in Seq(0..MaxOut) /\ q \in Seq(Nat)
      /\ Len(q) \in Nat
      /\ streamsClient[c] \in ClientRecords
      /\ streamsClient \in [Clients -> ClientRecords]
  BY <1>3, ClientTypes
<1>5. /\ q # <<>> /\ streamsClient[c].step = "waits" /\ streamsClient[c].at # 0
      /\ ClientEnds(c) /\ EofLast(q)
  BY <1>3 DEF Streams!ClientTakes, StreamsInv, EndsOnce, ClientEnds, ClientShapes
<1>6. /\ d \in Seq(Streams!Chunks) /\ d \in Seq(Nat) /\ Len(d) \in {Len(q), Len(q) - 1}
      /\ \A i \in 1..Len(d) : d[i] = q[i]
      /\ Elems(d) \subseteq Elems(q)
      /\ Ascends(q) => Ascends(d)
      /\ Consecutive(q) => Consecutive(d)
      /\ Len(d) = Len(q) \/ q[Len(q)] = Streams!Eof
  <2>1. \/ Streams!Eof \notin Elems(q) /\ d = q
        \/ Streams!Eof \in Elems(q) /\ d = SubSeq(q, 1, Len(q) - 1)
    BY <1>3, <1>4, <1>5, TakenIs
  <2> QED BY StreamsAssumption, <1>4, <1>5, <2>1, TakenInOrder
<1>7. \E r : r = [streamsClient[c] EXCEPT !.queue = SubSeq(q, Len(d) + 2, Len(q)),
          !.sees = s \o d,
                                          !.step = IF d = <<>> THEN "left" ELSE "sends"]
  OBVIOUS
<1>8. PICK r : r = [streamsClient[c] EXCEPT !.queue = SubSeq(q, Len(d) + 2, Len(q)),
               !.sees = s \o d,
                                            !.step = IF d = <<>> THEN "left" ELSE "sends"]
  BY <1>7
<1>9. streamsClient' = [streamsClient EXCEPT ![c] = r]
  <2>1. streamsClient' = [streamsClient EXCEPT ![c] = [streamsClient[c] EXCEPT !.queue =
            SubSeq(q, Len(d) + 2, Len(q)),
                     !.sees = s \o d, !.step = IF d = <<>> THEN "left" ELSE "sends"]]
    BY <1>3 DEF Streams!ClientTakes
  <2> QED BY <1>8, <2>1
<1>10. s \o d \in Seq(Streams!Chunks) /\ SubSeq(q, Len(d) + 2, Len(q)) = <<>>
  <2>1. s \o d \in Seq(Streams!Chunks)
    BY <1>4, <1>6, JoinedSeq
  <2>2. /\ Len(d) + 2 \in Nat \ {0} /\ Len(q) \in 0..Len(q) /\ ~(Len(d) + 2 <= Len(q))
    BY <1>4, <1>6
  <2>3. /\ SubSeq(q, Len(d) + 2, Len(q)) \in Seq(0..MaxOut)
        /\ Len(SubSeq(q, Len(d) + 2, Len(q))) = 0
    BY <1>4, <2>2, CutSeq
  <2> QED BY <2>1, <2>3, NoneIn
<1>11. r \in ClientRecords
  <2>1. <<>> \in Seq(0..MaxOut)
    OBVIOUS
  <2> QED BY <1>4, <1>8, <1>10, <2>1 DEF ClientRecords, ClientSteps
<1>12. /\ r.sees = s \o d /\ r.queue = <<>> /\ r.step \in {"sends", "left"}
       /\ r.at = streamsClient[c].at
       /\ r.from = streamsClient[c].from
       /\ r.read = streamsClient[c].read
       /\ r.subscribed = streamsClient[c].subscribed
  BY <1>4, <1>8, <1>10 DEF ClientRecords
<1>13. streamsClient'[c] = r
  BY <1>4, <1>9
<1>14. ClientEnds(c)'
  <2>1. streamsHandles[streamsClient[c].at].consumer # "off"
    BY <1>5 DEF ClientEnds
  <2>2. /\ streamsClient'[c].queue = <<>>
        /\ streamsClient'[c].step \in {"sends", "left"}
        /\ streamsClient'[c].at = streamsClient[c].at
    BY <1>12, <1>13
  <2> QED BY <1>1, <2>1, <2>2, EmptySeq DEF ClientEnds, EofLast, Elems
<1>15. /\ Elems(s \o d) = Elems(s) \cup Elems(d)
       /\ Ascends(s) /\ Ascends(d) /\ AllBefore(Elems(s), Elems(d)) => Ascends(s \o d)
       /\ /\ Consecutive(s) /\ Consecutive(d)
          /\ s # <<>> /\ d # <<>> => (d[1] = Streams!Eof \/ d[1] = s[Len(s)] + 1)
          => Consecutive(s \o d)
  BY <1>4, <1>6, JoinedOrder
<1>16. ASSUME "raced" \notin streamsSlips' PROVE ClientAscends(c)'
  <2>1. ClientAscends(c)
    BY <1>1, <1>16 DEF StreamsInv, ScreensInOrder
  <2>2. \E a, l, n : /\ a = streamsClient[c].at
                     /\ l = streamsHandles[a].loop
                     /\ n = streamsHandles[a].cursor
    OBVIOUS
  <2>3. PICK a, l, n : /\ a = streamsClient[c].at
                       /\ l = streamsHandles[a].loop
                       /\ n = streamsHandles[a].cursor
    BY <2>2
  <2>4. /\ Ascends(s) /\ Ascends(q) /\ AllBefore(Elems(s), Elems(q))
        /\ Written(Elems(s) \cup Elems(q))
        /\ AllBefore(Elems(s) \cup Elems(q), Elems(l))
        /\ AllBefore(Elems(s) \cup Elems(q), Ahead(n))
    BY <1>3, <1>5, <2>1, <2>3 DEF ClientAscends
  <2>5. /\ Ascends(s \o d) /\ AllBefore(Elems(s \o d), Elems(<<>>))
        /\ Written(Elems(s \o d) \cup Elems(<<>>))
        /\ AllBefore(Elems(s \o d) \cup Elems(<<>>), Elems(l))
        /\ AllBefore(Elems(s \o d) \cup Elems(<<>>), Ahead(n))
    BY <1>6, <1>15, <2>4, EmptySeq DEF AllBefore, Written
  <2>6. /\ streamsClient'[c].sees = s \o d
        /\ streamsClient'[c].queue = <<>>
        /\ streamsClient'[c].at = a
        /\ streamsHandles'[a].loop = l /\ streamsHandles'[a].cursor = n
    BY <1>1, <1>12, <1>13, <2>3
  <2> QED BY <1>1, <2>5, <2>6, EmptySeq, ClientAscendsBy DEF Streams!ptyVars
<1>17. ASSUME streamsSlips' \subseteq {"early"} PROVE ClientRuns(c)'
  <2>1. ClientRuns(c)
    BY <1>1, <1>17 DEF StreamsInv, Gapless
  <2>2. \E a, n : /\ a = streamsClient[c].at
                  /\ n = streamsHandles[a].cursor - Len(streamsHandles[a].loop)
    OBVIOUS
  <2>3. PICK a, n : /\ a = streamsClient[c].at
                    /\ n = streamsHandles[a].cursor - Len(streamsHandles[a].loop)
    BY <2>2
  <2>4. /\ Consecutive(s) /\ Consecutive(q)
        /\ s # <<>> => q[1] = Streams!Eof \/ q[1] = s[Len(s)] + 1
        /\ streamsClient[c].subscribed
        /\ EndsAt(q, n)
    BY <1>3, <1>5, <2>1, <2>3 DEF ClientRuns, Fanned
  <2>5. d # <<>> => d[1] = q[1] /\ Len(d) \in 1..Len(d)
    BY <1>6, NoneIn, SeqFcn
  <2>6. Consecutive(s \o d)
    BY <1>6, <1>15, <2>4, <2>5
  <2>7. n \in Position /\ (q[Len(q)] = n \/ (n = Len(streamsOut) /\ streamsOut[n] = Streams!Eof))
    BY <1>5, <2>4 DEF EndsAt
  <2>8. EndsAt(s \o d, n)
    <3>1. CASE n = Len(streamsOut) /\ streamsOut[n] = Streams!Eof
      BY <2>7, <3>1 DEF EndsAt
    <3>2. CASE q[Len(q)] = n
      <4>1. n # Streams!Eof
        BY <2>7 DEF Position, Streams!Eof
      <4>2. Len(d) = Len(q) /\ Len(q) \in 1..Len(d)
        BY <1>4, <1>5, <1>6, <3>2, <4>1, NoneIn
      <4>3. d[Len(d)] = n
        BY <1>6, <3>2, <4>2
      <4>4. Len(s \o d) = Len(s) + Len(d) /\ (s \o d)[Len(s) + Len(d)] = d[Len(d)]
        <5>1. Len(d) \in 1..Len(d)
          BY <4>2
        <5> QED BY <1>4, <1>6, <5>1, JoinedSeq
      <4> QED BY <2>7, <4>3, <4>4 DEF EndsAt
    <3> QED BY <2>7, <3>1, <3>2
  <2>9. EndsAt(<<>>, n) /\ <<>> = <<>>
    BY DEF EndsAt
  <2>10. /\ streamsClient'[c].sees = s \o d
         /\ streamsClient'[c].queue = <<>>
         /\ streamsClient'[c].at = a
         /\ streamsClient'[c].subscribed
         /\ streamsHandles'[a].cursor - Len(streamsHandles'[a].loop) = n
    BY <1>1, <1>12, <1>13, <2>3, <2>4
  <2> QED BY <1>1, <2>6, <2>8, <2>9, <2>10, EmptySeq, ClientRunsBy
<1>18. GoodClient(c)
  BY <1>16, <1>17 DEF GoodClient
<1>19. Len(r.queue) <= Room
  BY StreamsAssumption, <1>12, AwayShape DEF Streams!Away
<1>20. /\ r.at = 0 <=> r.step = "off"
       /\ r.at <= Len(streamsHandles) /\ r.from <= r.read /\ r.read <= Len(streamsOut)
  BY <1>5, <1>12 DEF StreamsInv, ClientShapes
<1> QED BY <1>1, <1>9, <1>11, <1>14, <1>18, <1>19, <1>20, ClientMoves

\* A refused client changes the cache only.
LEMMA GetRefusedKeeps ==
  ASSUME StreamsInv, NEW c \in Clients, NEW w \in Viewers, Streams!GetRefused(c, w)
  PROVE  StreamsInv'
<1>1. UNCHANGED <<streamsShell, Streams!ptyVars, streamsPump, streamsOut, streamsGone,
                  Streams!inputVars, streamsHandles, streamsClient, streamsRemoved,
                  streamsSlips, streamsFaults>> /\ streamsCache' = [streamsCache EXCEPT ![w] = 0]
  BY DEF Streams!GetRefused
<1>2. /\ Len(streamsHandles) \in Nat
      /\ Len(streamsOut) \in Nat
      /\ streamsConnects \in 0..MaxConnects
      /\ streamsConnects' \in 0..MaxConnects /\ streamsConnects' = streamsConnects + 1
  BY StreamsAssumption, StreamLengths DEF Streams!GetRefused, Streams!Arrives, StreamsInv,
     FlatShapes
<1>3. HandleShapes'
  <2>1. /\ streamsCache' \in [Viewers -> Nat]
        /\ \A v \in Viewers : streamsCache'[v] <= Len(streamsHandles)
    BY <1>1, <1>2 DEF StreamsInv, HandleShapes
  <2>2. Len(streamsHandles) <= 1 + streamsConnects'
    BY <1>2 DEF StreamsInv, HandleShapes
  <2> QED BY <1>1, <2>1, <2>2 DEF StreamsInv, HandleShapes, Handle
<1>4. ClientShapes' /\ FlatShapes' /\ KeysInOrder'
  BY <1>1, <1>2, KeysKept DEF StreamsInv, ClientShapes, FlatShapes, Streams!ptyVars,
     Streams!inputVars
<1>5. EndsWithEof'
  BY <1>1 DEF StreamsInv, EndsWithEof, Streams!ptyVars, EofLast, Elems
<1>6. (\A h \in Handle' : KeptQueue(h) /\ KeptHandle(h)) /\ \A d \in Clients :
          KeptEnds(d) /\ KeptClient(d)
  BY <1>1 DEF KeptQueue, KeptHandle, KeptEnds, KeptClient, Handle
<1>7. /\ UNCHANGED <<streamsOut, streamsMade>>
      /\ streamsPump' # "over" => streamsPump # "over"
      /\ streamsSlips \subseteq streamsSlips' /\ streamsGone' = streamsGone
  BY <1>1 DEF Streams!ptyVars
<1>8. EndsOnce'
  BY <1>6, EndsKept
<1>9. OutAscends' /\ ScreensInOrder' /\ Gapless'
  <2>1. /\ (\A h \in Handle' : KeptHandle(h) \/ GoodHandle(h))
        /\ \A d \in Clients : KeptClient(d) \/ GoodClient(d)
    BY <1>6
  <2>2. streamsGone' = streamsGone \/ ~(streamsSlips' \subseteq {"early"})
    BY <1>7
  <2> QED BY <1>7, <2>1, <2>2, OrderKept
<1> QED BY <1>3, <1>4, <1>5, <1>8, <1>9 DEF StreamsInv

\* A keystroke is the latest, behind all that is on the input stream.
LEMMA TypeKeeps ==
  ASSUME StreamsInv, NEW c \in Clients, Streams!Type(c) PROVE StreamsInv'
<1>1. /\ UNCHANGED <<streamsShell, Streams!ptyVars, streamsPump, streamsOut, streamsGone,
                     streamsInCursor, streamsTyped, streamsHandles, streamsCache,
                     streamsClient, streamsRemoved, streamsSlips, streamsConnects>>
      /\ streamsSent' = streamsSent + 1 /\ streamsSent < MaxKeys
      /\ streamsKeys' = streamsKeys \/ streamsKeys' = Append(streamsKeys, streamsSent + 1)
      /\ streamsFaults' = streamsFaults \/ Streams!Fault
  BY DEF Streams!Type
<1>2. /\ Len(streamsHandles) \in Nat /\ Len(streamsOut) \in Nat /\ streamsSent \in 0..MaxKeys
      /\ streamsKeys \in Seq(1..MaxKeys)
      /\ Len(streamsKeys) \in Nat
      /\ streamsInCursor \in 0..Len(streamsKeys)
      /\ streamsTyped \in Seq(1..MaxKeys) /\ Len(streamsTyped) \in Nat
  BY StreamLengths, SeqFcn DEF StreamsInv, FlatShapes
<1>3. streamsSent' \in 0..MaxKeys /\ streamsSent + 1 \in 1..MaxKeys
  BY StreamsAssumption, <1>1, <1>2
<1>4. /\ Append(streamsKeys, streamsSent + 1) \in Seq(1..MaxKeys)
      /\ Len(Append(streamsKeys, streamsSent + 1)) = Len(streamsKeys) + 1
      /\ \A i \in 1..Len(streamsKeys) : Append(streamsKeys, streamsSent + 1)[i] = streamsKeys[i]
      /\ Append(streamsKeys, streamsSent + 1)[Len(streamsKeys) + 1] = streamsSent + 1
  BY <1>2, <1>3, AppendedSeq
<1>5. streamsFaults' \in 0..MaxFaults
  BY <1>1, FaultsBounded
<1>6. FlatShapes'
  <2>1. streamsKeys' \in Seq(1..MaxKeys) /\ streamsInCursor \in 0..Len(streamsKeys')
    <3>1. CASE streamsKeys' = streamsKeys
      BY <1>2, <3>1
    <3>2. CASE streamsKeys' = Append(streamsKeys, streamsSent + 1)
      <4>1. Len(streamsKeys') = Len(streamsKeys) + 1
        BY <1>4, <3>2
      <4> QED BY <1>2, <1>4, <3>2, <4>1
    <3> QED BY <1>1, <3>1, <3>2
  <2> QED BY <1>1, <1>3, <1>5, <2>1 DEF StreamsInv, FlatShapes, Streams!ptyVars
<1>7. KeysInOrder'
  <2>1. KeysInOrder
    BY DEF StreamsInv
  <2>6. 1..MaxKeys \subseteq Nat /\ streamsTyped \in Seq(Nat) /\ streamsKeys \in Seq(Nat)
    <3>1. 1..MaxKeys \subseteq Nat
      OBVIOUS
    <3> QED BY <1>2, <3>1, Wider
  <2>2. \A i \in 1..Len(streamsTyped) : streamsTyped[i] \in Nat /\ streamsTyped[i] <= streamsSent
    <3>1. streamsTyped \in [1..Len(streamsTyped) -> Nat]
      BY <2>6, SeqFcn
    <3> QED BY <2>1, <3>1 DEF KeysInOrder
  <2>3. \A i \in 1..Len(streamsKeys) : streamsKeys[i] \in Nat /\ streamsKeys[i] <= streamsSent
    <3>1. streamsKeys \in [1..Len(streamsKeys) -> Nat]
      BY <2>6, SeqFcn
    <3> QED BY <2>1, <3>1 DEF KeysInOrder
  <2>4. CASE streamsKeys' = streamsKeys
    BY <1>1, <1>2, <2>1, <2>2, <2>3, <2>4 DEF KeysInOrder
  <2>5. CASE streamsKeys' = Append(streamsKeys, streamsSent + 1)
    <3>1. \A i \in 1..Len(streamsKeys') : \/ i \in 1..Len(streamsKeys) /\ streamsKeys'[i] =
                                                 streamsKeys[i]
                                          \/ i = Len(streamsKeys) + 1 /\ streamsKeys'[i] =
                                                 streamsSent + 1
      BY <1>2, <1>4, <2>5
    <3>2. \A i \in 1..Len(streamsKeys') : streamsKeys'[i] <= streamsSent'
      BY <1>1, <1>2, <2>3, <3>1
    <3>3. \A i, j \in 1..Len(streamsKeys') : i < j => streamsKeys'[i] < streamsKeys'[j]
      <4> SUFFICES ASSUME NEW i \in 1..Len(streamsKeys'), NEW j \in 1..Len(streamsKeys'), i < j
                   PROVE  streamsKeys'[i] < streamsKeys'[j]
        OBVIOUS
      <4>1. i \in 1..Len(streamsKeys) /\ streamsKeys'[i] = streamsKeys[i]
        BY <1>2, <1>4, <2>5, <3>1
      <4>2. CASE j \in 1..Len(streamsKeys)
        BY <2>1, <3>1, <4>1, <4>2, <1>2 DEF KeysInOrder
      <4>3. CASE j \notin 1..Len(streamsKeys)
        BY <1>2, <2>3, <3>1, <4>1, <4>3
      <4> QED BY <4>2, <4>3
    <3>4. \A i \in 1..Len(streamsTyped), j \in 1..Len(streamsKeys') : j > streamsInCursor =>
              streamsTyped[i] < streamsKeys'[j]
      <4> SUFFICES ASSUME NEW i \in 1..Len(streamsTyped), NEW j \in 1..Len(streamsKeys'),
                          j > streamsInCursor
                   PROVE  streamsTyped[i] < streamsKeys'[j]
        OBVIOUS
      <4>1. CASE j \in 1..Len(streamsKeys) /\ streamsKeys'[j] = streamsKeys[j]
        BY <2>1, <4>1 DEF KeysInOrder
      <4>2. CASE streamsKeys'[j] = streamsSent + 1
        BY <1>2, <2>2, <4>2
      <4> QED BY <3>1, <4>1, <4>2
    <3>5. \A i \in 1..Len(streamsTyped) : streamsTyped[i] <= streamsSent'
      BY <1>1, <1>2, <2>2
    <3> QED BY <1>1, <2>1, <3>2, <3>3, <3>4, <3>5 DEF KeysInOrder
  <2> QED BY <1>1, <2>4, <2>5
<1>8. HandleShapes' /\ ClientShapes'
  BY <1>1 DEF StreamsInv, HandleShapes, ClientShapes, Handle
<1>9. EndsWithEof'
  BY <1>1 DEF StreamsInv, EndsWithEof, Streams!ptyVars, EofLast, Elems
<1>10. (\A h \in Handle' : KeptQueue(h) /\ KeptHandle(h)) /\ \A d \in Clients :
           KeptEnds(d) /\ KeptClient(d)
  BY <1>1 DEF KeptQueue, KeptHandle, KeptEnds, KeptClient, Handle
<1>11. /\ UNCHANGED <<streamsOut, streamsMade>>
       /\ streamsPump' # "over" => streamsPump # "over"
       /\ streamsSlips \subseteq streamsSlips' /\ streamsGone' = streamsGone
  BY <1>1 DEF Streams!ptyVars
<1>12. EndsOnce'
  BY <1>10, EndsKept
<1>13. OutAscends' /\ ScreensInOrder' /\ Gapless'
  <2>1. /\ (\A h \in Handle' : KeptHandle(h) \/ GoodHandle(h))
        /\ \A d \in Clients : KeptClient(d) \/ GoodClient(d)
    BY <1>10
  <2>2. streamsGone' = streamsGone \/ ~(streamsSlips' \subseteq {"early"})
    BY <1>11
  <2> QED BY <1>11, <2>1, <2>2, OrderKept
<1> QED BY <1>6, <1>7, <1>8, <1>9, <1>12, <1>13 DEF StreamsInv

-----------------------------------------------------------------------------
(* Handles whose buffer is read from the stream                               *)

\* A stream's data frames: all but the sentinel, which is last.
LEMMA DataOf ==
  ASSUME NEW s \in Seq(0..MaxOut), MaxOut \in Nat, EofLast(s), NEW d, d = Streams!Data(s)
  PROVE  /\ d \in Seq(Streams!Chunks) /\ d \in Seq(Nat)
         /\ Elems(d) \subseteq Elems(s) /\ (Ascends(s) => Ascends(d))
         /\ Consecutive(s) => Consecutive(d)
         /\ s = <<>> => d = <<>>
         /\ d # <<>> => d[Len(d)] = s[Len(s)] \/ s[Len(s)] = Streams!Eof
<1>1. CASE s = <<>>
  <2>1. d = <<>> /\ <<>> \in Seq(Streams!Chunks) /\ <<>> \in Seq(Nat)
    BY <1>1 DEF Streams!Data
  <2> QED BY <1>1, <2>1, EmptySeq
<1>2. CASE s # <<>>
  <2>1. /\ Len(s) \in Nat /\ Len(s) \in 1..Len(s) /\ s \in Seq(Nat)
    <3>1. 0..MaxOut \subseteq Nat
      OBVIOUS
    <3> QED BY <1>2, <3>1, NoneIn, SeqFcn, Wider
  <2>2. \/ Streams!Eof \notin Elems(s) /\ d = s
        \/ Streams!Eof \in Elems(s) /\ d = SubSeq(s, 1, Len(s) - 1) /\ s[Len(s)] = Streams!Eof
    <3>1. CASE s[Len(s)] = Streams!Eof
      BY <1>2, <2>1, <3>1 DEF Streams!Data, Elems
    <3>2. CASE s[Len(s)] # Streams!Eof
      <4>1. Streams!Eof \notin Elems(s)
        BY <3>2 DEF EofLast, Elems
      <4> QED BY <3>2, <4>1 DEF Streams!Data
    <3> QED BY <3>1, <3>2
  <2>3. /\ d \in Seq(Streams!Chunks) /\ d \in Seq(Nat)
        /\ Elems(d) \subseteq Elems(s) /\ (Ascends(s) => Ascends(d))
        /\ Consecutive(s) => Consecutive(d)
    BY <1>2, <2>2, TakenInOrder
  <2> QED BY <1>2, <2>2, <2>3
<1> QED BY <1>1, <1>2

\* What is read from the stream up to an entry is before all that is ahead of that entry.
LEMMA Primed ==
  ASSUME StreamsInv, NEW from \in Nat, NEW read \in Nat,
         from <= read, read <= Len(streamsOut), NEW b, b = Streams!Data(SubSeq(streamsOut,
             from + 1, read))
  PROVE  /\ b \in Seq(Streams!Chunks) /\ b \in Seq(Nat)
         /\ Ascends(b) /\ AllBefore(Elems(b), Ahead(read)) /\ Written(Elems(b))
         /\ from = read => b = <<>>
         /\ OutRuns => Consecutive(b) /\ EndsAt(b, read)
<1>1. /\ streamsOut \in Seq(Nat) /\ Len(streamsOut) \in Nat /\ streamsOut \in Seq(0..MaxOut)
      /\ Ascends(streamsOut) /\ Written(Elems(streamsOut)) /\ EofLast(streamsOut)
  BY OutFacts DEF StreamsInv, OutAscends, FlatShapes, EndsWithEof
<1>2. \E s : s = SubSeq(streamsOut, from + 1, read)
  OBVIOUS
<1>3. PICK s : s = SubSeq(streamsOut, from + 1, read)
  BY <1>2
<1>4. from + 1 \in Nat \ {0} /\ read \in 0..Len(streamsOut)
  BY <1>1
<1>5. /\ s \in Seq(0..MaxOut)
      /\ Len(s) = IF from + 1 <= read THEN read - (from + 1) + 1 ELSE 0
      /\ \A i \in 1..Len(s) : s[i] = streamsOut[from + 1 + i - 1]
  <2>1. PICK m \in Nat \ {0} : m = from + 1
    BY <1>4
  <2>2. /\ s \in Seq(0..MaxOut)
        /\ Len(s) = IF m <= read THEN read - m + 1 ELSE 0
        /\ \A i \in 1..Len(s) : s[i] = streamsOut[m + i - 1]
    <3>1. s = SubSeq(streamsOut, m, read)
      BY <1>3, <2>1
    <3>2. s \in Seq(0..MaxOut)
      BY <1>1, <1>4, <3>1, CutSeq
    <3>3. Len(s) = IF m <= read THEN read - m + 1 ELSE 0
      BY <1>1, <1>4, <3>1, CutSeq
    <3>4. \A i \in 1..Len(s) : s[i] = streamsOut[m + i - 1]
      BY <1>1, <1>4, <3>1, CutSeq
    <3> QED BY <3>2, <3>3, <3>4
  <2> QED BY <2>1, <2>2
<1>6. /\ Elems(s) \subseteq Elems(streamsOut) /\ Ascends(s) /\ EofLast(s)
      /\ Consecutive(streamsOut) => Consecutive(s)
  BY <1>1, <1>3, <1>4, CutOrder
<1>7. /\ b \in Seq(Streams!Chunks) /\ b \in Seq(Nat)
      /\ Elems(b) \subseteq Elems(s) /\ Ascends(b)
      /\ Consecutive(s) => Consecutive(b)
      /\ s = <<>> => b = <<>>
      /\ b # <<>> => b[Len(b)] = s[Len(s)] \/ s[Len(s)] = Streams!Eof
  <2>1. b = Streams!Data(s)
    BY <1>3
  <2> QED BY StreamsAssumption, <1>5, <1>6, <2>1, DataOf
<1>8. Len(s) = read - from
  BY <1>5
<1>9. from = read => b = <<>>
  BY <1>5, <1>7, <1>8, NoneIn
<1>10. \A i \in 1..Len(s) :
           from + i \in Position /\ from + i <= read /\ s[i] = streamsOut[from + i]
  <2> SUFFICES ASSUME NEW i \in 1..Len(s)
               PROVE  from + i \in Position /\ from + i <= read /\ s[i] = streamsOut[from + i]
    OBVIOUS
  <2>1. from + 1 + i - 1 = from + i
    OBVIOUS
  <2>2. from + i \in 1..Len(streamsOut) /\ from + i <= read
    BY <1>1, <1>8
  <2> QED BY <1>5, <2>1, <2>2 DEF Position
<1>11. AllBefore(Elems(s), Ahead(read))
  <2> SUFFICES ASSUME NEW i \in 1..Len(s), NEW k \in (read + 1)..Len(streamsOut)
               PROVE  Before(s[i], streamsOut[k])
    BY DEF AllBefore, Elems, Ahead
  <2>1. from + i \in 1..Len(streamsOut) /\ k \in 1..Len(streamsOut) /\ from + i < k
    BY <1>1, <1>10 DEF Position
  <2> QED BY <1>1, <1>10, <2>1 DEF Ascends
<1>12. AllBefore(Elems(b), Ahead(read)) /\ Written(Elems(b))
  BY <1>1, <1>6, <1>7, <1>11 DEF AllBefore, Written
<1>13. ASSUME OutRuns PROVE Consecutive(b) /\ EndsAt(b, read)
  <2>1. Consecutive(streamsOut)
    <3> SUFFICES ASSUME NEW i \in 1..(Len(streamsOut) - 1), streamsOut[i + 1] # Streams!Eof
                 PROVE  streamsOut[i + 1] = streamsOut[i] + 1
      BY DEF Consecutive
    <3>1. i \in Position /\ i + 1 \in Position /\ i # Len(streamsOut)
      BY <1>1 DEF Position
    <3>2. streamsOut[i] # Streams!Eof
      BY <1>1, <3>1 DEF EofLast, Position
    <3> QED BY <1>13, <3>1, <3>2 DEF OutRuns
  <2>2. ASSUME b # <<>>
        PROVE  /\ read \in Position
               /\ (b[Len(b)] = read \/ (read = Len(streamsOut) /\ streamsOut[read] =
                      Streams!Eof))
    <3>1. from < read
      BY <1>9, <2>2
    <3>2. read \in Position /\ Len(s) \in 1..Len(s) /\ from + Len(s) = read
      BY <1>1, <1>8, <3>1 DEF Position
    <3>3. s[Len(s)] = streamsOut[read]
      BY <1>10, <3>2
    <3>4. streamsOut[read] = Streams!Eof => read = Len(streamsOut)
      BY <1>1, <3>2 DEF EofLast, Position
    <3>5. streamsOut[read] = Streams!Eof \/ streamsOut[read] = read
      BY <1>13, <3>2 DEF OutRuns
    <3> QED BY <1>7, <2>2, <3>2, <3>3, <3>4, <3>5
  <2> QED BY <1>6, <1>7, <2>1, <2>2 DEF EndsAt
<1> QED BY <1>7, <1>9, <1>12, <1>13

\* A buffer primed while no consumer runs begins where the cursor is put.
LEMMA PrimeKeeps ==
  ASSUME StreamsInv, NEW c \in Clients, Streams!Prime(c) PROVE StreamsInv'
<1>1. UNCHANGED <<streamsShell, Streams!ptyVars, streamsPump, streamsOut, streamsGone,
                  Streams!inputVars, streamsCache, streamsRemoved, streamsConnects,
                  streamsFaults>>
  BY DEF Streams!Prime
<1>2. \E h, from, read, b, n :
        /\ h = streamsClient[c].at
        /\ from = streamsClient[c].from
        /\ read = streamsClient[c].read
        /\ b = Streams!Data(SubSeq(streamsOut, from + 1, read))
        /\ n = IF read > from THEN read ELSE streamsHandles[h].cursor
  OBVIOUS
<1>3. PICK h, from, read, b, n :
        /\ h = streamsClient[c].at
        /\ from = streamsClient[c].from
        /\ read = streamsClient[c].read
        /\ b = Streams!Data(SubSeq(streamsOut, from + 1, read))
        /\ n = IF read > from THEN read ELSE streamsHandles[h].cursor
  BY <1>2
<1>4. /\ streamsClient[c].step = "looked" /\ h \in Handle /\ from \in Nat /\ read \in Nat
      /\ from <= read /\ read <= Len(streamsOut) /\ streamsClient[c] \in ClientRecords
      /\ streamsClient \in [Clients -> ClientRecords]
  BY <1>3, ClientTypes DEF Streams!Prime, StreamsInv, ClientShapes
<1>5. /\ Len(streamsOut) \in Nat /\ Len(streamsHandles) \in Nat /\ streamsGone \in Nat
      /\ streamsHandles \in [Handle -> StreamHandles] /\ streamsHandles[h] \in StreamHandles
      /\ streamsHandles[h].cursor \in 0..Len(streamsOut)
  BY <1>4, StreamLengths, HandleTypes, OutFacts DEF StreamsInv
<1>6. /\ b \in Seq(Streams!Chunks)
      /\ Ascends(b)
      /\ AllBefore(Elems(b), Ahead(read))
      /\ Written(Elems(b))
      /\ from = read => b = <<>>
      /\ OutRuns => Consecutive(b) /\ EndsAt(b, read)
  BY <1>3, <1>4, Primed
<1>7. n \in Nat /\ n <= Len(streamsOut)
  BY <1>3, <1>4, <1>5
<1>8. streamsHandles' = [streamsHandles EXCEPT ![h] = [streamsHandles[h] EXCEPT !.buffer = b,
          !.cursor = n]]
  BY <1>3 DEF Streams!Prime
<1>9. /\ streamsHandles' \in [1..Len(streamsHandles) -> StreamHandles]
      /\ \A g \in Handle : g # h => streamsHandles'[g] = streamsHandles[g]
      /\ streamsHandles'[h].buffer = b /\ streamsHandles'[h].cursor = n
      /\ streamsHandles'[h].loop = streamsHandles[h].loop
      /\ streamsHandles'[h].consumer = streamsHandles[h].consumer
  <2>1. [streamsHandles[h] EXCEPT !.buffer = b, !.cursor = n] \in StreamHandles
    BY <1>5, <1>6, <1>7 DEF StreamHandles
  <2>2. /\ streamsHandles' \in [Handle -> StreamHandles]
        /\ \A g \in Handle : g # h => streamsHandles'[g] = streamsHandles[g]
    BY <1>5, <1>8, <2>1
  <2>3. streamsHandles'[h] = [streamsHandles[h] EXCEPT !.buffer = b, !.cursor = n]
    BY <1>4, <1>5, <1>8
  <2>4. /\ streamsHandles'[h].buffer = b /\ streamsHandles'[h].cursor = n
        /\ streamsHandles'[h].loop = streamsHandles[h].loop
        /\ streamsHandles'[h].consumer = streamsHandles[h].consumer
    BY <1>5, <2>3 DEF StreamHandles
  <2> QED BY <2>2, <2>4 DEF Handle
<1>10. HandleShapes' /\ Len(streamsHandles') = Len(streamsHandles) /\ Handle' = Handle
  BY <1>1, <1>4, <1>7, <1>9, OneHandle DEF StreamsInv
<1>11. /\ streamsSlips \subseteq streamsSlips' /\ streamsSlips' \subseteq StreamSlips
       /\ streamsHandles[h].consumer # "off" => "raced" \in streamsSlips'
       /\ read > from /\ read < streamsGone => "trimmed" \in streamsSlips'
  BY <1>3 DEF Streams!Prime, Streams!Slip, StreamSlips, StreamsInv, FlatShapes
<1>12. \E r : r = [streamsClient[c] EXCEPT !.step = "got"]
  OBVIOUS
<1>13. PICK r : r = [streamsClient[c] EXCEPT !.step = "got"]
  BY <1>12
<1>14. /\ r \in ClientRecords /\ r.at = h /\ r.step = "got" /\ r.sees = streamsClient[c].sees
       /\ r.queue = streamsClient[c].queue /\ r.from = from /\ r.read = read
       /\ r.subscribed = streamsClient[c].subscribed
  BY <1>3, <1>4, <1>13 DEF ClientRecords, ClientSteps
<1>15. streamsClient' = [streamsClient EXCEPT ![c] = r]
  BY <1>13 DEF Streams!Prime
<1>16. /\ ClientShapes'
       /\ streamsClient'[c] = r
       /\ \A d \in Clients : d # c => streamsClient'[d] = streamsClient[d]
  <2>1. r.at = 0 <=> r.step = "off"
    BY <1>4, <1>14 DEF Handle
  <2>2. Len(r.queue) <= Room
    BY <1>14, ClientTypes
  <2>3. /\ Len(streamsHandles') \in Nat
        /\ Len(streamsHandles) <= Len(streamsHandles')
        /\ r.at <= Len(streamsHandles')
    BY <1>4, <1>5, <1>10, <1>14 DEF Handle
  <2> QED BY <1>1, <1>4, <1>14, <1>15, <2>1, <2>2, <2>3, ClientSet
<1>17. FlatShapes' /\ KeysInOrder'
  BY <1>1, <1>11, KeysKept DEF StreamsInv, FlatShapes, Streams!ptyVars, Streams!inputVars
<1>18. EndsWithEof'
  <2>1. streamsHandles'[1].consumer = streamsHandles[1].consumer
    BY <1>9, HandleTypes DEF StreamsInv
  <2> QED BY <1>1, <2>1 DEF StreamsInv, EndsWithEof, Streams!ptyVars, EofLast, Elems
<1>19. \A d \in Clients : streamsClient[d].at # 0 => streamsClient[d].at \in Handle
  BY ClientTypes
<1>20. EndsOnce'
  <2>1. \A g \in Handle' : KeptQueue(g)
    BY <1>9, <1>10 DEF KeptQueue
  <2>2. \A d \in Clients : d # c => KeptEnds(d)
    BY <1>9, <1>16, <1>19 DEF KeptEnds
  <2>3. KeptEnds(c)
    BY <1>3, <1>4, <1>9, <1>14, <1>16 DEF KeptEnds
  <2> QED BY <2>1, <2>2, <2>3, EndsKept
<1>21. UNCHANGED <<streamsOut, streamsMade, streamsGone, streamsPump>>
  BY <1>1 DEF Streams!ptyVars
<1>22. ASSUME streamsHandles[h].consumer = "off"
       PROVE  GoodHandle(h) /\ \A d \in Clients : streamsClient[d].at = h => GoodClient(d)
  <2>1. streamsHandles[h].loop = <<>> /\ Len(streamsHandles[h].loop) = 0
    BY <1>4, <1>22 DEF StreamsInv, EndsOnce, HandleEnds
  <2>2. ASSUME NEW d \in Clients, streamsClient[d].at = h PROVE GoodClient(d)
    <3>1. ClientEnds(d)
      BY DEF StreamsInv, EndsOnce
    <3>2. streamsClient[d].step \in {"off", "looked", "got"}
      BY <1>22, <2>2, <3>1 DEF ClientEnds
    <3>3. /\ streamsClient[d].sees = <<>>
          /\ streamsClient[d].queue = <<>>
          /\ ~streamsClient[d].subscribed
      BY <3>1, <3>2 DEF ClientEnds
    <3>4. /\ streamsClient'[d].sees = <<>>
          /\ streamsClient'[d].queue = <<>>
          /\ ~streamsClient'[d].subscribed
          /\ streamsClient'[d].step \in {"off", "looked", "got"}
      BY <1>14, <1>16, <3>2, <3>3
    <3> QED BY <1>21, <3>4, FreshClient
  <2>3. ASSUME "raced" \notin streamsSlips' PROVE HandleAscends(h)'
    <3>1. AllBefore(Elems(b), Ahead(n))
      <4>1. CASE read > from
        BY <1>3, <1>6, <4>1
      <4>2. CASE ~(read > from)
        <5>1. b = <<>>
          BY <1>4, <1>6, <4>2
        <5> QED BY <5>1, EmptySeq DEF AllBefore
      <4> QED BY <4>1, <4>2
    <3>2. /\ AllBefore(Elems(b), Elems(<<>>)) /\ AllBefore(Elems(b) \cup Elems(<<>>), Ahead(n))
          /\ Written(Elems(b) \cup Elems(<<>>))
      BY <1>6, <3>1, EmptySeq DEF AllBefore
    <3> QED BY <1>6, <1>9, <1>21, <2>1, <3>2, EmptySeq, HandleAscendsBy
  <2>4. ASSUME streamsSlips' \subseteq {"early"} PROVE HandleRuns(h)'
    <3>1. OutRuns /\ HandleRuns(h)
      BY <1>4, <1>11, <2>4 DEF StreamsInv, Gapless
    <3>2. ~(read > from /\ read < streamsGone)
      BY <1>11, <2>4
    <3>3. streamsGone <= streamsHandles[h].cursor
      BY <3>1 DEF HandleRuns
    <3>4. streamsGone' <= n
      BY <1>3, <1>4, <1>5, <1>21, <3>2, <3>3
    <3>5. Consecutive(b) /\ EndsAt(b, n - Len(<<>>))
      <4>1. CASE read > from
        <5>1. n - Len(<<>>) = read
          BY <1>3, <1>4, <2>1, <4>1
        <5> QED BY <1>6, <3>1, <5>1
      <4>2. CASE ~(read > from)
        <5>1. b = <<>>
          BY <1>4, <1>6, <4>2
        <5> QED BY <5>1, EmptySeq DEF EndsAt
      <4> QED BY <4>1, <4>2
    <3>6. Len(<<>>) <= n /\ \A i \in 1..Len(<<>>) : <<>>[i] = streamsOut[n - Len(<<>>) + i]
      BY <1>7, <2>1
    <3>7. streamsHandles'[h].loop = <<>>
      BY <1>9, <2>1
    <3> QED BY <1>9, <1>21, <3>4, <3>5, <3>6, <3>7, HandleRunsBy
  <2> QED BY <2>2, <2>3, <2>4 DEF GoodHandle
<1>23. ASSUME streamsHandles[h].consumer # "off"
       PROVE  GoodHandle(h) /\ \A d \in Clients : streamsClient[d].at = h => GoodClient(d)
  <2>1. "raced" \in streamsSlips'
    BY <1>11, <1>23
  <2> QED BY <2>1 DEF GoodHandle, GoodClient
<1>24. OutAscends' /\ ScreensInOrder' /\ Gapless'
  <2>1. \A g \in Handle' : KeptHandle(g) \/ GoodHandle(g)
    BY <1>9, <1>10, <1>22, <1>23 DEF KeptHandle
  <2>2. ASSUME NEW d \in Clients PROVE KeptClient(d) \/ GoodClient(d)
    <3>1. CASE streamsClient[d].at = h
      BY <1>22, <1>23, <3>1
    <3>2. CASE streamsClient[d].at # h
      <4>1. streamsClient'[d] = streamsClient[d]
        BY <1>3, <1>16, <3>2
      <4> QED BY <1>9, <1>19, <3>2, <4>1 DEF KeptClient
    <3> QED BY <3>1, <3>2
  <2>3. /\ streamsPump' # "over" => streamsPump # "over"
        /\ streamsGone' = streamsGone \/ ~(streamsSlips' \subseteq {"early"})
    BY <1>21
  <2> QED BY <1>11, <1>21, <2>1, <2>2, <2>3, OrderKept
<1> QED BY <1>10, <1>16, <1>17, <1>18, <1>20, <1>24 DEF StreamsInv

\* An adopted handle's buffer ends where its cursor is.
LEMMA GetAdoptsKeeps ==
  ASSUME StreamsInv, NEW c \in Clients, NEW w \in Viewers, Streams!GetAdopts(c, w)
  PROVE  StreamsInv'
<1>1. UNCHANGED <<streamsShell, Streams!ptyVars, streamsPump, streamsOut, streamsGone,
                  Streams!inputVars, streamsRemoved, streamsSlips, streamsFaults>>
  BY DEF Streams!GetAdopts
<1>2. /\ Len(streamsHandles) \in Nat
      /\ Len(streamsOut) \in Nat
      /\ streamsConnects \in 0..MaxConnects
      /\ streamsConnects' \in 0..MaxConnects
      /\ streamsConnects' = streamsConnects + 1
      /\ streamsGone \in 0..Len(streamsOut)
      /\ streamsHandles \in Seq(StreamHandles)
      /\ Len(streamsHandles) <= 1 + streamsConnects
      /\ 1 \in Handle
      /\ streamsHandles \in [Handle -> StreamHandles]
  <2>1. HandleShapes
    BY DEF StreamsInv
  <2>2. /\ streamsHandles \in [Handle -> StreamHandles]
        /\ 1 \in Handle
        /\ Len(streamsHandles) \in Nat
    BY <2>1, HandleTypes
  <2>3. streamsHandles \in Seq(StreamHandles) /\ Len(streamsHandles) <= 1 + streamsConnects
    BY <2>1 DEF HandleShapes
  <2>4. /\ Len(streamsOut) \in Nat
        /\ streamsConnects \in 0..MaxConnects
        /\ streamsGone \in 0..Len(streamsOut)
        /\ streamsConnects' \in 0..MaxConnects /\ streamsConnects' = streamsConnects + 1
    <3>1. streamsConnects < MaxConnects /\ streamsConnects' = streamsConnects + 1
      BY DEF Streams!GetAdopts, Streams!Arrives
    <3> QED BY StreamsAssumption, <3>1, StreamLengths DEF StreamsInv, FlatShapes
  <2> QED BY <2>2, <2>3, <2>4
<1>3. \E b, n, h : /\ b = Streams!Data(SubSeq(streamsOut, streamsGone + 1, Len(streamsOut)))
                   /\ n = IF Len(streamsOut) > streamsGone THEN Len(streamsOut) ELSE 0
                   /\ h = Len(streamsHandles) + 1
  OBVIOUS
<1>4. PICK b, n, h : /\ b = Streams!Data(SubSeq(streamsOut, streamsGone + 1, Len(streamsOut)))
                     /\ n = IF Len(streamsOut) > streamsGone THEN Len(streamsOut) ELSE 0
                     /\ h = Len(streamsHandles) + 1
  BY <1>3
<1>5. /\ b \in Seq(Streams!Chunks)
      /\ Ascends(b)
      /\ AllBefore(Elems(b), Ahead(Len(streamsOut)))
      /\ Written(Elems(b))
      /\ streamsGone = Len(streamsOut) => b = <<>>
      /\ OutRuns => Consecutive(b) /\ EndsAt(b, Len(streamsOut))
  <2>1. /\ streamsGone \in Nat
        /\ streamsGone <= Len(streamsOut)
        /\ Len(streamsOut) <= Len(streamsOut)
    BY <1>2
  <2> QED BY <1>2, <1>4, <2>1, Primed
<1>6. n \in Nat /\ n <= Len(streamsOut) /\ h \in Nat /\ h # 0
  BY <1>2, <1>4
<1>7. \E m : m = [worker |-> w, alive |-> TRUE, stopping |-> FALSE, consumer |-> "off",
                  cursor |-> n, loop |-> <<>>, buffer |-> b]
  OBVIOUS
<1>8. PICK m : m = [worker |-> w, alive |-> TRUE, stopping |-> FALSE, consumer |-> "off",
                    cursor |-> n, loop |-> <<>>, buffer |-> b]
  BY <1>7
<1>9. m \in StreamHandles
  <2>1. <<>> \in Seq(0..MaxOut)
    OBVIOUS
  <2> QED BY <1>5, <1>6, <1>8, <2>1 DEF StreamHandles
<1>10. streamsHandles' = Append(streamsHandles, m)
  BY <1>4, <1>8 DEF Streams!GetAdopts
<1>11. /\ streamsHandles' \in Seq(StreamHandles)
       /\ Len(streamsHandles') = Len(streamsHandles) + 1
       /\ \A g \in Handle : streamsHandles'[g] = streamsHandles[g]
       /\ streamsHandles'[h] = m
  BY <1>2, <1>4, <1>9, <1>10, AppendedSeq DEF Handle
<1>12. Handle' = Handle \cup {h}
  BY <1>2, <1>4, <1>11 DEF Handle
<1>13. /\ streamsHandles'[h].buffer = b
       /\ streamsHandles'[h].cursor = n
       /\ streamsHandles'[h].loop = <<>>
       /\ streamsHandles'[h].consumer = "off"
  BY <1>8, <1>11
<1>14. HandleShapes'
  <2>1. \A g \in Handle' : streamsHandles'[g].cursor <= Len(streamsOut)
    BY <1>6, <1>11, <1>12, <1>13 DEF StreamsInv, HandleShapes
  <2>2. streamsCache' = [streamsCache EXCEPT ![w] = h]
    BY <1>4 DEF Streams!GetAdopts
  <2>3. /\ streamsCache' \in [Viewers -> Nat]
        /\ \A v \in Viewers : streamsCache'[v] <= Len(streamsHandles')
    <3>1. \A v \in Viewers : streamsCache[v] \in Nat /\ streamsCache[v] <= Len(streamsHandles)
      BY DEF StreamsInv, HandleShapes
    <3>2. streamsCache' \in [Viewers -> Nat]
      BY <1>6, <2>2 DEF StreamsInv, HandleShapes
    <3>3. \A v \in Viewers : streamsCache'[v] = streamsCache[v] \/ streamsCache'[v] = h
      BY <2>2 DEF StreamsInv, HandleShapes
    <3>4. Len(streamsHandles) \in Nat /\ Len(streamsHandles') = Len(streamsHandles) + 1
      BY <1>2, <1>11
    <3>5. h <= Len(streamsHandles')
      BY <1>4, <3>4
    <3>6. \A v \in Viewers : streamsCache'[v] <= Len(streamsHandles')
      BY <3>1, <3>3, <3>4, <3>5
    <3> QED BY <3>2, <3>6
  <2>4. Len(streamsHandles') <= 1 + streamsConnects' /\ 1 \in Handle'
    BY <1>2, <1>11, <1>12
  <2> QED BY <1>1, <1>11, <2>1, <2>3, <2>4 DEF HandleShapes
<1>15. \E r : r = [Streams!Away EXCEPT !.at = h, !.step = "got"]
  OBVIOUS
<1>16. PICK r : r = [Streams!Away EXCEPT !.at = h, !.step = "got"]
  BY <1>15
<1>17. /\ r \in ClientRecords /\ r.at = h /\ r.step = "got" /\ r.from = 0 /\ r.read = 0
       /\ r.sees = <<>> /\ r.queue = <<>> /\ ~r.subscribed
  <2>1. r \in ClientRecords
    BY <1>6, <1>16, AwayShape DEF ClientRecords, ClientSteps
  <2> QED BY <1>16, <2>1 DEF Streams!Away
<1>18. streamsClient' = [streamsClient EXCEPT ![c] = r]
  BY <1>4, <1>16 DEF Streams!GetAdopts
<1>19. /\ ClientShapes'
       /\ streamsClient'[c] = r
       /\ \A d \in Clients : d # c => streamsClient'[d] = streamsClient[d]
  <2>1. /\ r.at = 0 <=> r.step = "off"
        /\ r.from <= r.read /\ r.read <= Len(streamsOut)
    BY <1>2, <1>6, <1>17
  <2>2. Len(r.queue) <= Room
    BY StreamsAssumption, <1>17, AwayShape DEF Streams!Away
  <2>3. /\ Len(streamsHandles') \in Nat
        /\ Len(streamsHandles) <= Len(streamsHandles')
        /\ r.at <= Len(streamsHandles')
    BY <1>2, <1>4, <1>11, <1>17
  <2> QED BY <1>1, <1>17, <1>18, <2>1, <2>2, <2>3, ClientSet
<1>20. FlatShapes' /\ KeysInOrder'
  BY <1>1, <1>2, KeysKept DEF StreamsInv, FlatShapes, Streams!ptyVars, Streams!inputVars
<1>21. EndsWithEof'
  <2>1. streamsHandles'[1].consumer = streamsHandles[1].consumer
    BY <1>2, <1>11
  <2> QED BY <1>1, <2>1 DEF StreamsInv, EndsWithEof, Streams!ptyVars, EofLast, Elems
<1>22. \A d \in Clients : streamsClient[d].at # 0 => streamsClient[d].at \in Handle
  BY ClientTypes
<1>23. UNCHANGED <<streamsOut, streamsMade, streamsGone, streamsPump, streamsSlips>>
  BY <1>1 DEF Streams!ptyVars
<1>24. GoodClient(c) /\ ClientEnds(c)'
  BY <1>17, <1>19, <1>23, FreshClient
<1>25. EndsOnce'
  <2>1. HandleEnds(h)'
    BY <1>13, EmptySeq DEF HandleEnds, EofLast, Elems
  <2>2. \A g \in Handle : KeptQueue(g)
    BY <1>11 DEF KeptQueue
  <2>3. \A d \in Clients : d # c => KeptEnds(d)
    BY <1>11, <1>19, <1>22 DEF KeptEnds
  <2> QED BY <1>12, <1>24, <2>1, <2>2, <2>3, EndsKept
<1>26. Len(<<>>) = 0
  OBVIOUS
<1>27. GoodHandle(h)
  <2>1. ASSUME "raced" \notin streamsSlips' PROVE HandleAscends(h)'
    <3>1. AllBefore(Elems(b), Ahead(n))
      <4>1. CASE Len(streamsOut) > streamsGone
        BY <1>4, <1>5, <4>1
      <4>2. CASE ~(Len(streamsOut) > streamsGone)
        <5>1. b = <<>>
          BY <1>2, <1>5, <4>2
        <5> QED BY <5>1, EmptySeq DEF AllBefore
      <4> QED BY <4>1, <4>2
    <3>2. /\ AllBefore(Elems(b), Elems(<<>>)) /\ AllBefore(Elems(b) \cup Elems(<<>>), Ahead(n))
          /\ Written(Elems(b) \cup Elems(<<>>))
      BY <1>5, <3>1, EmptySeq DEF AllBefore
    <3> QED BY <1>5, <1>13, <1>23, <3>2, EmptySeq, HandleAscendsBy
  <2>2. ASSUME streamsSlips' \subseteq {"early"} PROVE HandleRuns(h)'
    <3>1. OutRuns
      BY <1>23, <2>2 DEF StreamsInv, Gapless
    <3>2. streamsGone' <= n
      BY <1>2, <1>4, <1>23, <3>1 DEF OutRuns
    <3>3. Consecutive(b) /\ EndsAt(b, n - Len(<<>>))
      <4>1. CASE Len(streamsOut) > streamsGone
        <5>1. n - Len(<<>>) = Len(streamsOut)
          BY <1>2, <1>4, <1>26, <4>1
        <5> QED BY <1>5, <3>1, <5>1
      <4>2. CASE ~(Len(streamsOut) > streamsGone)
        <5>1. b = <<>>
          BY <1>2, <1>5, <4>2
        <5> QED BY <5>1, EmptySeq DEF EndsAt
      <4> QED BY <4>1, <4>2
    <3>4. Len(<<>>) <= n /\ \A i \in 1..Len(<<>>) : <<>>[i] = streamsOut[n - Len(<<>>) + i]
      BY <1>6, <1>26
    <3>5. /\ UNCHANGED streamsOut
          /\ streamsHandles'[h].buffer = b
          /\ streamsHandles'[h].loop = <<>>
          /\ streamsHandles'[h].cursor = n
      BY <1>13, <1>23
    <3> QED BY <1>23, <3>2, <3>3, <3>4, <3>5, HandleRunsBy
  <2> QED BY <2>1, <2>2 DEF GoodHandle
<1>28. OutAscends' /\ ScreensInOrder' /\ Gapless'
  <2>1. \A g \in Handle' : KeptHandle(g) \/ GoodHandle(g)
    BY <1>11, <1>12, <1>27 DEF KeptHandle
  <2>2. \A d \in Clients : KeptClient(d) \/ GoodClient(d)
    BY <1>11, <1>19, <1>22, <1>24 DEF KeptClient
  <2>3. /\ streamsPump' # "over" => streamsPump # "over"
        /\ streamsGone' = streamsGone \/ ~(streamsSlips' \subseteq {"early"})
        /\ streamsSlips \subseteq streamsSlips'
    BY <1>23
  <2> QED BY <1>23, <2>1, <2>2, <2>3, OrderKept
<1> QED BY <1>14, <1>19, <1>20, <1>21, <1>25, <1>28 DEF StreamsInv

\* The replay is the buffer, and the client goes on behind it.
LEMMA OpenKeeps ==
  ASSUME StreamsInv, NEW c \in Clients, Streams!Open(c) PROVE StreamsInv'
<1>1. UNCHANGED <<streamsShell, streamsMade, streamsPump, streamsOut, streamsGone,
                  Streams!inputVars, streamsCache, streamsRemoved, streamsSlips, streamsConnects,
                  streamsFaults>>
  BY DEF Streams!Open
<1>2. \E h, b : h = streamsClient[c].at /\ b = streamsHandles[h].buffer
  OBVIOUS
<1>3. PICK h, b : h = streamsClient[c].at /\ b = streamsHandles[h].buffer
  BY <1>2
<1>4. /\ streamsClient[c].step = "got"
      /\ h \in Handle
      /\ h # 0
      /\ streamsClient[c] \in ClientRecords
      /\ streamsClient \in [Clients -> ClientRecords]
  BY <1>3, ClientTypes DEF Streams!Open, Handle
<1>5. /\ Len(streamsOut) \in Nat /\ Len(streamsHandles) \in Nat
      /\ streamsHandles \in [Handle -> StreamHandles] /\ streamsHandles[h] \in StreamHandles
      /\ streamsHandles[h].cursor \in 0..Len(streamsOut) /\ b \in Seq(Streams!Chunks)
      /\ streamsHandles[h].consumer \in {"off", "runs", "over"}
  BY <1>3, <1>4, StreamLengths, HandleTypes, OutFacts DEF StreamsInv
<1>6. \E k : k = IF streamsHandles[h].consumer = "off" THEN "runs"
          ELSE streamsHandles[h].consumer
  OBVIOUS
<1>7. PICK k : k = IF streamsHandles[h].consumer = "off" THEN "runs"
               ELSE streamsHandles[h].consumer
  BY <1>6
<1>8. /\ k \in {"runs", "over"}
      /\ (streamsHandles[h].consumer # "off" => k = streamsHandles[h].consumer)
  BY <1>5, <1>7
<1>9. streamsHandles' = [streamsHandles EXCEPT ![h] = [streamsHandles[h] EXCEPT !.consumer = k]]
  BY <1>3, <1>7 DEF Streams!Open
<1>10. /\ streamsHandles' \in [1..Len(streamsHandles) -> StreamHandles]
       /\ \A g \in Handle : g # h => streamsHandles'[g] = streamsHandles[g]
       /\ streamsHandles'[h].buffer = b /\ streamsHandles'[h].cursor = streamsHandles[h].cursor
       /\ streamsHandles'[h].loop = streamsHandles[h].loop
       /\ streamsHandles'[h].consumer = k
  <2>1. [streamsHandles[h] EXCEPT !.consumer = k] \in StreamHandles
    BY <1>5, <1>8 DEF StreamHandles
  <2>2. /\ streamsHandles' \in [Handle -> StreamHandles]
        /\ \A g \in Handle : g # h => streamsHandles'[g] = streamsHandles[g]
    BY <1>5, <1>9, <2>1
  <2>3. streamsHandles'[h] = [streamsHandles[h] EXCEPT !.consumer = k]
    BY <1>4, <1>5, <1>9
  <2>4. /\ streamsHandles'[h].buffer = b /\ streamsHandles'[h].cursor = streamsHandles[h].cursor
        /\ streamsHandles'[h].loop = streamsHandles[h].loop
        /\ streamsHandles'[h].consumer = k
    BY <1>3, <1>5, <2>3 DEF StreamHandles
  <2> QED BY <2>2, <2>4 DEF Handle
<1>11. HandleShapes' /\ Len(streamsHandles') = Len(streamsHandles) /\ Handle' = Handle
  <2>1. streamsHandles[h].cursor <= Len(streamsOut)
    BY <1>4 DEF StreamsInv, HandleShapes
  <2> QED BY <1>1, <1>4, <1>10, <2>1, OneHandle DEF StreamsInv
<1>12. \E r : r = [streamsClient[c] EXCEPT !.sees = b,
                      !.step = IF b = <<>> THEN Streams!Follow(h) ELSE "sending",
                      !.subscribed = (b = <<>>)]
  OBVIOUS
<1>13. PICK r : r = [streamsClient[c] EXCEPT !.sees = b,
                      !.step = IF b = <<>> THEN Streams!Follow(h) ELSE "sending",
                      !.subscribed = (b = <<>>)]
  BY <1>12
<1>14. streamsClient' = [streamsClient EXCEPT ![c] = r]
  <2>1. streamsClient' = [streamsClient EXCEPT ![c] = [streamsClient[c] EXCEPT !.sees = b,
                      !.step = IF b = <<>> THEN Streams!Follow(h) ELSE "sending",
                      !.subscribed = (b = <<>>)]]
    BY <1>3 DEF Streams!Open
  <2> QED BY <1>13, <2>1
<1>15. streamsClient[c].sees = <<>> /\ streamsClient[c].queue = <<>>
  BY <1>4 DEF StreamsInv, EndsOnce, ClientEnds
<1>16. /\ r \in ClientRecords /\ r.at = h /\ r.step \in {"waits", "left", "sending"}
       /\ r.sees = b
       /\ r.queue = <<>>
       /\ r.from = streamsClient[c].from
       /\ r.read = streamsClient[c].read
       /\ r.step # "sending" => r.subscribed
  <2>1. Streams!Follow(h) \in {"waits", "left"}
    BY FollowIs
  <2>2. CASE b = <<>>
    <3>1. r = [streamsClient[c] EXCEPT !.sees = b, !.step = Streams!Follow(h),
              !.subscribed = TRUE]
      BY <1>13, <2>2
    <3> QED BY <1>3, <1>4, <1>5, <1>15, <2>1, <3>1 DEF ClientRecords, ClientSteps
  <2>3. CASE b # <<>>
    <3>1. r = [streamsClient[c] EXCEPT !.sees = b, !.step = "sending", !.subscribed = FALSE]
      BY <1>13, <2>3
    <3> QED BY <1>3, <1>4, <1>5, <1>15, <3>1 DEF ClientRecords, ClientSteps
  <2> QED BY <2>2, <2>3
<1>17. /\ ClientShapes'
       /\ streamsClient'[c] = r
       /\ \A d \in Clients : d # c => streamsClient'[d] = streamsClient[d]
  <2>1. /\ r.at = 0 <=> r.step = "off"
        /\ r.from <= r.read /\ r.read <= Len(streamsOut)
    BY <1>4, <1>16 DEF StreamsInv, ClientShapes
  <2>2. Len(r.queue) <= Room
    BY StreamsAssumption, <1>16, AwayShape DEF Streams!Away
  <2>3. /\ Len(streamsHandles') \in Nat
        /\ Len(streamsHandles) <= Len(streamsHandles')
        /\ r.at <= Len(streamsHandles')
    BY <1>4, <1>5, <1>11, <1>16 DEF Handle
  <2> QED BY <1>1, <1>16, <1>14, <2>1, <2>2, <2>3, ClientSet
<1>18. /\ streamsReader' \in BOOLEAN
       /\ (streamsReader' => streamsReader \/ (h = 1 /\ streamsPump = "runs"))
  BY <1>3 DEF Streams!Open, StreamsInv, FlatShapes
<1>19. FlatShapes' /\ KeysInOrder'
  BY <1>1, <1>18, KeysKept DEF StreamsInv, FlatShapes, Streams!inputVars
<1>20. EndsWithEof'
  <2>1. /\ streamsHandles[1].consumer # "off" => streamsHandles'[1].consumer # "off"
        /\ h = 1 => streamsHandles'[1].consumer # "off"
    BY <1>8, <1>10, HandleTypes DEF StreamsInv
  <2>2. UNCHANGED EofLast(streamsOut) /\ UNCHANGED Elems(streamsOut)
    BY <1>1 DEF EofLast, Elems
  <2> QED BY <1>1, <1>18, <2>1, <2>2 DEF StreamsInv, EndsWithEof
<1>21. \A d \in Clients : streamsClient[d].at # 0 => streamsClient[d].at \in Handle
  BY ClientTypes
<1>22. EndsOnce'
  <2>1. \A g \in Handle' : KeptQueue(g)
    BY <1>8, <1>10, <1>11 DEF KeptQueue
  <2>2. \A d \in Clients : d # c => KeptEnds(d)
    <3> SUFFICES ASSUME NEW d \in Clients, d # c PROVE KeptEnds(d)
      OBVIOUS
    <3>1. streamsClient'[d] = streamsClient[d]
      BY <1>17
    <3>2. CASE streamsClient[d].at = h
      BY <1>8, <1>10, <3>1, <3>2 DEF KeptEnds
    <3>3. CASE streamsClient[d].at # h
      BY <1>10, <1>21, <3>1, <3>3 DEF KeptEnds
    <3> QED BY <3>2, <3>3
  <2>3. ClientEnds(c)'
    <3>1. /\ streamsClient'[c].queue = <<>>
          /\ streamsClient'[c].step \in {"waits", "left", "sending"}
          /\ streamsHandles'[streamsClient'[c].at].consumer # "off"
      BY <1>8, <1>10, <1>16, <1>17
    <3> QED BY <3>1, EmptySeq DEF ClientEnds, EofLast, Elems
  <2> QED BY <2>1, <2>2, <2>3, EndsKept
<1>23. GoodClient(c)
  <2>1. \E l, n : l = streamsHandles[h].loop /\ n = streamsHandles[h].cursor
    OBVIOUS
  <2>2. PICK l, n : l = streamsHandles[h].loop /\ n = streamsHandles[h].cursor
    BY <2>1
  <2>3. ASSUME "raced" \notin streamsSlips' PROVE ClientAscends(c)'
    <3>1. HandleAscends(h)
      BY <1>1, <1>4, <2>3 DEF StreamsInv, ScreensInOrder
    <3>2. /\ Ascends(b) /\ AllBefore(Elems(b), Elems(l))
          /\ AllBefore(Elems(b) \cup Elems(l), Ahead(n)) /\ Written(Elems(b) \cup Elems(l))
      BY <1>3, <2>2, <3>1 DEF HandleAscends
    <3>3. /\ AllBefore(Elems(b), Elems(<<>>)) /\ Written(Elems(b) \cup Elems(<<>>))
          /\ AllBefore(Elems(b) \cup Elems(<<>>), Elems(l))
          /\ AllBefore(Elems(b) \cup Elems(<<>>), Ahead(n))
      BY <3>2, EmptySeq DEF AllBefore, Written
    <3>4. /\ streamsClient'[c].sees = b
          /\ streamsClient'[c].queue = <<>>
          /\ streamsClient'[c].at = h
          /\ streamsHandles'[h].loop = l /\ streamsHandles'[h].cursor = n
      BY <1>10, <1>16, <1>17, <2>2
    <3> QED BY <1>1, <3>2, <3>3, <3>4, EmptySeq, ClientAscendsBy
  <2>4. ASSUME streamsSlips' \subseteq {"early"} PROVE ClientRuns(c)'
    <3>1. HandleRuns(h)
      BY <1>1, <1>4, <2>4 DEF StreamsInv, Gapless
    <3>2. Consecutive(b) /\ EndsAt(b, n - Len(l))
      BY <1>3, <2>2, <3>1 DEF HandleRuns, Fanned
    <3>3. EndsAt(<<>>, n - Len(l))
      BY DEF EndsAt
    <3>4. /\ streamsClient'[c].sees = b
          /\ streamsClient'[c].queue = <<>>
          /\ streamsClient'[c].at = h
          /\ streamsHandles'[h].cursor - Len(streamsHandles'[h].loop) = n - Len(l)
          /\ streamsClient'[c].step \in {"waits", "sends", "left"} =>
                 streamsClient'[c].subscribed
      BY <1>10, <1>16, <1>17, <2>2
    <3> QED BY <1>1, <3>2, <3>3, <3>4, EmptySeq, ClientRunsBy
  <2> QED BY <2>3, <2>4 DEF GoodClient
<1>24. OutAscends' /\ ScreensInOrder' /\ Gapless'
  <2>1. \A g \in Handle' : KeptHandle(g)
    BY <1>3, <1>10, <1>11 DEF KeptHandle
  <2>2. ASSUME NEW d \in Clients, d # c PROVE KeptClient(d)
    <3>1. streamsClient'[d] = streamsClient[d]
      BY <1>17, <2>2
    <3>2. CASE streamsClient[d].at = h
      BY <1>10, <3>1, <3>2 DEF KeptClient
    <3>3. CASE streamsClient[d].at # h
      BY <1>10, <1>21, <3>1, <3>3 DEF KeptClient
    <3> QED BY <3>2, <3>3
  <2>3. /\ streamsPump' # "over" => streamsPump # "over"
        /\ streamsGone' = streamsGone \/ ~(streamsSlips' \subseteq {"early"})
        /\ streamsSlips \subseteq streamsSlips'
    BY <1>1
  <2> QED BY <1>1, <1>23, <2>1, <2>2, <2>3, OrderKept
<1> QED BY <1>11, <1>17, <1>19, <1>20, <1>22, <1>24 DEF StreamsInv

\* What a closed terminal's clients have stays in order; that they miss the rest is named.
LEMMA CloseKeeps ==
  ASSUME StreamsInv, NEW w \in Viewers, Streams!Close(w) PROVE StreamsInv'
<1>1. /\ UNCHANGED <<streamsMade, streamsPump, streamsOut, streamsTyped, streamsSent,
                     streamsClient, streamsConnects, streamsFaults>>
      /\ streamsCache' = [streamsCache EXCEPT ![w] = 0]
      /\ streamsShell' = "over"
      /\ streamsRemoved' = TRUE
      /\ streamsGone' = Len(streamsOut) /\ streamsKeys' = <<>> /\ streamsInCursor' = 0
      /\ streamsSlips' = streamsSlips \cup {"removed"}
      /\ streamsReader' = (streamsReader /\ streamsCache[w] # 1)
  BY DEF Streams!Close, Streams!Slip
<1>2. /\ Len(streamsHandles) \in Nat /\ Len(streamsOut) \in Nat /\ streamsConnects \in Nat
      /\ streamsHandles \in Seq(StreamHandles)
      /\ streamsHandles \in [Handle -> StreamHandles]
      /\ 1 \in Handle
      /\ streamsCache[w] \in Nat /\ streamsCache[w] <= Len(streamsHandles)
  BY StreamLengths, HandleTypes DEF StreamsInv, HandleShapes
<1>3. /\ streamsHandles' \in [1..Len(streamsHandles) -> StreamHandles]
      /\ \A g \in Handle : /\ streamsHandles'[g].loop = streamsHandles[g].loop
                           /\ streamsHandles'[g].buffer = streamsHandles[g].buffer
                           /\ streamsHandles'[g].cursor = streamsHandles[g].cursor
                           /\ streamsHandles'[g].consumer = streamsHandles[g].consumer
  <2>1. CASE streamsCache[w] = 0
    <3>1. streamsHandles' = streamsHandles
      BY <2>1 DEF Streams!Close
    <3> QED BY <1>2, <3>1 DEF Handle
  <2>2. CASE streamsCache[w] # 0
    <3>1. streamsCache[w] \in Handle
      BY <1>2, <2>2 DEF Handle
    <3>2. \E h, m : /\ h = streamsCache[w]
                    /\ m = [streamsHandles[h] EXCEPT !.stopping = TRUE, !.alive = @ /\ h # 1]
      OBVIOUS
    <3>3. PICK h, m : /\ h = streamsCache[w]
                      /\ m = [streamsHandles[h] EXCEPT !.stopping = TRUE, !.alive = @ /\ h # 1]
      BY <3>2
    <3>4. h \in Handle /\ streamsHandles[h] \in StreamHandles
      BY <1>2, <3>1, <3>3
    <3>5. /\ m \in StreamHandles
          /\ m.loop = streamsHandles[h].loop
          /\ m.buffer = streamsHandles[h].buffer
          /\ m.cursor = streamsHandles[h].cursor /\ m.consumer = streamsHandles[h].consumer
      BY <3>3, <3>4 DEF StreamHandles
    <3>6. streamsHandles' = [streamsHandles EXCEPT ![h] = m]
      <4>1. streamsHandles' = [streamsHandles EXCEPT ![h].stopping = TRUE,
                ![h].alive = @ /\ h # 1]
        BY <2>2, <3>3 DEF Streams!Close
      <4> QED BY <1>2, <3>3, <3>4, <4>1 DEF StreamHandles
    <3>7. streamsHandles' \in [Handle -> StreamHandles]
      BY <1>2, <3>4, <3>5, <3>6
    <3>8. \A g \in Handle : streamsHandles'[g] = IF g = h THEN m ELSE streamsHandles[g]
      BY <1>2, <3>4, <3>6
    <3> QED BY <3>5, <3>7, <3>8 DEF Handle
  <2> QED BY <2>1, <2>2
<1>4. /\ streamsHandles' \in Seq(StreamHandles)
      /\ Len(streamsHandles') = Len(streamsHandles)
      /\ Handle' = Handle
  <2>1. streamsHandles' \in Seq(StreamHandles) /\ Len(streamsHandles') = Len(streamsHandles)
    BY <1>2, <1>3, FcnSeq
  <2> QED BY <2>1 DEF Handle
<1>5. HandleShapes'
  <2>1. /\ streamsCache' \in [Viewers -> Nat]
        /\ \A v \in Viewers : streamsCache'[v] <= Len(streamsHandles)
    BY <1>1, <1>2 DEF StreamsInv, HandleShapes
  <2>2. \A g \in Handle : streamsHandles'[g].cursor <= Len(streamsOut)
    BY <1>3 DEF StreamsInv, HandleShapes
  <2> QED BY <1>1, <1>2, <1>4, <2>1, <2>2 DEF StreamsInv, HandleShapes
<1>6. ClientShapes'
  BY <1>1, <1>2, <1>4, ClientShapesKept DEF StreamsInv
<1>7. FlatShapes'
  <2>1. <<>> \in Seq(1..MaxKeys) /\ Len(<<>>) = 0
    BY SMT
  <2>2. /\ streamsGone' \in 0..Len(streamsOut')
        /\ streamsKeys' \in Seq(1..MaxKeys)
        /\ streamsInCursor' \in 0..Len(streamsKeys')
    BY <1>1, <1>2, <2>1
  <2>3. streamsReader' \in BOOLEAN /\ streamsSlips' \subseteq StreamSlips
    BY <1>1 DEF StreamsInv, FlatShapes, StreamSlips
  <2> QED BY <1>1, <2>2, <2>3 DEF StreamsInv, FlatShapes
<1>8. KeysInOrder'
  <2>1. Len(streamsKeys') = 0
    BY <1>1
  <2> QED BY <1>1, <2>1 DEF StreamsInv, KeysInOrder
<1>9. EndsWithEof'
  <2>1. streamsHandles'[1].consumer = streamsHandles[1].consumer
    BY <1>2, <1>3
  <2> QED BY <1>1, <2>1 DEF StreamsInv, EndsWithEof, EofLast, Elems
<1>10. \A d \in Clients : streamsClient[d].at # 0 => streamsClient[d].at \in Handle
  BY ClientTypes
<1>11. EndsOnce'
  <2>1. \A g \in Handle' : KeptQueue(g)
    BY <1>3, <1>4 DEF KeptQueue
  <2>2. \A d \in Clients : KeptEnds(d)
    BY <1>1, <1>3, <1>10 DEF KeptEnds
  <2> QED BY <2>1, <2>2, EndsKept
<1>12. OutAscends' /\ ScreensInOrder' /\ Gapless'
  <2>1. \A g \in Handle' : KeptHandle(g)
    BY <1>3, <1>4 DEF KeptHandle
  <2>2. \A d \in Clients : KeptClient(d)
    BY <1>1, <1>3, <1>10 DEF KeptClient
  <2>3. /\ UNCHANGED <<streamsOut, streamsMade>>
        /\ (streamsPump' # "over" => streamsPump # "over")
        /\ streamsSlips \subseteq streamsSlips' /\ ~(streamsSlips' \subseteq {"early"})
    BY <1>1
  <2> QED BY <2>1, <2>2, <2>3, OrderKept
<1> QED BY <1>5, <1>6, <1>7, <1>8, <1>9, <1>11, <1>12 DEF StreamsInv

LEMMA StreamsStutter == ASSUME StreamsInv, UNCHANGED Streams!streamVars PROVE StreamsInv'
<1>1. UNCHANGED <<streamsShell, streamsMade, streamsReader, streamsPump, streamsOut, streamsGone,
                  streamsKeys, streamsInCursor, streamsTyped, streamsSent, streamsHandles,
                  streamsCache, streamsClient, streamsRemoved, streamsSlips, streamsConnects,
                      streamsFaults>>
  BY DEF Streams!streamVars
<1>2. FlatShapes' /\ HandleShapes' /\ ClientShapes' /\ KeysInOrder'
  BY <1>1, KeysKept DEF StreamsInv, FlatShapes, HandleShapes, ClientShapes, Handle
<1>3. EndsWithEof'
  BY <1>1 DEF StreamsInv, EndsWithEof, EofLast, Elems
<1>4. (\A h \in Handle' : KeptQueue(h) /\ KeptHandle(h)) /\ \A c \in Clients :
          KeptEnds(c) /\ KeptClient(c)
  BY <1>1 DEF KeptQueue, KeptHandle, KeptEnds, KeptClient, Handle
<1>5. EndsOnce'
  BY <1>4, EndsKept
<1>6. OutAscends' /\ ScreensInOrder' /\ Gapless'
  <2>1. /\ UNCHANGED <<streamsOut, streamsMade>>
        /\ (streamsPump' # "over" => streamsPump # "over")
        /\ streamsSlips \subseteq streamsSlips' /\ streamsGone' = streamsGone
    BY <1>1
  <2> QED BY <1>4, <2>1, OrderKept
<1> QED BY <1>2, <1>3, <1>5, <1>6 DEF StreamsInv

\* Every step of the program keeps the invariant, one case per action.
LEMMA StepStreams ==
  ASSUME StreamsInv, [Streams!Next]_(Streams!streamVars) PROVE StreamsInv'
<1>1. CASE UNCHANGED Streams!streamVars
  BY <1>1, StreamsStutter
<1>2. CASE \/ Streams!StartOwnerIo \/ Streams!CreateReturns \/ Streams!Outputs
           \/ Streams!ShellExits \/ Streams!PtyEnds \/ Streams!InputTypes
  BY <1>2, StartOwnerIoKeeps, CreateReturnsKeeps, OutputsKeeps, ShellExitsKeeps, PtyEndsKeeps,
     InputTypesKeeps
<1>3. ASSUME NEW h \in DOMAIN streamsHandles,
             Streams!Consume(h) \/ Streams!FanOut(h) PROVE StreamsInv'
  <2>1. h \in Handle
    BY <1>3, HandleTypes DEF StreamsInv
  <2> QED BY <1>3, <2>1, ConsumeKeeps, FanOutKeeps
<1>4. ASSUME NEW c \in Clients, NEW w \in Viewers,
             Streams!GetCached(c, w) \/ Streams!GetAdopts(c, w) \/ Streams!GetRefused(c, w)
      PROVE  StreamsInv'
  BY <1>4, GetCachedKeeps, GetAdoptsKeeps, GetRefusedKeeps
<1>5. ASSUME NEW c \in Clients,
             \/ Streams!Prime(c) \/ Streams!Answered(c) \/ Streams!Open(c)
             \/ Streams!Subscribe(c) \/ Streams!ClientTakes(c) \/ Streams!ClientSent(c)
             \/ Streams!Disconnect(c) \/ Streams!Type(c)
      PROVE  StreamsInv'
  BY <1>5, PrimeKeeps, LeavesKeeps, OpenKeeps, FollowsKeeps, ClientTakesKeeps, TypeKeeps
<1>6. ASSUME NEW w \in Viewers, Streams!Close(w) PROVE StreamsInv'
  BY <1>6, CloseKeeps
<1> QED BY <1>1, <1>2, <1>3, <1>4, <1>5, <1>6 DEF Streams!Next

\* In order is ascending, as no screen has the sentinel; without a loss, by one.
LEMMA StreamsAreFaithful == ASSUME StreamsInv PROVE Streams!ScreenIsFaithful
<1> SUFFICES ASSUME NEW c \in Clients, NEW i \in 1..(Len(streamsClient[c].sees) - 1)
             PROVE  /\ "raced" \notin streamsSlips =>
                           streamsClient[c].sees[i] < streamsClient[c].sees[i + 1]
                    /\ streamsSlips \subseteq {"early"} =>
                           streamsClient[c].sees[i + 1] = streamsClient[c].sees[i] + 1
  BY DEF Streams!ScreenIsFaithful
<1>1. \E s : s = streamsClient[c].sees
  OBVIOUS
<1>2. PICK s : s = streamsClient[c].sees
  BY <1>1
<1>3. s \in Seq(Streams!Chunks)
  BY <1>2 DEF StreamsInv, ClientShapes, ClientRecords
<1>4. s \in [1..Len(s) -> Streams!Chunks] /\ Len(s) \in Nat
  BY <1>3, SeqFcn
<1>5. i \in 1..Len(s) /\ i + 1 \in 1..Len(s) /\ i < i + 1
  BY <1>2, <1>4
<1>6. s[i] \in Nat /\ s[i + 1] \in Nat /\ s[i] # Streams!Eof /\ s[i + 1] # Streams!Eof
  BY <1>4, <1>5 DEF Streams!Chunks, Streams!Eof
<1>7. ASSUME "raced" \notin streamsSlips PROVE s[i] < s[i + 1]
  <2>1. Ascends(s)
    BY <1>2, <1>7 DEF StreamsInv, ScreensInOrder, ClientAscends
  <2>2. Before(s[i], s[i + 1])
    BY <1>5, <2>1 DEF Ascends
  <2> QED BY <1>6, <2>2 DEF Before
<1>8. ASSUME streamsSlips \subseteq {"early"} PROVE s[i + 1] = s[i] + 1
  <2>1. Consecutive(s)
    BY <1>2, <1>8 DEF StreamsInv, Gapless, ClientRuns
  <2> QED BY <1>2, <1>6, <2>1 DEF Consecutive
<1> QED BY <1>2, <1>7, <1>8

LEMMA TypedOnce == ASSUME StreamsInv PROVE Streams!KeysOnce
<1>1. Len(streamsTyped) \in Nat
  BY StreamLengths
<1> SUFFICES ASSUME NEW i \in 1..(Len(streamsTyped) - 1)
                 PROVE streamsTyped[i] < streamsTyped[i + 1]
  BY DEF Streams!KeysOnce
<1>2. i \in 1..Len(streamsTyped) /\ i + 1 \in 1..Len(streamsTyped) /\ i < i + 1
  BY <1>1
<1> QED BY <1>2 DEF StreamsInv, KeysInOrder

-----------------------------------------------------------------------------
(* A terminal, whichever of the two a behaviour is about                     *)

LEMMA StreamsTyped == ASSUME StreamsInv PROVE Streams!TypeOK
<1>1. FlatShapes /\ HandleShapes /\ ClientShapes
  BY DEF StreamsInv
<1>2. Len(streamsOut) \in Nat /\ Len(streamsHandles) \in Nat /\ streamsConnects \in Nat
  BY <1>1, StreamsAssumption DEF FlatShapes, HandleShapes
<1>3. Len(streamsHandles) \in 1..Streams!MaxHandles
  <2>1. 1 <= Len(streamsHandles) /\ Len(streamsHandles) <= 1 + streamsConnects
    BY <1>1, <1>2 DEF HandleShapes, Handle
  <2>2. streamsConnects <= MaxConnects
    BY <1>1, StreamsAssumption DEF FlatShapes
  <2> QED BY <1>2, <2>1, <2>2, StreamsAssumption DEF Streams!MaxHandles
<1>4. \A h \in DOMAIN streamsHandles :
        streamsHandles[h] \in [worker : Viewers, alive : BOOLEAN, stopping : BOOLEAN,
                               consumer : {"off", "runs", "over"}, cursor : 0..Len(streamsOut),
                               loop : Seq(0..MaxOut), buffer : Seq(Streams!Chunks)]
  <2> SUFFICES ASSUME NEW h \in DOMAIN streamsHandles
               PROVE  streamsHandles[h] \in
                        [worker : Viewers, alive : BOOLEAN, stopping : BOOLEAN,
                         consumer : {"off", "runs", "over"}, cursor : 0..Len(streamsOut),
                         loop : Seq(0..MaxOut), buffer : Seq(Streams!Chunks)]
    OBVIOUS
  <2>1. streamsHandles \in [1..Len(streamsHandles) -> StreamHandles]
        /\ DOMAIN streamsHandles = 1..Len(streamsHandles)
    BY <1>1, SeqFcn DEF HandleShapes
  <2>2. streamsHandles[h] \in StreamHandles /\ streamsHandles[h].cursor <= Len(streamsOut)
    BY <1>1, <2>1 DEF HandleShapes, Handle
  <2>3. streamsHandles[h].cursor \in 0..Len(streamsOut)
    BY <1>2, <2>2 DEF StreamHandles
  <2> QED BY <2>2, <2>3 DEF StreamHandles
<1>5. streamsCache \in [Viewers -> 0..Len(streamsHandles)]
  BY <1>1, <1>2 DEF HandleShapes
<1>6. \A c \in Clients :
        /\ streamsClient[c].at \in 0..Len(streamsHandles)
        /\ streamsClient[c].step \in ClientSteps
        /\ streamsClient[c].sees \in Seq(Streams!Chunks)
        /\ Len(streamsClient[c].queue) <= Room
  <2> TAKE c \in Clients
  <2>1. streamsClient[c] \in ClientRecords /\ streamsClient[c].at <= Len(streamsHandles)
        /\ Len(streamsClient[c].queue) <= Room
    BY <1>1 DEF ClientShapes
  <2>2. streamsClient[c].at \in 0..Len(streamsHandles)
    BY <1>2, <2>1 DEF ClientRecords
  <2> QED BY <2>1, <2>2 DEF ClientRecords
<1> QED BY <1>1, <1>3, <1>4, <1>5, <1>6 DEF FlatShapes, StreamSlips, ClientSteps, Streams!TypeOK

\* Only the moves of one of the two change its variables.
LEMMA Apart ==
  [TerminalsNext]_terminalsVars => [Next]_vars /\ [Streams!Next]_(Streams!streamVars)
<1>1. UNCHANGED streamsVars => UNCHANGED Streams!streamVars
  BY DEF streamsVars, Streams!streamVars
<1>2. SessionsMoves => Next /\ UNCHANGED streamsVars
  BY DEF SessionsMoves
<1>3. StreamsMoves => Streams!Next /\ UNCHANGED vars
  BY DEF StreamsMoves
<1>4. UNCHANGED terminalsVars => UNCHANGED vars /\ UNCHANGED streamsVars
  BY DEF terminalsVars
<1> QED BY <1>1, <1>2, <1>3, <1>4 DEF TerminalsNext

\* The invariants of the sessions and of the streams hold of every state, whichever of
\* the two a behaviour is about.
THEOREM TerminalsCorrect == TerminalsSpec => [](TerminalInv /\ StreamsInv)
<1>1. TerminalsInit => TerminalInv /\ StreamsInv
  BY InitTerminal, InitStreams DEF TerminalsInit
<1>2. TerminalInv /\ StreamsInv /\ [TerminalsNext]_terminalsVars => (TerminalInv /\ StreamsInv)'
  BY Apart, StepTerminal, StepStreams
<1> QED BY <1>1, <1>2, PTL DEF TerminalsSpec

\* The types of a terminal: its keys, shells, handles and whatever a worker does with
\* them, and its streams, queues and screens.
THEOREM TerminalsTypeCorrect == TerminalsSpec => []TypesOK
<1>1. TerminalInv /\ StreamsInv => TypesOK
  BY SessionsTyped, StreamsTyped DEF TypesOK
<1> QED BY <1>1, TerminalsCorrect, PTL

\* No two shells for one terminal (create, _claim_creation, _end_session).
THEOREM OneShellHolds == TerminalsSpec => []OneShell
BY OnlyShell, TerminalsCorrect, PTL

\* A session that runs can be found by every worker, under its own key and hash
\* (_set_owner, _refresh_owner, _clear_owner, _prune_session_meta).
THEOREM PublishedHolds == TerminalsSpec => []Published
BY FoundByAll, TerminalsCorrect, PTL

\* Nothing drops what a running session has shown (_delete_streams,
\* _prune_session_meta).
THEOREM ScrollbackHolds == TerminalsSpec => []ScrollbackKept
BY NothingDropped, TerminalsCorrect, PTL

\* ScreenIsFaithful: what a terminal's client has on its screen is a piece of what the
\* shell wrote, in order and once, on whichever worker it is connected, unless its replay
\* was primed under a running consumer; without a gap, unless one of the losses that
\* TerminalStreams names happened; and a keystroke is typed once, in the order of the
\* input stream.  For any workers, clients, sizes of streams and queues and lengths of
\* what is written and typed (_out_consumer_loop, _fan_out, prime_scrollback, pty_to_ws,
\* _in_consumer_loop).
THEOREM ScreenIsFaithfulHolds == TerminalsSpec => []ScreenIsFaithful
<1>1. StreamsInv => ScreenIsFaithful
  BY StreamsAreFaithful, TypedOnce DEF ScreenIsFaithful
<1> QED BY <1>1, TerminalsCorrect, PTL
=============================================================================

-------------------------- MODULE MCRepairsProofs ---------------------------
(***************************************************************************)
(* Proofs about MCRepairs, for any workers, slots for operations, failures *)
(* and bounds.  The watchdog's invariant has two halves that share no      *)
(* variable: who leads and whose loops spin (LeaseSide), who runs a script *)
(* and holds the installers' flock (ScriptSide); Rest types what is left.  *)
(* The containers' invariant types an operation together with what it is   *)
(* in the middle of.                                                       *)
(***************************************************************************)
EXTENDS MCRepairs, TLAPS

-----------------------------------------------------------------------------
(* The inductive invariant *)

LeaseShapes ==
  /\ watchUp \in [Workers -> {"down", "serving", "stopping"}]
  /\ watchFlock \in Workers \union {None}
  /\ watchLease \in [Workers -> {"unset", "leader", "standby"}]
  /\ watchLeading \in [Workers -> BOOLEAN]
  /\ watchTasks \in [Workers -> SUBSET Watch!Tasks]
  /\ watchLoops \in [Workers -> SUBSET Watch!Tasks]

\* The lease's state is the flock's.
LeaseAgrees == \A w \in Workers : watchLease[w] = "leader" <=> watchFlock = w

\* A worker serves only after a contest, and a standby that serves was paused
\* and spins nothing, whatever it registers.
ServesAfterContest ==
  \A w \in Workers :
    /\ watchUp[w] = "down" => watchLease[w] = "unset"
    /\ watchUp[w] = "serving" =>
         \/ watchLease[w] = "leader"
         \/ watchLease[w] = "standby" /\ ~watchLeading[w] /\ watchLoops[w] = {}

LeaseSide == LeaseShapes /\ LeaseAgrees /\ ServesAfterContest

ScriptShapes ==
  /\ watchFails \in [Workers -> 0..MaxFails]
  /\ watchHeal \in [Workers -> {"idle", "waits", "runs"}]
  /\ watchJob \in [Workers -> Watch!Jobs]
  /\ watchLock \in (Workers \X {"heal", "job"}) \union {None}

Scripted == {"install runs", "revert runs"}

\* Whoever runs a script holds the installers' flock for it.
LockAgrees ==
  \A w \in Workers :
    /\ watchHeal[w] = "runs" <=> watchLock = <<w, "heal">>
    /\ watchJob[w] \in Scripted <=> watchLock = <<w, "job">>

\* A heal under way was started below the breaker's limit.
BelowTheBreaker == \A w \in Workers : watchHeal[w] # "idle" => watchFails[w] < MaxFails

ScriptSide == ScriptShapes /\ LockAgrees /\ BelowTheBreaker

Rest ==
  /\ watchTracked \in [Workers -> BOOLEAN]
  /\ watchOwed \in [Workers -> BOOLEAN]
  /\ watchApp \in BOOLEAN
  /\ watchCli \in {"gone", "broken", "good"}
  /\ watchFaults \in 0..MaxFaults
  /\ watchOps \in 0..MaxOps

WatchdogInv == LeaseSide /\ ScriptSide /\ Rest

LEMMA InitWatchdog == ASSUME WatchdogAssumption, Watch!Init PROVE WatchdogInv
<1> USE DEF WatchdogAssumption, Watch!Init
<1>1. LeaseSide
  BY DEF LeaseSide, LeaseShapes, LeaseAgrees, ServesAfterContest
<1>2. ScriptSide
  <2>1. \A w \in Workers : None # <<w, "heal">> /\ None # <<w, "job">>
    OBVIOUS
  <2>2. ScriptShapes /\ BelowTheBreaker
    BY DEF ScriptShapes, BelowTheBreaker, Watch!Jobs
  <2>3. LockAgrees
    BY <2>1 DEF LockAgrees, Scripted
  <2> QED BY <2>2, <2>3 DEF ScriptSide
<1>3. Rest
  BY DEF Rest
<1> QED BY <1>1, <1>2, <1>3 DEF WatchdogInv

-----------------------------------------------------------------------------
(* Who leads and whose loops spin *)

LEMMA WinsKeeps ==
  ASSUME WatchdogAssumption, LeaseSide, NEW w \in Workers, Watch!Wins(w),
         watchUp' = [watchUp EXCEPT ![w] = "serving"], watchTasks' = watchTasks
  PROVE  LeaseSide'
<1> USE DEF LeaseSide, Watch!Wins, Watch!Resume, WatchdogAssumption
<1>1. LeaseShapes'
  BY DEF LeaseShapes
<1>2. LeaseAgrees' /\ ServesAfterContest'
  BY DEF LeaseAgrees, ServesAfterContest, LeaseShapes
<1> QED BY <1>1, <1>2

LEMMA LosesKeeps ==
  ASSUME WatchdogAssumption, LeaseSide, NEW w \in Workers, Watch!Loses(w),
         watchUp[w] = "down", watchUp' = [watchUp EXCEPT ![w] = "serving"],
         watchTasks' = watchTasks
  PROVE  LeaseSide'
<1> USE DEF LeaseSide, Watch!Loses, Watch!Pause, WatchdogAssumption
<1>1. watchLease[w] = "unset" /\ watchFlock # w
  BY DEF LeaseAgrees, ServesAfterContest
<1>2. LeaseShapes'
  BY <1>1 DEF LeaseShapes
<1>3. LeaseAgrees' /\ ServesAfterContest'
  BY <1>1 DEF LeaseAgrees, ServesAfterContest, LeaseShapes
<1> QED BY <1>2, <1>3

LEMMA StopKeeps ==
  ASSUME WatchdogAssumption, LeaseSide, NEW w \in Workers, Watch!Stop(w)
  PROVE  LeaseSide'
<1> USE DEF LeaseSide, Watch!Stop, WatchdogAssumption
<1>1. LeaseShapes'
  BY DEF LeaseShapes
<1>2. LeaseAgrees' /\ ServesAfterContest'
  BY DEF LeaseAgrees, ServesAfterContest, LeaseShapes
<1> QED BY <1>1, <1>2

LEMMA GoneKeepsLease ==
  ASSUME WatchdogAssumption, LeaseSide, NEW w \in Workers, Watch!Gone(w)
  PROVE  LeaseSide'
<1> USE DEF LeaseSide, Watch!Gone, WatchdogAssumption
<1>1. LeaseShapes'
  BY DEF LeaseShapes
<1>2. LeaseAgrees' /\ ServesAfterContest'
  BY DEF LeaseAgrees, ServesAfterContest, LeaseShapes
<1> QED BY <1>1, <1>2

\* A registration, or its end: what spins is registered, and only if it leads.
LEMMA RegistersKeeps ==
  ASSUME LeaseSide, NEW w \in Workers, NEW ts \in SUBSET Watch!Tasks,
         NEW ls \in SUBSET Watch!Tasks, ls # {} => watchLeading[w] \/ watchLoops[w] # {},
         watchTasks' = [watchTasks EXCEPT ![w] = ts],
         watchLoops' = [watchLoops EXCEPT ![w] = ls],
         UNCHANGED <<watchUp, watchFlock, watchLease, watchLeading>>
  PROVE  LeaseSide'
<1> USE DEF LeaseSide
<1>1. LeaseShapes'
  BY DEF LeaseShapes
<1>2. LeaseAgrees' /\ ServesAfterContest'
  BY DEF LeaseAgrees, ServesAfterContest, LeaseShapes
<1> QED BY <1>1, <1>2

LEMMA LeaseStep ==
  ASSUME WatchdogAssumption, WatchdogInv, Watch!Next
  PROVE  LeaseSide'
<1> USE DEF WatchdogInv
<1>1. ASSUME NEW w \in Workers, Watch!Start(w) PROVE LeaseSide'
  BY <1>1, WinsKeeps, LosesKeeps DEF Watch!Start, Watch!Contend
<1>2. ASSUME NEW w \in Workers, Watch!Poll(w) PROVE LeaseSide'
  <2>1. watchUp' = [watchUp EXCEPT ![w] = "serving"] /\ watchTasks' = watchTasks
    BY <1>2 DEF Watch!Poll, LeaseSide, LeaseShapes
  <2> QED BY <1>2, <2>1, WinsKeeps DEF Watch!Poll
<1>3. ASSUME NEW w \in Workers, Watch!Stop(w) \/ Watch!Exits(w) \/ Watch!Dies(w)
             PROVE LeaseSide'
  BY <1>3, StopKeeps, GoneKeepsLease DEF Watch!Exits, Watch!Dies
<1>4. ASSUME NEW w \in Workers, NEW ts \in SUBSET Watch!Tasks, Watch!Register(w, ts),
             UNCHANGED <<watchUp, watchFlock, watchLease, watchLeading>>
      PROVE  LeaseSide'
  <2> DEFINE ls == IF watchLeading[w] THEN ts ELSE {}
  <2>1. ls \in SUBSET Watch!Tasks /\ (ls # {} => watchLeading[w])
    OBVIOUS
  <2>2. watchTasks' = [watchTasks EXCEPT ![w] = ts]
        /\ watchLoops' = [watchLoops EXCEPT ![w] = ls]
    BY <1>4 DEF Watch!Register
  <2> HIDE DEF ls
  <2> QED BY <1>4, <2>1, <2>2, RegistersKeeps
<1>5. ASSUME NEW w \in Workers, Watch!Follow(w) \/ Watch!Installed(w) PROVE LeaseSide'
  <2>1. Watch!Attached(watchApp) \in SUBSET Watch!Tasks
        /\ Watch!Tasks \in SUBSET Watch!Tasks
    BY DEF Watch!Attached
  <2> QED BY <1>4, <1>5, <2>1 DEF Watch!Follow, Watch!Installed
<1>6. ASSUME NEW w \in Workers, Watch!Uninstall(w) PROVE LeaseSide'
  <2> DEFINE ts == watchTasks[w] \ {"poller"}
             ls == watchLoops[w] \ {"poller"}
  <2>1. ts \in SUBSET Watch!Tasks /\ ls \in SUBSET Watch!Tasks /\ (ls # {}
        => watchLoops[w] # {})
    BY DEF LeaseSide, LeaseShapes
  <2>2. /\ watchTasks' = [watchTasks EXCEPT ![w] = ts]
           /\ watchLoops' = [watchLoops EXCEPT ![w] = ls]
        /\ UNCHANGED <<watchUp, watchFlock, watchLease, watchLeading>>
    BY <1>6 DEF Watch!Uninstall
  <2> HIDE DEF ts, ls
  <2> QED BY <2>1, <2>2, RegistersKeeps
<1>7. ASSUME UNCHANGED <<watchUp, watchFlock, watchLease, watchLeading, watchTasks,
             watchLoops>> PROVE LeaseSide'
  BY <1>7 DEF LeaseSide, LeaseShapes, LeaseAgrees, ServesAfterContest
<1>8. ASSUME NEW w \in Workers,
             \/ Watch!PollFails(w) \/ Watch!HealStarts(w) \/ Watch!HealTakesLock(w)
             \/ Watch!HealWaitsTooLong(w) \/ Watch!HealEnds(w) \/ Watch!Install(w)
                \/ Watch!JobTakesLock(w)
             \/ Watch!JobWaitsTooLong(w) \/ Watch!ScriptFails(w) \/ Watch!Reverted(w)
                \/ Watch!Forget(w)
      PROVE  LeaseSide'
  BY <1>7, <1>8 DEF Watch!PollFails, Watch!HealStarts, Watch!HealTakesLock,
     Watch!HealWaitsTooLong, Watch!HealEnds,
     Watch!Install, Watch!JobTakesLock, Watch!JobWaitsTooLong, Watch!ScriptFails,
     Watch!Reverted, Watch!Forget
<1>9. ASSUME Watch!Breaks \/ Watch!Quiet PROVE LeaseSide'
  BY <1>7, <1>9 DEF Watch!Breaks, Watch!Quiet, Watch!leaseVars
<1> QED BY <1>1, <1>2, <1>3, <1>5, <1>6, <1>8, <1>9 DEF Watch!Next

-----------------------------------------------------------------------------
(* Who runs a script and holds the installers' flock *)

\* Who holds the flock, and for what, is all that its pairs are told apart by.
LEMMA Holders ==
  ASSUME WatchdogAssumption, NEW v \in Workers, NEW w \in Workers
  PROVE  /\ None # <<w, "heal">> /\ None # <<w, "job">>
         /\ <<v, "heal">> # <<w, "job">>
         /\ v # w => <<v, "heal">> # <<w, "heal">> /\ <<v, "job">> # <<w, "job">>
BY DEF WatchdogAssumption

LEMMA Exclusion ==
  ASSUME WatchdogAssumption, LockAgrees
  PROVE  /\ watchLock = None =>
               \A v \in Workers : watchHeal[v] # "runs" /\ watchJob[v] \notin Scripted
         /\ \A w \in Workers : watchHeal[w] = "runs" =>
               \A v \in Workers : /\ v # w => watchHeal[v] # "runs"
                                 /\ watchJob[v] \notin Scripted
         /\ \A w \in Workers : watchJob[w] \in Scripted =>
               \A v \in Workers : /\ v # w => watchJob[v] \notin Scripted
                                 /\ watchHeal[v] # "runs"
BY Holders DEF LockAgrees

\* The breaker's count stays in its range.
LEMMA Counts ==
  ASSUME WatchdogAssumption, ScriptSide, NEW w \in Workers
  PROVE  /\ 0 \in 0..MaxFails
         /\ watchFails[w] \in 0..MaxFails
         /\ watchHeal[w] # "idle" => watchFails[w] + 1 \in 0..MaxFails /\ 0 < MaxFails
<1>1. watchFails[w] \in 0..MaxFails /\ MaxFails \in Nat
  BY DEF ScriptSide, ScriptShapes, WatchdogAssumption
<1>2. watchHeal[w] # "idle" => watchFails[w] < MaxFails
  BY DEF ScriptSide, BelowTheBreaker
<1> QED BY <1>1, <1>2

LEMMA GoneKeepsScripts ==
  ASSUME WatchdogAssumption, ScriptSide, NEW w \in Workers, Watch!Gone(w)
  PROVE  ScriptSide'
<1> USE DEF ScriptSide, Watch!Gone
<1>1. ScriptShapes'
  BY Counts DEF ScriptShapes, Watch!Jobs
<1>2. LockAgrees'
  BY Holders, Exclusion DEF LockAgrees, ScriptShapes, Scripted
<1>3. BelowTheBreaker'
  BY DEF BelowTheBreaker, ScriptShapes
<1> QED BY <1>1, <1>2, <1>3

\* The healer's thread goes on with the flock as it is, and with its count.
LEMMA HealTakesLockKeeps ==
  ASSUME WatchdogAssumption, ScriptSide, NEW w \in Workers, Watch!HealTakesLock(w)
  PROVE  ScriptSide'
<1> USE DEF ScriptSide, Watch!HealTakesLock
<1>1. ScriptShapes'
  BY DEF ScriptShapes
<1>2. LockAgrees'
  BY Holders, Exclusion DEF LockAgrees, ScriptShapes
<1>3. BelowTheBreaker'
  BY DEF BelowTheBreaker, ScriptShapes
<1> QED BY <1>1, <1>2, <1>3

LEMMA HealStartsKeeps ==
  ASSUME WatchdogAssumption, ScriptSide, NEW w \in Workers, Watch!HealStarts(w)
  PROVE  ScriptSide'
<1> USE DEF ScriptSide, Watch!HealStarts
<1>1. ScriptShapes'
  BY DEF ScriptShapes
<1>2. LockAgrees' /\ BelowTheBreaker'
  BY DEF LockAgrees, BelowTheBreaker, ScriptShapes
<1> QED BY <1>1, <1>2

\* A heal ends: with a count one higher, or none.
LEMMA HealDoneKeeps ==
  ASSUME WatchdogAssumption, ScriptSide, NEW w \in Workers,
         Watch!HealWaitsTooLong(w) \/ Watch!HealEnds(w)
  PROVE  ScriptSide'
<1> USE DEF ScriptSide
<1>1. /\ watchHeal[w] # "idle"
      /\ watchHeal' = [watchHeal EXCEPT ![w] = "idle"]
      /\ watchJob' = watchJob
      /\ watchLock' = IF watchHeal[w] = "runs" THEN None ELSE watchLock
      /\ Watch!Record(w, TRUE) \/ Watch!Record(w, FALSE)
  BY DEF Watch!HealWaitsTooLong, Watch!HealEnds
<1>2. watchFails' \in [Workers -> 0..MaxFails]
  BY <1>1, Counts DEF Watch!Record, ScriptShapes
<1>3. ScriptShapes'
  BY <1>1, <1>2 DEF ScriptShapes
<1>4. LockAgrees'
  BY <1>1, Holders, Exclusion DEF LockAgrees, ScriptShapes
<1>5. BelowTheBreaker'
  BY <1>1 DEF BelowTheBreaker, Watch!Record, ScriptShapes
<1> QED BY <1>3, <1>4, <1>5

\* A route's work takes one more step and leaves the healer's threads alone.
LEMMA JobKeeps ==
  ASSUME WatchdogAssumption, ScriptSide, NEW w \in Workers,
         \/ Watch!Install(w) \/ Watch!Uninstall(w) \/ Watch!JobTakesLock(w)
         \/ Watch!JobWaitsTooLong(w) \/ Watch!ScriptFails(w) \/ Watch!Reverted(w)
         \/ Watch!Forget(w)
  PROVE  ScriptSide'
<1> USE DEF ScriptSide
<1>1. /\ watchHeal' = watchHeal /\ watchFails' = watchFails
      /\ watchJob' \in [Workers -> Watch!Jobs]
      /\ \A v \in Workers : v # w => watchJob'[v] = watchJob[v]
      /\ \/ /\ watchJob[w] \notin Scripted /\ watchJob'[w] \notin Scripted
            /\ watchLock' = watchLock
         \/ watchJob[w] \in Scripted /\ watchJob'[w] \notin Scripted /\ watchLock' = None
         \/ /\ watchJob[w] \notin Scripted /\ watchJob'[w] \in Scripted
            /\ watchLock = None /\ watchLock' = <<w, "job">>
  BY DEF Watch!Install, Watch!Uninstall, Watch!JobTakesLock, Watch!JobWaitsTooLong,
     Watch!ScriptFails, Watch!Reverted, Watch!Forget,
     Watch!NobodyAtWork, ScriptShapes, Watch!Jobs, Scripted
<1>2. ScriptShapes'
  BY <1>1 DEF ScriptShapes
<1>3. LockAgrees'
  BY <1>1, Holders, Exclusion DEF LockAgrees
<1>4. BelowTheBreaker'
  BY <1>1 DEF BelowTheBreaker
<1> QED BY <1>2, <1>3, <1>4

LEMMA InstalledKeeps ==
  ASSUME WatchdogAssumption, ScriptSide, NEW w \in Workers, Watch!Installed(w)
  PROVE  ScriptSide'
<1> USE DEF ScriptSide, Watch!Installed
<1>1. ScriptShapes'
  BY Counts DEF ScriptShapes, Watch!Jobs
<1>2. LockAgrees'
  BY Holders, Exclusion DEF LockAgrees, ScriptShapes, Scripted
<1>3. BelowTheBreaker'
  BY Counts DEF BelowTheBreaker, ScriptShapes
<1> QED BY <1>1, <1>2, <1>3

LEMMA FollowKeeps ==
  ASSUME WatchdogAssumption, ScriptSide, NEW w \in Workers, Watch!Follow(w)
  PROVE  ScriptSide'
<1> USE DEF ScriptSide
<1>1. /\ UNCHANGED <<watchHeal, watchJob, watchLock>>
      /\ watchFails' \in {watchFails, [watchFails EXCEPT ![w] = 0]}
  BY DEF Watch!Follow, ScriptShapes
<1>2. ScriptShapes'
  BY <1>1, Counts DEF ScriptShapes
<1>3. LockAgrees'
  BY <1>1 DEF LockAgrees
<1>4. BelowTheBreaker'
  BY <1>1, Counts DEF BelowTheBreaker, ScriptShapes
<1> QED BY <1>2, <1>3, <1>4

LEMMA ScriptStep ==
  ASSUME WatchdogAssumption, WatchdogInv, Watch!Next
  PROVE  ScriptSide'
<1> USE DEF WatchdogInv
<1>1. ASSUME UNCHANGED <<watchFails, watchHeal, watchJob, watchLock>> PROVE ScriptSide'
  BY <1>1 DEF ScriptSide, ScriptShapes, LockAgrees, BelowTheBreaker
<1>2. ASSUME NEW w \in Workers, Watch!Start(w) \/ Watch!Poll(w) \/ Watch!PollFails(w)
             \/ Watch!Stop(w)
      PROVE  ScriptSide'
  BY <1>1, <1>2 DEF Watch!Start, Watch!Poll, Watch!PollFails, Watch!Stop
<1>3. ASSUME NEW w \in Workers, Watch!Exits(w) \/ Watch!Dies(w) PROVE ScriptSide'
  BY <1>3, GoneKeepsScripts DEF Watch!Exits, Watch!Dies
<1>4. ASSUME Watch!Breaks \/ Watch!Quiet PROVE ScriptSide'
  BY <1>1, <1>4 DEF Watch!Breaks, Watch!Quiet, Watch!leaseVars
<1> QED BY <1>2, <1>3, <1>4, FollowKeeps, HealStartsKeeps, HealTakesLockKeeps,
           HealDoneKeeps, JobKeeps, InstalledKeeps DEF Watch!Next

-----------------------------------------------------------------------------
(* The rest, and the theorems *)

LEMMA RestStep ==
  ASSUME WatchdogAssumption, WatchdogInv, Watch!Next
  PROVE  Rest'
<1> USE DEF WatchdogInv
<1>1. watchFaults' \in 0..MaxFaults
  <2>1. Watch!Fault \/ UNCHANGED watchFaults
    BY DEF Watch!Next, Watch!Start, Watch!Poll, Watch!PollFails, Watch!Stop, Watch!Exits,
       Watch!Dies, Watch!Follow, Watch!HealStarts,
       Watch!HealTakesLock, Watch!HealWaitsTooLong, Watch!HealEnds, Watch!Install,
       Watch!Uninstall, Watch!JobTakesLock,
       Watch!JobWaitsTooLong, Watch!Installed, Watch!ScriptFails, Watch!Reverted,
       Watch!Forget,
       Watch!Breaks, Watch!Quiet, Watch!leaseVars
  <2>2. watchFaults \in 0..MaxFaults /\ MaxFaults \in Nat
    BY DEF Rest, WatchdogAssumption
  <2> QED BY <2>1, <2>2 DEF Watch!Fault
<1>2. watchOps' \in 0..MaxOps
  <2>1. Watch!Operation \/ UNCHANGED watchOps
    BY DEF Watch!Next, Watch!Start, Watch!Poll, Watch!PollFails, Watch!Stop, Watch!Exits,
       Watch!Dies, Watch!Gone, Watch!Follow, Watch!HealStarts,
       Watch!HealTakesLock, Watch!HealWaitsTooLong, Watch!HealEnds, Watch!Install,
       Watch!Uninstall, Watch!JobTakesLock,
       Watch!JobWaitsTooLong, Watch!Installed, Watch!ScriptFails, Watch!Reverted,
       Watch!Forget,
       Watch!Breaks, Watch!Quiet, Watch!leaseVars
  <2>2. watchOps \in 0..MaxOps /\ MaxOps \in Nat
    BY DEF Rest, WatchdogAssumption
  <2> QED BY <2>1, <2>2 DEF Watch!Operation
<1>3. watchCli' \in {"gone", "broken", "good"}
  <2>1. watchCli' = watchCli \/ watchCli' = "gone" \/ watchCli' = "broken"
        \/ watchCli' = "good"
    BY DEF Watch!Next, Watch!Start, Watch!Poll, Watch!PollFails, Watch!Stop, Watch!Exits,
       Watch!Dies, Watch!Gone, Watch!Follow, Watch!HealStarts,
       Watch!HealTakesLock, Watch!HealWaitsTooLong, Watch!HealEnds, Watch!Install,
       Watch!Uninstall, Watch!JobTakesLock,
       Watch!JobWaitsTooLong, Watch!Installed, Watch!ScriptFails, Watch!Reverted,
       Watch!Forget,
       Watch!Breaks, Watch!Quiet, Watch!leaseVars
  <2> QED BY <2>1 DEF Rest
<1>4. watchApp' \in BOOLEAN
  <2>1. \/ \E w \in Workers : Watch!Installed(w) /\ watchApp' = TRUE
        \/ \E w \in Workers : Watch!Forget(w) /\ watchApp' = FALSE
        \/ watchApp' = watchApp
    BY DEF Watch!Next, Watch!Start, Watch!Poll, Watch!PollFails, Watch!Stop, Watch!Exits,
       Watch!Dies, Watch!Gone, Watch!Follow, Watch!HealStarts,
       Watch!HealTakesLock, Watch!HealWaitsTooLong, Watch!HealEnds, Watch!Install,
       Watch!Uninstall, Watch!JobTakesLock,
       Watch!JobWaitsTooLong, Watch!Installed, Watch!ScriptFails, Watch!Reverted,
       Watch!Forget,
       Watch!Breaks, Watch!Quiet, Watch!leaseVars
  <2> QED BY <2>1 DEF Rest
<1>5. watchOwed' \in [Workers -> BOOLEAN] /\ watchTracked' \in [Workers -> BOOLEAN]
  BY DEF Rest, Watch!Next, Watch!Start, Watch!Poll, Watch!PollFails, Watch!Stop,
     Watch!Exits, Watch!Dies, Watch!Gone, Watch!Follow,
     Watch!HealStarts, Watch!HealTakesLock, Watch!HealWaitsTooLong, Watch!HealEnds,
     Watch!Install, Watch!Uninstall,
     Watch!JobTakesLock, Watch!JobWaitsTooLong, Watch!Installed, Watch!ScriptFails,
     Watch!Reverted, Watch!Forget, Watch!Breaks, Watch!Quiet,
     Watch!leaseVars
<1> QED BY <1>1, <1>2, <1>3, <1>4, <1>5 DEF Rest

LEMMA StepWatchdog ==
  ASSUME WatchdogAssumption, WatchdogInv, Watch!Next
  PROVE  WatchdogInv'
BY LeaseStep, ScriptStep, RestStep DEF WatchdogInv

-----------------------------------------------------------------------------
(* The containers: types *)

Versions == 0..MaxCalls
Kinds == {"none", "failed", "load", "ui", "save", "flip", "uninstall", "heal"}
EngineCall == [call : {"start", "stop", "update_env", "remove"}, key : Boxes!Keys]
Operation ==
  [kind : Kinds, by : Workers \union {None}, todo : Seq(EngineCall),
   step : {"next", "found", "cleared", "prepared"}, env : Versions \union {None}]

\* An operation with calls left, or with an end that counts, has a worker; one past its
\* look-up has the environment it found there.
Sound(o) ==
  /\ o \in Operation
  /\ Len(o.todo) <= 2
  /\ (o.todo # <<>> \/ o.kind = "save") => o.by \in Workers
  /\ o.step # "next" => o.env \in Versions

SoundTasks == boxesTask \in [Slots -> Operation] /\ \A t \in Slots : Sound(boxesTask[t])

Counters ==
  /\ boxesOps \in 0..MaxCalls /\ boxesFaults \in 0..MaxCallFaults
  /\ boxesEnv \in 0..boxesOps /\ boxesHost \in 0..boxesOps

Registered == boxesSpec \in [Workers -> [Boxes!Keys -> Versions \union {None}]]

Engines ==
  boxesEngine \in [Boxes!Keys ->
    [env : Versions, host : Versions, by : Workers] \union {None}]

Outcome ==
  /\ boxesInstalled \in BOOLEAN /\ boxesAuto \in BOOLEAN
  /\ boxesLanded \in Workers \union {None}
  /\ boxesStopped \subseteq Boxes!Keys /\ boxesRemoval \in BOOLEAN

BoxesInv == SoundTasks /\ Counters /\ Registered /\ Engines /\ Outcome

LEMMA SoundNoTask == Sound(Boxes!NoTask)
<1> QED BY DEF Sound, Operation, Kinds, Boxes!NoTask

\* The calls an operation is begun with.
LEMMA Calls ==
  /\ \A k \in Boxes!Keys, name \in {"start", "stop", "update_env", "remove"} :
       /\ Boxes!Call(name, k) \in EngineCall
       /\ <<Boxes!Call(name, k)>> \in Seq(EngineCall)
       /\ Len(<<Boxes!Call(name, k)>>) = 1
  /\ \A name \in {"start", "stop", "update_env", "remove"} :
       /\ Boxes!SidecarsFirst(name) \in Seq(EngineCall)
       /\ Len(Boxes!SidecarsFirst(name)) = 2
  /\ \A k \in Boxes!Keys :
       <<Boxes!Call("stop", k), Boxes!Call("start", k)>> \in Seq(EngineCall)
<1>1. \A k \in Boxes!Keys, name \in {"start", "stop", "update_env", "remove"} :
        Boxes!Call(name, k) \in EngineCall
  BY DEF Boxes!Call, EngineCall
<1>2. "db" \in Boxes!Keys /\ "app" \in Boxes!Keys
  BY DEF Boxes!Keys
<1>3. \A a, b \in EngineCall :
        <<a>> \in Seq(EngineCall) /\ Len(<<a>>) = 1
        /\ <<a, b>> \in Seq(EngineCall) /\ Len(<<a, b>>) = 2
  OBVIOUS
<1> QED BY <1>1, <1>2, <1>3 DEF Boxes!SidecarsFirst

\* A task that is begun is sound.
LEMMA BeginsSound ==
  ASSUME SoundTasks, NEW t \in Slots, NEW w \in Workers, NEW kind \in Kinds,
         NEW todo \in Seq(EngineCall), Len(todo) <= 2, Boxes!Begins(t, kind, w, todo)
  PROVE  SoundTasks'
<1> DEFINE o == [Boxes!NoTask EXCEPT !.kind = kind, !.by = w, !.todo = todo]
<1>1. Sound(o)
  BY DEF Sound, Operation, Boxes!NoTask
<1>2. boxesTask' = [boxesTask EXCEPT ![t] = o]
  BY DEF Boxes!Begins
<1> HIDE DEF o
<1> QED BY <1>1, <1>2 DEF SoundTasks, Sound

\* So is one whose record is replaced by a sound one.
LEMMA OneSound ==
  ASSUME SoundTasks, NEW t \in Slots, NEW o, Sound(o), boxesTask' = [boxesTask EXCEPT ![t] = o]
  PROVE  SoundTasks'
BY DEF SoundTasks, Sound

\* A sound operation with other calls.
LEMMA OtherCalls ==
  ASSUME NEW o, Sound(o), o.by \in Workers, NEW s \in Seq(EngineCall), Len(s) <= 2
  PROVE  /\ Sound([o EXCEPT !.todo = s])
         /\ Sound([o EXCEPT !.todo = s, !.step = "next", !.env = None])
<1> DEFINE p == [o EXCEPT !.todo = s]
           q == [o EXCEPT !.todo = s, !.step = "next", !.env = None]
<1>1. o \in Operation
  BY DEF Sound
<1>2. /\ p.todo = s /\ p.by = o.by /\ p.step = o.step /\ p.env = o.env
      /\ q.todo = s /\ q.by = o.by /\ q.step = "next"
  BY <1>1 DEF Operation
<1>3. p \in Operation
  BY <1>1 DEF Operation
<1>4. q \in Operation
  BY <1>1 DEF Operation
<1> HIDE DEF p, q
<1>5. Sound(p) /\ Sound(q)
  BY <1>2, <1>3, <1>4 DEF Sound
<1> QED BY <1>5 DEF p, q

\* What is left of a task's calls.
LEMMA Rests ==
  ASSUME NEW s \in Seq(EngineCall), s # <<>>
  PROVE  /\ Head(s) \in EngineCall /\ Head(s).key \in Boxes!Keys
         /\ Tail(s) \in Seq(EngineCall) /\ Len(Tail(s)) = Len(s) - 1
         /\ Len(s) \in Nat
         /\ \A c \in EngineCall : /\ <<c>> \o Tail(s) \in Seq(EngineCall)
                                  /\ Len(<<c>> \o Tail(s)) = Len(s)
                                  /\ <<c>> \o Tail(s) # <<>>
<1>1. Head(s) \in EngineCall /\ Tail(s) \in Seq(EngineCall) /\ Len(Tail(s)) = Len(s) - 1
      /\ Len(s) \in Nat
  OBVIOUS
<1>2. Head(s).key \in Boxes!Keys
  BY <1>1 DEF EngineCall
<1>3. ASSUME NEW c \in EngineCall
      PROVE  /\ <<c>> \o Tail(s) \in Seq(EngineCall)
             /\ Len(<<c>> \o Tail(s)) = Len(s)
             /\ <<c>> \o Tail(s) # <<>>
  <2>1. <<c>> \in Seq(EngineCall) /\ Len(<<c>>) = 1
    OBVIOUS
  <2> QED BY <1>1, <2>1
<1> QED BY <1>1, <1>2, <1>3

\* A task that goes on, raises or is found cleared.
LEMMA GoesOn ==
  ASSUME SoundTasks, NEW t \in Slots, boxesTask[t].todo # <<>>
  PROVE  Sound(Boxes!Next1(t)) /\ Sound(Boxes!Raises(t))
<1> DEFINE o == boxesTask[t]
<1>1. Sound(o) /\ o.todo \in Seq(EngineCall) /\ o.by \in Workers
  BY DEF SoundTasks, Sound, Operation
<1>2. Tail(o.todo) \in Seq(EngineCall) /\ Len(Tail(o.todo)) = Len(o.todo) - 1
      /\ Len(o.todo) \in Nat
  BY <1>1, Rests
<1>3. Sound(Boxes!Next1(t))
  <2>1. Boxes!Next1(t) = [o EXCEPT !.todo = Tail(o.todo), !.step = "next", !.env = None]
    BY DEF Boxes!Next1
  <2>2. Len(Tail(o.todo)) <= 2
    BY <1>1, <1>2 DEF Sound
  <2> HIDE DEF o
  <2>3. Sound([o EXCEPT !.todo = Tail(o.todo), !.step = "next", !.env = None])
    BY <1>1, <1>2, <2>2, OtherCalls, Zenon
  <2> QED BY <2>1, <2>3, Zenon
<1>4. Sound([o EXCEPT !.todo = Boxes!SidecarsFirst("remove"), !.step = "next", !.env = None])
  <2> DEFINE s == Boxes!SidecarsFirst("remove")
  <2>1. s \in Seq(EngineCall) /\ Len(s) = 2
    BY Calls
  <2>2. Sound([o EXCEPT !.todo = s, !.step = "next", !.env = None])
    <3> HIDE DEF o, s
    <3>1. Len(s) <= 2
      BY <2>1
    <3> QED BY <1>1, <2>1, <3>1, OtherCalls, Zenon
  <2> QED BY <2>2
<1>5. Sound([Boxes!NoTask EXCEPT !.kind = "failed"])
  <2> DEFINE p == [kind |-> "failed", by |-> None, todo |-> <<>>, step |-> "next",
                   env |-> None]
  <2>1. Sound(p)
    BY DEF Sound, Operation, Kinds
  <2>2. [Boxes!NoTask EXCEPT !.kind = "failed"] = p
    BY DEF Boxes!NoTask
  <2> HIDE DEF p
  <2> QED BY <2>1, <2>2, Zenon
<1> QED BY <1>3, <1>4, <1>5 DEF Boxes!Raises

\* Taking a container away changes a task only in that what it had found is gone.
LEMMA GoneSound ==
  ASSUME Engines, NEW k \in Boxes!Keys, NEW ts \in [Slots -> Operation],
         \A u \in Slots : Sound(ts[u]), Boxes!Gone(k, ts)
  PROVE  SoundTasks' /\ Engines'
<1>1. Engines'
  BY DEF Engines, Boxes!Gone
<1>2. ASSUME NEW o, Sound(o), o.step = "found" PROVE Sound([o EXCEPT !.step = "cleared"])
  BY <1>2 DEF Sound, Operation
<1>3. \A u \in Slots : Sound(boxesTask'[u])
  BY <1>2 DEF Boxes!Gone
<1>4. boxesTask' \in [Slots -> Operation]
  BY <1>3 DEF Boxes!Gone, Sound
<1> QED BY <1>1, <1>3, <1>4 DEF SoundTasks

\* Every operation asked for is counted; a version is never above the count.
LEMMA Counted ==
  ASSUME BoxesAssumption, Counters
  PROVE  /\ boxesEnv \in Versions /\ boxesHost \in Versions
         /\ (Boxes!Asked \/ UNCHANGED <<boxesOps, boxesFaults>> \/ Boxes!Fault) =>
              /\ boxesOps' \in 0..MaxCalls /\ boxesFaults' \in 0..MaxCallFaults
              /\ boxesEnv \in 0..boxesOps' /\ boxesHost \in 0..boxesOps'
         /\ Boxes!Asked => boxesEnv + 1 \in 0..boxesOps' /\ boxesHost + 1 \in 0..boxesOps'
BY DEF Counters, BoxesAssumption, Versions, Boxes!Asked, Boxes!Fault

LEMMA InitBoxes == ASSUME BoxesAssumption, Boxes!Init PROVE BoxesInv
<1>1. SoundTasks
  BY SoundNoTask DEF SoundTasks, Boxes!Init, Sound
<1>2. Counters
  BY DEF Counters, Boxes!Init, BoxesAssumption
<1>3. Registered /\ Engines /\ Outcome
  BY DEF Registered, Engines, Outcome, Boxes!Init, Boxes!Unregistered
<1> QED BY <1>1, <1>2, <1>3 DEF BoxesInv

\* What is asked of the containers.
LEMMA AskedKeeps ==
  ASSUME BoxesAssumption, BoxesInv, NEW t \in Slots, NEW w \in Workers,
         \/ Boxes!Load(t, w)
         \/ \E k \in Boxes!Keys :
              Boxes!Start(t, w, k) \/ Boxes!Stop(t, w, k) \/ Boxes!Restart(t, w, k)
         \/ Boxes!SaveSettings(t, w) \/ Boxes!FlipAutoStart(t, w) \/ Boxes!Uninstall(t, w)
         \/ Boxes!Heal(t, w)
  PROVE  BoxesInv'
<1> USE DEF BoxesInv
<1>1. SoundTasks'
  <2>1. CASE Boxes!Load(t, w)
    <3> DEFINE todo == IF boxesAuto THEN Boxes!SidecarsFirst("start") ELSE <<>>
    <3>1. todo \in Seq(EngineCall) /\ Len(todo) <= 2
      <4> DEFINE both == Boxes!SidecarsFirst("start")
      <4>1. both \in Seq(EngineCall) /\ Len(both) <= 2
        <5>1. both \in Seq(EngineCall) /\ Len(both) = 2
          BY Calls
        <5> HIDE DEF both
        <5> QED BY <5>1
      <4>2. <<>> \in Seq(EngineCall) /\ Len(<<>>) <= 2
        OBVIOUS
      <4>3. todo = both \/ todo = <<>>
        OBVIOUS
      <4> HIDE DEF both, todo
      <4> QED BY <4>1, <4>2, <4>3, Zenon
    <3>2. Boxes!Begins(t, "load", w, todo)
      BY <2>1 DEF Boxes!Load
    <3> HIDE DEF todo
    <3> QED BY <3>1, <3>2, BeginsSound DEF Kinds
  <2>2. ASSUME NEW k \in Boxes!Keys,
               Boxes!Start(t, w, k) \/ Boxes!Stop(t, w, k) \/ Boxes!Restart(t, w, k)
        PROVE  SoundTasks'
    <3> DEFINE start == Boxes!Call("start", k)
               stop == Boxes!Call("stop", k)
    <3>1. start \in EngineCall /\ stop \in EngineCall
      BY Calls
    <3>2. \/ Boxes!Begins(t, "ui", w, <<start>>) \/ Boxes!Begins(t, "ui", w, <<stop>>)
          \/ Boxes!Begins(t, "ui", w, <<stop, start>>)
      BY <2>2 DEF Boxes!Start, Boxes!Stop, Boxes!Restart
    <3> HIDE DEF start, stop
    <3>3. /\ <<start>> \in Seq(EngineCall) /\ Len(<<start>>) <= 2
          /\ <<stop>> \in Seq(EngineCall) /\ Len(<<stop>>) <= 2
          /\ <<stop, start>> \in Seq(EngineCall) /\ Len(<<stop, start>>) <= 2
      BY <3>1
    <3>4. "ui" \in Kinds
      BY DEF Kinds
    <3> QED BY <3>2, <3>3, <3>4, BeginsSound
  <2>3. CASE Boxes!SaveSettings(t, w)
    <3> DEFINE todo == Boxes!SidecarsFirst("update_env")
    <3>1. todo \in Seq(EngineCall) /\ Len(todo) <= 2
      <4>1. todo \in Seq(EngineCall) /\ Len(todo) = 2
        BY Calls
      <4> HIDE DEF todo
      <4> QED BY <4>1
    <3>2. Boxes!Begins(t, "save", w, todo)
      BY <2>3 DEF Boxes!SaveSettings
    <3> HIDE DEF todo
    <3> QED BY <3>1, <3>2, BeginsSound DEF Kinds
  <2>4. CASE Boxes!FlipAutoStart(t, w)
    <3> DEFINE todo == <<Boxes!Call(IF boxesAuto THEN "stop" ELSE "start", "app")>>
    <3>1. todo \in Seq(EngineCall) /\ Len(todo) <= 2
      BY Calls DEF Boxes!Keys
    <3>2. Boxes!Begins(t, "flip", w, todo)
      BY <2>4 DEF Boxes!FlipAutoStart
    <3> HIDE DEF todo
    <3> QED BY <3>1, <3>2, BeginsSound DEF Kinds
  <2>5. CASE Boxes!Uninstall(t, w)
    <3> DEFINE todo == Boxes!SidecarsFirst("remove")
    <3>1. todo \in Seq(EngineCall) /\ Len(todo) <= 2
      <4>1. todo \in Seq(EngineCall) /\ Len(todo) = 2
        BY Calls
      <4> HIDE DEF todo
      <4> QED BY <4>1
    <3>2. Boxes!Begins(t, "uninstall", w, todo)
      BY <2>5 DEF Boxes!Uninstall
    <3> HIDE DEF todo
    <3> QED BY <3>1, <3>2, BeginsSound DEF Kinds
  <2>6. CASE Boxes!Heal(t, w)
    <3> DEFINE a == Boxes!RestartOf(w, "db")
               b == Boxes!RestartOf(w, "app")
               todo == a \o b
    <3>1. /\ a \in Seq(EngineCall) /\ Len(a) \in 0..1
          /\ b \in Seq(EngineCall) /\ Len(b) \in 0..1
      <4>1. \A k \in Boxes!Keys :
              /\ Boxes!RestartOf(w, k) \in Seq(EngineCall)
              /\ Len(Boxes!RestartOf(w, k)) \in 0..1
        <5> TAKE k \in Boxes!Keys
        <5> DEFINE s == <<Boxes!Call("start", k)>>
        <5>1. s \in Seq(EngineCall) /\ Len(s) \in 0..1
          <6>1. s \in Seq(EngineCall) /\ Len(s) = 1
            BY Calls
          <6> QED BY <6>1
        <5>2. <<>> \in Seq(EngineCall) /\ Len(<<>>) \in 0..1
          OBVIOUS
        <5>3. Boxes!RestartOf(w, k) = s \/ Boxes!RestartOf(w, k) = <<>>
          BY DEF Boxes!RestartOf
        <5> HIDE DEF s
        <5> QED BY <5>1, <5>2, <5>3, Zenon
      <4> QED BY <4>1 DEF Boxes!Keys
    <3>2. Boxes!Begins(t, "heal", w, todo)
      BY <2>6 DEF Boxes!Heal
    <3> HIDE DEF a, b
    <3>3. todo \in Seq(EngineCall) /\ Len(todo) = Len(a) + Len(b)
      BY <3>1
    <3>4. Len(todo) <= 2
      <4> HIDE DEF todo
      <4>1. \A m, n \in 0..1 : m + n <= 2
        OBVIOUS
      <4> QED BY <3>1, <3>3, <4>1, Zenon
    <3> HIDE DEF todo
    <3> QED BY <3>2, <3>3, <3>4, BeginsSound DEF Kinds
  <2> QED BY <2>1, <2>2, <2>3, <2>4, <2>5, <2>6
<1>2. /\ UNCHANGED boxesHost
      /\ UNCHANGED boxesEnv \/ (Boxes!Asked /\ boxesEnv' = boxesEnv + 1)
      /\ Boxes!Asked \/ UNCHANGED <<boxesOps, boxesFaults>>
  BY DEF Boxes!Load, Boxes!Start, Boxes!Stop, Boxes!Restart, Boxes!SaveSettings,
     Boxes!FlipAutoStart, Boxes!Uninstall, Boxes!Heal, Boxes!settings
<1>3. Counters'
  BY <1>2, Counted DEF Counters
<1>4. Registered'
  BY Counted DEF Registered, Boxes!Load, Boxes!Start, Boxes!Stop, Boxes!Restart,
     Boxes!SaveSettings, Boxes!FlipAutoStart, Boxes!Uninstall, Boxes!Heal
<1>5. UNCHANGED boxesEngine
  BY DEF Boxes!Load, Boxes!Start, Boxes!Stop, Boxes!Restart, Boxes!SaveSettings,
     Boxes!FlipAutoStart, Boxes!Uninstall, Boxes!Heal
<1>6. Outcome'
  BY DEF Outcome, Boxes!Load, Boxes!Start, Boxes!Stop, Boxes!Restart, Boxes!SaveSettings,
     Boxes!FlipAutoStart, Boxes!Uninstall, Boxes!Heal, Boxes!Keys, Boxes!settings,
     Boxes!history
<1> QED BY <1>1, <1>3, <1>4, <1>5, <1>6 DEF Engines

\* A worker that converges, and a redeploy.
LEMMA FollowingKeeps ==
  ASSUME BoxesAssumption, BoxesInv,
         (\E w \in Workers : Boxes!Attach(w) \/ Boxes!Forget(w)) \/ Boxes!Redeploy
  PROVE  BoxesInv'
<1> USE DEF BoxesInv
<1>1. CASE Boxes!Redeploy
  <2>1. SoundTasks'
    BY <1>1, SoundNoTask DEF SoundTasks, Sound, Boxes!Redeploy
  <2>2. Counters'
    BY <1>1, Counted DEF Counters, Boxes!Redeploy, Boxes!settings
  <2>3. Registered' /\ Engines' /\ Outcome'
    BY <1>1 DEF Registered, Engines, Outcome, Boxes!Redeploy, Boxes!Unregistered,
       Boxes!settings
  <2> QED BY <2>1, <2>2, <2>3
<1>2. ASSUME NEW w \in Workers, Boxes!Attach(w) \/ Boxes!Forget(w) PROVE BoxesInv'
  <2>1. SoundTasks' /\ Counters' /\ Engines' /\ Outcome'
    BY <1>2 DEF SoundTasks, Sound, Counters, Engines, Outcome, Boxes!Attach, Boxes!Forget,
       Boxes!settings, Boxes!history
  <2>2. Registered'
    BY <1>2, Counted DEF Registered, Boxes!Attach, Boxes!Forget, Boxes!Unregistered
  <2> QED BY <2>1, <2>2
<1> QED BY <1>1, <1>2

\* The calls.
LEMMA CallKeeps ==
  ASSUME BoxesAssumption, BoxesInv, NEW t \in Slots, Boxes!Step(t) \/ Boxes!CallFails(t)
  PROVE  BoxesInv'
<1> USE DEF BoxesInv
<1> DEFINE o == boxesTask[t]
<1>1. Sound(o) /\ boxesTask \in [Slots -> Operation]
  BY DEF SoundTasks
<1>2. ASSUME o.todo # <<>>
      PROVE  /\ o.by \in Workers /\ Boxes!First(t).key \in Boxes!Keys
             /\ Boxes!By(t) = o.by /\ Boxes!First(t) \in EngineCall
             /\ Sound(Boxes!Next1(t)) /\ Sound(Boxes!Raises(t))
  <2>1. o.todo \in Seq(EngineCall) /\ o.by \in Workers
    BY <1>1, <1>2 DEF Sound, Operation
  <2> QED BY <1>2, <2>1, Rests, GoesOn DEF Boxes!First, Boxes!By
<1>3. ASSUME o.todo # <<>>, NEW v \in Versions \union {None}
      PROVE  [boxesSpec EXCEPT ![o.by][Boxes!First(t).key] = v] \in
               [Workers -> [Boxes!Keys -> Versions \union {None}]]
  BY <1>2, <1>3 DEF Registered
<1>4. ASSUME o.todo # <<>> PROVE boxesSpec[o.by][Boxes!First(t).key] \in Versions \union {None}
  BY <1>2, <1>4 DEF Registered
<1>5. CASE Boxes!UpdateEnv(t)
  <2>1. o.todo # <<>>
    BY <1>5 DEF Boxes!UpdateEnv, Boxes!Doing
  <2>2. Sound([o EXCEPT !.todo = <<Boxes!Call("start", Boxes!First(t).key)>> \o Tail(o.todo)])
    <3>1. Boxes!Call("start", Boxes!First(t).key) \in EngineCall
      BY <1>2, <2>1, Calls
    <3> DEFINE s == <<Boxes!Call("start", Boxes!First(t).key)>> \o Tail(o.todo)
    <3>2. s \in Seq(EngineCall) /\ Len(s) = Len(o.todo)
      BY <1>1, <2>1, <3>1, Rests DEF Sound, Operation
    <3>3. Len(s) <= 2
      BY <1>1, <3>2 DEF Sound
    <3> HIDE DEF o, s
    <3>4. o.by \in Workers
      BY <1>2, <2>1
    <3>5. Sound([o EXCEPT !.todo = s])
      BY <1>1, <3>2, <3>3, <3>4, OtherCalls, Zenon
    <3> QED BY <3>5 DEF s
  <2>3. \E p : Sound(p) /\ boxesTask' = [boxesTask EXCEPT ![t] = p]
    BY <1>2, <1>5, <2>1, <2>2 DEF Boxes!UpdateEnv
  <2>4. SoundTasks'
    BY <2>3, OneSound
  <2>5. Registered'
    BY <1>2, <1>3, <1>5, <2>1, Counted DEF Boxes!UpdateEnv, Registered
  <2>6. UNCHANGED <<boxesInstalled, boxesEnv, boxesAuto, boxesEngine, boxesHost, boxesLanded,
                    boxesStopped, boxesRemoval, boxesOps, boxesFaults>>
    BY <1>5 DEF Boxes!UpdateEnv, Boxes!settings, Boxes!history
  <2> QED BY <2>4, <2>5, <2>6 DEF Counters, Engines, Outcome
<1>6. CASE Boxes!LookUp(t) \/ Boxes!Prepare(t)
  <2>1. o.todo # <<>> /\ (o.step = "next" \/ o.env \in Versions)
    BY <1>1, <1>6 DEF Boxes!LookUp, Boxes!Prepare, Boxes!Doing, Sound
  <2>2. ASSUME NEW s \in {"found", "cleared", "prepared"}, NEW v \in Versions
        PROVE  Sound([o EXCEPT !.step = s, !.env = v])
    <3> HIDE DEF o
    <3> QED BY <1>1 DEF Sound, Operation
  <2>3. \E p : Sound(p) /\ boxesTask' = [boxesTask EXCEPT ![t] = p]
    <3>1. CASE Boxes!LookUp(t)
      BY <1>2, <1>4, <2>1, <2>2, <3>1 DEF Boxes!LookUp
    <3>2. CASE Boxes!Prepare(t)
      <4> DEFINE v == IF boxesSpec[o.by][Boxes!First(t).key] = None THEN o.env
                      ELSE boxesSpec[o.by][Boxes!First(t).key]
      <4>1. v \in Versions
        BY <1>1, <1>4, <2>1, <3>2 DEF Boxes!Prepare, Sound
      <4>2. boxesTask' = [boxesTask EXCEPT ![t] = [o EXCEPT !.step = "prepared", !.env = v]]
        BY <1>1, <1>2, <2>1, <3>2 DEF Boxes!Prepare
      <4> QED BY <2>2, <4>1, <4>2
    <3> QED BY <1>6, <3>1, <3>2
  <2>4. SoundTasks'
    BY <2>3, OneSound
  <2>5. UNCHANGED <<boxesInstalled, boxesEnv, boxesAuto, boxesSpec, boxesEngine, boxesHost,
                    boxesLanded, boxesStopped, boxesRemoval, boxesOps, boxesFaults>>
    BY <1>6 DEF Boxes!LookUp, Boxes!Prepare, Boxes!settings, Boxes!history
  <2> QED BY <2>4, <2>5 DEF Counters, Registered, Engines, Outcome
<1>7. CASE Boxes!Discard(t)
  <2>1. o.todo # <<>>
    BY <1>7 DEF Boxes!Discard, Boxes!Doing
  <2>2. SoundTasks' /\ Engines'
    BY <1>2, <1>7, <2>1, GoneSound DEF Boxes!Discard, SoundTasks
  <2>3. UNCHANGED <<boxesInstalled, boxesEnv, boxesAuto, boxesSpec, boxesHost, boxesLanded,
                    boxesStopped, boxesRemoval, boxesOps, boxesFaults>>
    BY <1>7 DEF Boxes!Discard, Boxes!settings, Boxes!history
  <2> QED BY <2>2, <2>3 DEF Counters, Registered, Outcome
<1>8. CASE Boxes!Create(t)
  <2>1. o.todo # <<>> /\ o.env \in Versions
    BY <1>1, <1>8 DEF Boxes!Create, Boxes!Doing, Sound
  <2>2. SoundTasks'
    BY <1>2, <1>8, <2>1, OneSound DEF Boxes!Create, Boxes!Advance
  <2>3. Engines'
    BY <1>2, <1>8, <2>1, Counted DEF Boxes!Create, Engines
  <2>4. UNCHANGED <<boxesInstalled, boxesEnv, boxesAuto, boxesSpec, boxesHost, boxesLanded,
                    boxesStopped, boxesRemoval, boxesOps, boxesFaults>>
    BY <1>8 DEF Boxes!Create, Boxes!settings, Boxes!history
  <2> QED BY <2>2, <2>3, <2>4 DEF Counters, Registered, Outcome
<1>9. CASE Boxes!NameTaken(t)
  <2>1. o.todo # <<>>
    BY <1>9 DEF Boxes!NameTaken, Boxes!Doing
  <2>2. SoundTasks'
    BY <1>2, <1>9, <2>1, OneSound DEF Boxes!NameTaken
  <2>3. /\ UNCHANGED <<boxesInstalled, boxesEnv, boxesAuto, boxesSpec, boxesEngine, boxesHost,
                       boxesLanded, boxesStopped, boxesOps, boxesFaults>>
        /\ boxesRemoval' \in BOOLEAN
    BY <1>9 DEF Boxes!NameTaken, Boxes!settings, Outcome
  <2> QED BY <2>2, <2>3 DEF Counters, Registered, Engines, Outcome
<1>10. CASE Boxes!StopContainer(t) \/ Boxes!Remove(t)
  <2>1. o.todo # <<>>
    BY <1>10 DEF Boxes!StopContainer, Boxes!Remove, Boxes!Doing
  <2> DEFINE ts == [boxesTask EXCEPT ![t] = Boxes!Next1(t)]
  <2>2. ts \in [Slots -> Operation] /\ \A u \in Slots : Sound(ts[u])
    BY <1>1, <1>2, <2>1 DEF SoundTasks, Sound
  <2>3. SoundTasks' /\ Engines'
    <3>1. CASE Boxes!Gone(Boxes!First(t).key, ts)
      <4> HIDE DEF ts
      <4> QED BY <1>2, <2>1, <2>2, <3>1, GoneSound
    <3>2. CASE boxesTask' = [boxesTask EXCEPT ![t] = Boxes!Raises(t)] /\ UNCHANGED boxesEngine
      BY <1>2, <2>1, <3>2, OneSound DEF Engines
    <3> QED BY <1>10, <3>1, <3>2 DEF Boxes!StopContainer, Boxes!Remove
  <2>4. Registered'
    BY <1>2, <1>3, <1>10, <2>1 DEF Boxes!StopContainer, Boxes!Remove, Registered
  <2>5. UNCHANGED <<boxesInstalled, boxesEnv, boxesAuto, boxesHost, boxesLanded,
                    boxesStopped, boxesRemoval, boxesOps, boxesFaults>>
    BY <1>10 DEF Boxes!StopContainer, Boxes!Remove, Boxes!settings, Boxes!history
  <2> QED BY <2>3, <2>4, <2>5 DEF Counters, Outcome
<1>11. CASE Boxes!CallFails(t)
  <2>1. o.todo # <<>>
    BY <1>11 DEF Boxes!CallFails
  <2>2. SoundTasks'
    BY <1>2, <1>11, <2>1, OneSound DEF Boxes!CallFails
  <2>3. Registered'
    BY <1>2, <1>3, <1>11, <2>1 DEF Boxes!CallFails, Registered
  <2>4. UNCHANGED <<boxesInstalled, boxesEnv, boxesAuto, boxesEngine, boxesHost, boxesLanded,
                    boxesStopped, boxesRemoval>> /\ Boxes!Fault
    BY <1>11 DEF Boxes!CallFails, Boxes!settings, Boxes!history
  <2>5. Counters'
    BY <2>4, Counted DEF Counters
  <2> QED BY <2>2, <2>3, <2>4, <2>5 DEF Engines, Outcome
<1>12. CASE Boxes!Ends(t)
  <2>1. SoundTasks'
    BY <1>12, SoundNoTask, OneSound DEF Boxes!Ends
  <2>2. boxesInstalled' \in BOOLEAN
    <3>1. boxesInstalled' \in {boxesInstalled, TRUE, FALSE}
      BY <1>12 DEF Boxes!Ends, Boxes!Loaded
    <3> QED BY <3>1 DEF Outcome
  <2>3. boxesLanded' \in Workers \union {None}
    BY <1>1, <1>12 DEF Boxes!Ends, Boxes!By, Sound, Outcome
  <2>4. UNCHANGED <<boxesEnv, boxesAuto, boxesSpec, boxesEngine, boxesHost, boxesStopped,
                    boxesRemoval, boxesOps, boxesFaults>>
    BY <1>12 DEF Boxes!Ends
  <2> QED BY <2>1, <2>2, <2>3, <2>4 DEF Counters, Registered, Engines, Outcome
<1> QED BY <1>5, <1>6, <1>7, <1>8, <1>9, <1>10, <1>11, <1>12 DEF Boxes!Step

LEMMA StepBoxes == ASSUME BoxesAssumption, BoxesInv, Boxes!Next PROVE BoxesInv'
BY AskedKeeps, FollowingKeeps, CallKeeps DEF Boxes!Next

-----------------------------------------------------------------------------
(* Both, and the theorems *)

RepairsAssumption == BoxesAssumption /\ WatchdogAssumption
RepairsInv == BoxesInv /\ WatchdogInv

\* What a component that does not move is told by stays true.
LEMMA Still ==
  /\ BoxesInv /\ UNCHANGED boxesVars => BoxesInv'
  /\ WatchdogInv /\ UNCHANGED watchVars => WatchdogInv'
<1>1. BoxesInv /\ UNCHANGED boxesVars => BoxesInv'
  BY DEF boxesVars, BoxesInv, SoundTasks, Sound, Counters, Registered, Engines, Outcome
<1>2. WatchdogInv /\ UNCHANGED watchVars => WatchdogInv'
  BY DEF watchVars, WatchdogInv, LeaseSide, LeaseShapes, LeaseAgrees, ServesAfterContest,
     ScriptSide, ScriptShapes, LockAgrees, BelowTheBreaker, Rest
<1> QED BY <1>1, <1>2

LEMMA StepRepairs == ASSUME RepairsAssumption, RepairsInv, [Next]_vars PROVE RepairsInv'
<1>1. CASE BoxesMoves
  BY <1>1, StepBoxes, Still DEF BoxesMoves, Unmoved, RepairsInv, RepairsAssumption
<1>2. CASE WatchMoves
  BY <1>2, StepWatchdog, Still DEF WatchMoves, Unmoved, RepairsInv, RepairsAssumption
<1>3. CASE UNCHANGED vars
  BY <1>3, Still DEF vars, RepairsInv
<1> QED BY <1>1, <1>2, <1>3 DEF Next

\* The inductive invariant of both components holds in every reachable state.
THEOREM RepairsCorrect == ASSUME RepairsAssumption PROVE Spec => []RepairsInv
<1>1. Init => RepairsInv
  BY InitBoxes, InitWatchdog DEF Init, RepairsInv, RepairsAssumption
<1>2. RepairsInv /\ [Next]_vars => RepairsInv'
  BY StepRepairs
<1> QED BY <1>1, <1>2, PTL DEF Spec

\* The types of an app's containers and of the watchdog, and the two agreements the
\* latter states: the lease's state is the flock's, and whoever runs a script holds the
\* installers' flock.
THEOREM RepairsTypeCorrect == ASSUME RepairsAssumption PROVE Spec => []TypeOK
<1>1. ASSUME RepairsInv PROVE Watch!TypeOK
  BY <1>1 DEF RepairsInv, WatchdogInv, LeaseSide, LeaseShapes, LeaseAgrees, ScriptSide,
     ScriptShapes, LockAgrees, Scripted, Rest, Watch!TypeOK
<1>2. ASSUME RepairsInv PROVE Boxes!TypeOK
  <2>1. \A t \in Slots :
          /\ boxesTask[t].kind \in Kinds
          /\ boxesTask[t].step \in {"next", "found", "cleared", "prepared"}
          /\ boxesTask[t].by \in Workers \union {None}
          /\ boxesTask[t].env \in Versions \union {None}
          /\ Len(boxesTask[t].todo) <= 3
    <3> TAKE t \in Slots
    <3>1. Sound(boxesTask[t])
      BY <1>2 DEF RepairsInv, BoxesInv, SoundTasks
    <3>2. Len(boxesTask[t].todo) \in Nat
      BY <3>1 DEF Sound, Operation
    <3> QED BY <3>1, <3>2 DEF Sound, Operation
  <2>2. boxesEnv \in Versions /\ boxesHost \in Versions
    BY <1>2, Counted DEF RepairsInv, BoxesInv, RepairsAssumption
  <2>3. Counters /\ Registered /\ Engines /\ Outcome
    BY <1>2 DEF RepairsInv, BoxesInv
  <2> QED BY <2>1, <2>2, <2>3 DEF Counters, Registered, Engines, Outcome, Versions, Kinds,
                                  Boxes!By, Boxes!TypeOK
<1>3. RepairsInv => TypeOK
  BY <1>1, <1>2 DEF TypeOK
<1> QED BY <1>3, RepairsCorrect, PTL

\* FlockLease, WatchdogSupervisor and the installers' flock of commands.py: a watchdog
\* task's loop spins in at most one of the workers that serve; a heal, an install and a
\* revert never run side by side in the workspace.
THEOREM OneAtATimeHolds == ASSUME RepairsAssumption PROVE Spec => []OneAtATime
<1>1. RepairsAssumption /\ RepairsInv => Watch!TasksSpinOnce
  BY DEF RepairsAssumption, RepairsInv, WatchdogAssumption, WatchdogInv, LeaseSide,
     LeaseAgrees, ServesAfterContest, Watch!TasksSpinOnce
<1>2. RepairsAssumption /\ RepairsInv => Watch!OneScript
  BY Exclusion DEF RepairsAssumption, RepairsInv, WatchdogInv, ScriptSide, Scripted,
                   Watch!OneScript
<1>3. RepairsAssumption /\ RepairsInv => OneAtATime
  BY <1>1, <1>2 DEF OneAtATime
<1> QED BY <1>3, RepairsCorrect, PTL
=============================================================================

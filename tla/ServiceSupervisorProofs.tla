---------------------- MODULE ServiceSupervisorProofs ----------------------
(***************************************************************************)
(* Proofs about ServiceSupervisor, for any number of workers, runs,        *)
(* requests, exits and crashes, stops and starts of one worker under way   *)
(* together included.  While Redis has answered throughout and no stop has *)
(* crossed a start, the lease and the reaping of orphans let at most one   *)
(* copy of a service run, and the copy that is attended to has the lease.  *)
(* Then the restart policy, outages included: until a stop crosses a       *)
(* start, a start that is owed is never lost, a stop holds, and a crash    *)
(* loop is bounded.  A stop that crosses a start is undone (stop_race).    *)
(***************************************************************************)
EXTENDS ServiceSupervisor, FiniteSetTheorems, TLAPS

-----------------------------------------------------------------------------
(* The inductive invariant *)

StopSteps == {"halt", "signal", "drop"}
StartSteps == {"enter", "check", "claim", "reap", "spawn"}
Claimed == {"reap", "spawn"}

\* A copy that a living worker's thread can still see.
Attended(id) == run[id].st = "alive" /\ ~run[id].orphan

Pcs == StartSteps \union StopSteps \union {"idle", "defer", "forget"}

ServiceRecords ==
  [desired : {"running", "stopped"},
   state : {"running", "backing_off", "gave_up", "stopped"},
   fast : Nat, waits : Nat, timer : BOOLEAN,
   proc : RunIds \union {None}, lease : RunIds \union {None}]

ThreadRecords == [pc : Pcs, manual : BOOLEAN, id : RunIds \union {None},
                  next : {"idle", "enter", "forget"}]

RunRecords ==
  [st : {"unborn", "alive", "quiet", "dead"}, by : Workers \union {None},
   owned : BOOLEAN, beats : BOOLEAN, mine : BOOLEAN, orphan : BOOLEAN,
   closed : BOOLEAN,
   pump : {"none", "reading", "release", "decide", "schedule", "record", "done"}]

SupervisorShapes ==
  /\ svc \in [Workers -> ServiceRecords]
  /\ thread \in [Workers -> [Threads -> ThreadRecords]]
  /\ run \in [RunIds -> RunRecords]
  /\ used \in 0 .. MaxRuns
  /\ key \in RunIds \union {None}
  /\ redis \in BOOLEAN
  /\ blips \in Nat /\ crossed \in BOOLEAN

\* Numbers not given out yet are blank.
FreshAbove == \A id \in RunIds : id > used => run[id] = Unborn

\* A stop has its worker to itself, and what it said holds until its thread is done.
StopAlone(w) ==
  /\ thread[w]["timer"].pc \notin StopSteps \union {"forget"}
  /\ thread[w]["request"].pc \in StopSteps \union {"forget"} =>
       thread[w]["timer"].pc \notin StartSteps
  /\ thread[w]["request"].pc \in {"signal", "drop", "forget"} =>
       svc[w].desired = "stopped"

StopsAlone == \A w \in Workers : StopAlone(w)

\* A lease a record names was claimed for that record.
LeaseIsMine ==
  \A w \in Workers : svc[w].lease # None =>
    run[svc[w].lease].by = w /\ run[svc[w].lease].mine

\* A process its worker attends to and remembers is the one of its record.
ProcIsMine ==
  \A w \in Workers, id \in RunIds :
    Attended(id) /\ run[id].mine /\ run[id].by = w => svc[w].proc = id

\* A stop that has signalled left no such process.
Signalled ==
  \A w \in Workers : thread[w]["request"].pc \in {"drop", "forget"} =>
    \A id \in RunIds : Attended(id) /\ run[id].mine => run[id].by # w

\* A reader thread lets go only of a process that ended or closed its output.
PumpsRelease == \A id \in RunIds : run[id].pump = "release" => run[id].st \in {"quiet", "dead"}

\* Whoever is past the ownership gate has the key for a run of its own.
Claimants ==
  \A w \in Workers, t \in Threads : thread[w][t].pc \in Claimed =>
    /\ thread[w][t].id = key
    /\ key \in RunIds
    /\ run[key].st = "unborn" /\ run[key].by = w
    /\ run[key].owned /\ run[key].mine

\* One at a time.
OneClaimant ==
  \A v, w \in Workers, t, u \in Threads :
    thread[v][t].pc \in Claimed /\ thread[w][u].pc \in Claimed => v = w /\ t = u

\* The reaping left nothing.
AfterReap ==
  \A w \in Workers, t \in Threads : thread[w][t].pc = "spawn" =>
    \A id \in RunIds : run[id].st # "alive"

AttendedHasKey ==
  \A id \in RunIds : Attended(id) => key = id /\ run[id].owned /\ run[id].beats

AtMostOne ==
  \A i, j \in RunIds : run[i].st = "alive" /\ run[j].st = "alive" => i = j

Core ==
  /\ redis
  /\ FreshAbove /\ StopsAlone /\ LeaseIsMine /\ ProcIsMine /\ Signalled
  /\ PumpsRelease /\ Claimants /\ OneClaimant /\ AfterReap /\ AttendedHasKey
  /\ AtMostOne

SupervisorInv == SupervisorShapes /\ (Smooth => Core)

-----------------------------------------------------------------------------
(* The initial state, and how threads move *)

\* At the start no thread, process or lease is there.
LEMMA InitSupervisor == Init => SupervisorInv
<1> SUFFICES ASSUME Init PROVE SupervisorInv
  OBVIOUS
<1> USE DEF Init
<1>1. NewService \in ServiceRecords /\ Idle \in ThreadRecords /\ Unborn \in RunRecords
  BY DEF NewService, ServiceRecords, Idle, ThreadRecords, Pcs, Unborn, RunRecords
<1>2. SupervisorShapes
  <2>1. used \in 0 .. MaxRuns
    BY SupervisorAssumption
  <2> QED BY <1>1, <2>1 DEF SupervisorShapes
<1>3. /\ \A w \in Workers : svc[w].lease = None
      /\ \A w \in Workers, t \in Threads : thread[w][t].pc = "idle"
      /\ \A id \in RunIds : run[id] = Unborn /\ run[id].st = "unborn" /\ run[id].pump = "none"
  BY DEF NewService, Idle, Unborn
<1>4. Core
  BY <1>3 DEF Core, FreshAbove, StopsAlone, StopAlone, LeaseIsMine, ProcIsMine, Signalled,
     PumpsRelease, Claimants, OneClaimant, AfterReap, AttendedHasKey, AtMostOne,
     Attended, Claimed, StopSteps, Threads
<1> QED BY <1>2, <1>4 DEF SupervisorInv

\* One thread gets a record; the others keep theirs.
LEMMA ThreadSet ==
  ASSUME SupervisorShapes, NEW w \in Workers, NEW t \in Threads,
         NEW r \in ThreadRecords, thread' = [thread EXCEPT ![w][t] = r]
  PROVE  /\ thread' \in [Workers -> [Threads -> ThreadRecords]]
         /\ thread'[w][t] = r
         /\ \A v \in Workers, u \in Threads :
              v # w \/ u # t => thread'[v][u] = thread[v][u]
BY DEF SupervisorShapes

\* A thread that goes on to another point keeps what it carries.
LEMMA ThreadGoes ==
  ASSUME SupervisorShapes, NEW w \in Workers, NEW t \in Threads, NEW p \in Pcs,
         Goto(w, t, p)
  PROVE  /\ thread' \in [Workers -> [Threads -> ThreadRecords]]
         /\ thread'[w][t].pc = p /\ thread'[w][t].id = thread[w][t].id
         /\ thread'[w][t].manual = thread[w][t].manual
         /\ \A v \in Workers, u \in Threads :
              v # w \/ u # t => thread'[v][u] = thread[v][u]
<1> DEFINE r == [thread[w][t] EXCEPT !.pc = p]
<1>1. thread[w][t] \in ThreadRecords
  BY DEF SupervisorShapes
<1>2. /\ r \in ThreadRecords /\ r.pc = p
      /\ r.id = thread[w][t].id /\ r.manual = thread[w][t].manual
  BY <1>1 DEF ThreadRecords
<1>3. thread' = [thread EXCEPT ![w][t] = r]
  BY DEF Goto, SupervisorShapes
<1> HIDE DEF r
<1>4. thread'[w][t] = r
  BY <1>2, <1>3, ThreadSet
<1>5. thread' \in [Workers -> [Threads -> ThreadRecords]]
  BY <1>2, <1>3, ThreadSet
<1>6. ASSUME NEW v \in Workers, NEW u \in Threads, v # w \/ u # t
      PROVE  thread'[v][u] = thread[v][u]
  BY <1>6, <1>2, <1>3, ThreadSet
<1> QED BY <1>2, <1>4, <1>5, <1>6

\* A thread that ends leaves the others as they were.
LEMMA ThreadEnds ==
  ASSUME SupervisorShapes, NEW w \in Workers, NEW t \in Threads, Finish(w, t)
  PROVE  /\ thread' \in [Workers -> [Threads -> ThreadRecords]]
         /\ thread'[w][t].pc = "idle" /\ ~thread'[w][t].manual
         /\ \A v \in Workers, u \in Threads :
              v # w \/ u # t => thread'[v][u] = thread[v][u]
<1>1. Idle \in ThreadRecords /\ Idle.pc = "idle" /\ ~Idle.manual
  BY DEF Idle, ThreadRecords, Pcs
<1>2. thread'[w][t] = Idle
  BY <1>1, ThreadSet DEF Finish
<1>3. thread' \in [Workers -> [Threads -> ThreadRecords]]
  BY <1>1, ThreadSet DEF Finish
<1>4. ASSUME NEW v \in Workers, NEW u \in Threads, v # w \/ u # t
      PROVE  thread'[v][u] = thread[v][u]
  BY <1>4, <1>1, ThreadSet DEF Finish
<1> QED BY <1>1, <1>2, <1>3, <1>4

-----------------------------------------------------------------------------
(* Steps that give no key and take none *)

\* What such a step may do: threads move elsewhere than past the ownership gate,
\* processes end, a heartbeat that has lost its key stops, readers go on.
Frame ==
  /\ UNCHANGED <<key, used>>
  /\ redis'
  /\ \A w \in Workers : svc'[w].proc = svc[w].proc /\ svc'[w].lease = svc[w].lease
  /\ \A w \in Workers, t \in Threads : thread'[w][t].pc \in Claimed =>
       thread'[w][t].pc = thread[w][t].pc /\ thread'[w][t].id = thread[w][t].id
  /\ \A id \in RunIds :
       /\ run'[id].by = run[id].by
       /\ run'[id].mine = run[id].mine
       /\ run'[id].orphan = run[id].orphan
       /\ \/ run'[id].owned = run[id].owned /\ run'[id].beats = run[id].beats
          \/ key # id
       /\ \/ run'[id].st = run[id].st
          \/ /\ run'[id].st \in {"quiet", "dead"}
             /\ \A w \in Workers, t \in Threads :
                  thread'[w][t].pc \in Claimed => thread'[w][t].id # id
       /\ run'[id].pump = "release" =>
            run[id].pump = "release" \/ run'[id].st \in {"quiet", "dead"}
       /\ id > used => run'[id] = run[id]

\* What the leases go by is untouched.
LEMMA FrameKeeps ==
  ASSUME SupervisorShapes, Core, Frame, StopsAlone', Signalled'
  PROVE  Core'
<1> USE DEF Core, Frame
<1>1. FreshAbove'
  BY DEF FreshAbove
<1>2. LeaseIsMine'
  BY DEF LeaseIsMine, SupervisorShapes, ServiceRecords
<1>3. ProcIsMine'
  BY DEF ProcIsMine, Attended
<1>4. PumpsRelease'
  BY DEF PumpsRelease
<1>5. Claimants'
  BY DEF Claimants
<1>6. OneClaimant'
  BY DEF OneClaimant
<1>7. AfterReap'
  BY DEF AfterReap, Claimed
<1>8. AttendedHasKey'
  BY DEF AttendedHasKey, Attended
<1>9. AtMostOne'
  BY DEF AtMostOne
<1> QED BY <1>1, <1>2, <1>3, <1>4, <1>5, <1>6, <1>7, <1>8, <1>9

\* The threads stand still, or one of them ends or gets to a place outside the
\* ownership gate and outside of stop().
LEMMA ThreadsApart ==
  ASSUME Core, NEW w \in Workers, NEW t \in Threads,
         thread'[w][t].pc \notin Claimed \union StopSteps \union {"forget"},
         \/ thread'[w][t].pc \notin StartSteps
         \/ thread[w][t].pc \in StartSteps
         \/ t = "request"
         \/ thread[w]["request"].pc \notin StopSteps \union {"forget"},
         \A v \in Workers, u \in Threads :
           v # w \/ u # t => thread'[v][u] = thread[v][u],
         \A v \in Workers : \/ svc'[v].desired = svc[v].desired
                            \/ thread'[v]["request"].pc \notin {"signal", "drop", "forget"},
         \A id \in RunIds : /\ run'[id].by = run[id].by /\ run'[id].mine = run[id].mine
                            /\ run'[id].orphan = run[id].orphan
                            /\ run'[id].st = "alive" => run[id].st = "alive"
  PROVE  StopsAlone' /\ Signalled'
<1> USE DEF Core
<1>1. ASSUME NEW v \in Workers, v # w \/ t # "request"
      PROVE  thread'[v]["request"] = thread[v]["request"]
  BY <1>1 DEF Threads
<1>2. ASSUME NEW v \in Workers, v # w \/ t # "timer"
      PROVE  thread'[v]["timer"] = thread[v]["timer"]
  BY <1>2 DEF Threads
<1>3. t = "request" \/ t = "timer"
  BY DEF Threads
<1>4. StopsAlone'
  BY <1>1, <1>2, <1>3 DEF StopsAlone, StopAlone, StopSteps, StartSteps
<1>5. Signalled'
  BY <1>1, <1>3 DEF Signalled, Attended, StopSteps
<1> QED BY <1>4, <1>5

\* Requests and timers

\* register(): an autostart begins a deliberate start, the record is new.
LEMMA InstallKeeps ==
  ASSUME SupervisorInv, NEW w \in Workers, Install(w) \/ Attach(w)
  PROVE  SupervisorInv'
<1> USE DEF SupervisorInv, Smooth
<1> DEFINE r == [Idle EXCEPT !.pc = "enter", !.manual = TRUE]
<1>1. r \in ThreadRecords /\ r.pc = "enter"
  BY DEF Idle, ThreadRecords, Pcs, StartSteps
<1>2. /\ UNCHANGED <<svc, run, used, key, redis, blips, crossed>>
      /\ thread' = thread \/ thread' = [thread EXCEPT ![w]["request"] = r]
  BY DEF Install, Attach, countVars
<1> HIDE DEF r
<1>3. CASE thread' = thread
  BY <1>2, <1>3 DEF SupervisorShapes, Core, FreshAbove, StopsAlone, StopAlone, LeaseIsMine,
     ProcIsMine, Signalled, PumpsRelease, Claimants, OneClaimant, AfterReap,
     AttendedHasKey, AtMostOne, Attended
<1>4. CASE thread' = [thread EXCEPT ![w]["request"] = r]
  <2>1. /\ thread' \in [Workers -> [Threads -> ThreadRecords]]
        /\ thread'[w]["request"].pc = "enter"
        /\ \A v \in Workers, u \in Threads :
             v # w \/ u # "request" => thread'[v][u] = thread[v][u]
    BY <1>1, <1>4 DEF SupervisorShapes, Threads
  <2>2. SupervisorShapes'
    BY <1>2, <2>1 DEF SupervisorShapes
  <2>3. ASSUME Core PROVE Core'
    <3>1. StopsAlone' /\ Signalled'
      BY <1>2, <2>1, <2>3, ThreadsApart DEF Claimed, StopSteps, Threads
    <3>2. Frame
      BY <1>2, <2>1, <2>3 DEF Frame, Core, Claimed
    <3> QED BY <2>3, <3>1, <3>2, FrameKeeps
  <2> QED BY <1>2, <2>2, <2>3
<1> QED BY <1>2, <1>3, <1>4

\* The same for every step of a thread outside the gate and outside of stop() ...
LEMMA ThreadStepKeeps ==
  ASSUME SupervisorShapes, Core, NEW w \in Workers, NEW t \in Threads,
         thread'[w][t].pc \notin Claimed \union StopSteps \union {"forget"},
         \/ thread'[w][t].pc \notin StartSteps
         \/ thread[w][t].pc \in StartSteps
         \/ t = "request"
         \/ thread[w]["request"].pc \notin StopSteps \union {"forget"},
         \A v \in Workers, u \in Threads :
           v # w \/ u # t => thread'[v][u] = thread[v][u],
         \A v \in Workers : \/ svc'[v].desired = svc[v].desired
                            \/ thread'[v]["request"].pc \notin {"signal", "drop", "forget"},
         \A v \in Workers : svc'[v].proc = svc[v].proc /\ svc'[v].lease = svc[v].lease,
         UNCHANGED <<run, key, used, redis>>
  PROVE  Core'
<1>1. StopsAlone' /\ Signalled'
  BY ThreadsApart
<1>2. Frame
  BY DEF Frame, Core
<1> QED BY <1>1, <1>2, FrameKeeps

\* ... and for every step that moves no thread.
LEMMA StillKeeps ==
  ASSUME SupervisorShapes, Core, Frame, thread' = thread,
         \A v \in Workers : svc'[v].desired = svc[v].desired,
         \A id \in RunIds : run'[id].st = "alive" => run[id].st = "alive"
  PROVE  Core'
<1>1. StopsAlone' /\ Signalled'
  BY DEF Core, Frame, StopsAlone, StopAlone, Signalled, Attended
<1> QED BY <1>1, FrameKeeps

\* One record changes.
LEMMA ServiceSet ==
  ASSUME SupervisorShapes, NEW w \in Workers, NEW s \in ServiceRecords,
         svc' = [svc EXCEPT ![w] = s]
  PROVE  /\ svc' \in [Workers -> ServiceRecords]
         /\ svc'[w] = s
         /\ \A v \in Workers : v # w => svc'[v] = svc[v]
BY DEF SupervisorShapes

\* An operator request finds the request thread idle and gives it its first step.
LEMMA RequestKeeps ==
  ASSUME SupervisorInv, NEW w \in Workers,
         NEW what \in {"start", "stop", "restart", "uninstall"}, Request(w, what)
  PROVE  SupervisorInv'
<1> USE DEF SupervisorInv, Smooth
<1> DEFINE r == [pc |-> IF what = "start" THEN "enter" ELSE "halt",
                 manual |-> TRUE, id |-> None,
                 next |-> CASE what = "restart" -> "enter"
                            [] what = "uninstall" -> "forget"
                            [] OTHER -> "idle"]
<1>1. r \in ThreadRecords /\ r.pc = IF what = "start" THEN "enter" ELSE "halt"
  BY DEF ThreadRecords, Pcs, StartSteps, StopSteps
<1>2. /\ UNCHANGED <<svc, run, used, key, redis, blips>>
      /\ thread' = [thread EXCEPT ![w]["request"] = r]
      /\ thread[w]["request"].pc = "idle"
      /\ crossed' = (crossed \/ (what # "start" /\ Starting(w)))
  BY DEF Request, coordVars, Idle
<1>a. /\ crossed' \in BOOLEAN /\ (Smooth' => Smooth)
      /\ Smooth' /\ what # "start" => ~Starting(w)
  BY <1>2
<1> HIDE DEF r
<1>3. /\ thread' \in [Workers -> [Threads -> ThreadRecords]]
      /\ thread'[w]["request"] = r
      /\ \A v \in Workers, u \in Threads :
           v # w \/ u # "request" => thread'[v][u] = thread[v][u]
  BY <1>1, <1>2 DEF SupervisorShapes, Threads
<1>4. SupervisorShapes'
  BY <1>2, <1>3, <1>a DEF SupervisorShapes
<1>5. ASSUME Core, what = "start" PROVE Core'
  BY <1>1, <1>2, <1>3, <1>5, ThreadStepKeeps DEF Claimed, StopSteps, Threads
<1>6. ASSUME Core, Smooth', what # "start" PROVE Core'
  <2>1. thread[w]["timer"].pc \notin StartSteps
    BY <1>a, <1>6 DEF Starting, StartSteps, Threads
  <2>2. Frame
    BY <1>1, <1>2, <1>3, <1>6 DEF Frame, Core, Claimed
  <2>3. StopsAlone'
    BY <1>1, <1>2, <1>3, <1>6, <2>1 DEF Core, StopsAlone, StopAlone, Threads
  <2>4. Signalled'
    BY <1>1, <1>2, <1>3, <1>6 DEF Core, Signalled, Attended, Threads
  <2> QED BY <1>6, <2>2, <2>3, <2>4, FrameKeeps
<1> QED BY <1>4, <1>5, <1>6, <1>a

\* A config save writes the record and moves no thread.
LEMMA ConfigSavedKeeps ==
  ASSUME SupervisorInv, NEW w \in Workers, ConfigSaved(w)
  PROVE  SupervisorInv'
<1> USE DEF SupervisorInv, Smooth
<1> DEFINE s == [svc[w] EXCEPT !.fast = 0,
                               !.state = IF @ = "gave_up" THEN "stopped" ELSE @]
<1>1. /\ s \in ServiceRecords
      /\ s.proc = svc[w].proc /\ s.lease = svc[w].lease /\ s.desired = svc[w].desired
  BY DEF SupervisorShapes, ServiceRecords
<1>2. /\ UNCHANGED <<thread, run, used, key, redis, blips, crossed>>
      /\ svc' = [svc EXCEPT ![w] = s]
  BY DEF ConfigSaved, SupervisorShapes
<1> HIDE DEF s
<1>3. /\ svc' \in [Workers -> ServiceRecords]
      /\ svc'[w] = s /\ \A v \in Workers : v # w => svc'[v] = svc[v]
  BY <1>1, <1>2, ServiceSet
<1>4. SupervisorShapes'
  BY <1>2, <1>3 DEF SupervisorShapes
<1>5. ASSUME Core PROVE Core'
  <2>1. Frame
    BY <1>1, <1>2, <1>3, <1>5 DEF Frame, Core
  <2>2. \A v \in Workers : svc'[v].desired = svc[v].desired
    BY <1>1, <1>3
  <2> QED BY <1>2, <1>5, <2>1, <2>2, StillKeeps
<1> QED BY <1>2, <1>4, <1>5

\* The timer goes off where nothing of a stop is under way, or crosses it.
LEMMA TimerKeeps ==
  ASSUME SupervisorInv, NEW w \in Workers, TimerFires(w)
  PROVE  SupervisorInv'
<1> USE DEF SupervisorInv, Smooth
<1> DEFINE s == [svc[w] EXCEPT !.timer = FALSE]
           go == /\ svc[w].desired = "running" /\ svc[w].state # "gave_up"
                 /\ ~Alive(svc[w].proc)
<1>1. /\ s \in ServiceRecords
      /\ s.proc = svc[w].proc /\ s.lease = svc[w].lease /\ s.desired = svc[w].desired
  BY DEF SupervisorShapes, ServiceRecords
<1>2. /\ UNCHANGED <<run, used, key, redis, blips>>
      /\ svc' = [svc EXCEPT ![w] = s]
      /\ crossed' = (crossed \/ (go /\ Stopping(w)))
  BY DEF TimerFires, SupervisorShapes, coordVars
<1>3. /\ go => Goto(w, "timer", "enter")
      /\ ~go => thread' = thread
      /\ go => svc[w].desired = "running"
  BY DEF TimerFires, Goto
<1>a. /\ crossed' \in BOOLEAN /\ (Smooth' => Smooth)
      /\ Smooth' /\ go => ~Stopping(w)
  BY <1>2
<1> HIDE DEF s, go
<1>4. /\ svc' \in [Workers -> ServiceRecords]
      /\ svc'[w] = s /\ \A v \in Workers : v # w => svc'[v] = svc[v]
  BY <1>1, <1>2, ServiceSet
<1>5. /\ \A v \in Workers : svc'[v].desired = svc[v].desired
      /\ \A v \in Workers : svc'[v].proc = svc[v].proc /\ svc'[v].lease = svc[v].lease
  BY <1>1, <1>4
<1>6. CASE ~go
  <2>1. SupervisorShapes'
    BY <1>2, <1>3, <1>4, <1>6, <1>a DEF SupervisorShapes
  <2>2. ASSUME Core PROVE Core'
    <3>1. Frame
      BY <1>2, <1>3, <1>5, <1>6, <2>2 DEF Frame, Core
    <3> QED BY <1>3, <1>5, <1>6, <2>2, <3>1, <1>2, StillKeeps
  <2> QED BY <1>a, <2>1, <2>2
<1>7. CASE go
  <2>1. "timer" \in Threads /\ "enter" \in Pcs
    BY DEF Threads, Pcs, StartSteps
  <2>2. /\ thread' \in [Workers -> [Threads -> ThreadRecords]]
        /\ thread'[w]["timer"].pc = "enter"
        /\ \A v \in Workers, u \in Threads :
             v # w \/ u # "timer" => thread'[v][u] = thread[v][u]
    BY <1>3, <1>7, <2>1, ThreadGoes
  <2>3. SupervisorShapes'
    BY <1>2, <1>4, <1>a, <2>2 DEF SupervisorShapes
  <2>4. ASSUME Core, Smooth' PROVE Core'
    <3>1. thread[w]["request"].pc \notin StopSteps \union {"forget"}
      BY <1>3, <1>7, <1>a, <2>4 DEF Stopping, Core, StopsAlone, StopAlone, StopSteps, Threads
    <3> QED BY <1>2, <1>5, <2>1, <2>2, <2>4, <3>1, ThreadStepKeeps
            DEF Claimed, StopSteps
  <2> QED BY <1>a, <2>3, <2>4
<1> QED BY <1>6, <1>7

\* start() up to the gate

\* start() sets desired and state under the lock, and touches no lease.
LEMMA EnterKeeps ==
  ASSUME SupervisorInv, NEW w \in Workers, NEW t \in Threads, Enter(w, t)
  PROVE  SupervisorInv'
<1> USE DEF SupervisorInv, Smooth
<1> DEFINE e == [svc[w] EXCEPT !.timer = FALSE, !.desired = "running"]
           s == IF thread[w][t].manual
                  THEN [e EXCEPT !.fast = 0, !.waits = 0,
                                 !.state = IF @ = "gave_up" THEN "stopped" ELSE @]
                  ELSE e
<1>1. /\ s \in ServiceRecords
      /\ s.proc = svc[w].proc /\ s.lease = svc[w].lease
  BY DEF SupervisorShapes, ServiceRecords
<1>2. /\ UNCHANGED <<run, used, key, redis, blips, crossed>>
      /\ svc' = [svc EXCEPT ![w] = s]
      /\ thread[w][t].pc = "enter"
      /\ Goto(w, t, "check")
  BY DEF Enter, coordVars, countVars
<1> HIDE DEF s
<1>3. /\ svc' \in [Workers -> ServiceRecords]
      /\ svc'[w] = s /\ \A v \in Workers : v # w => svc'[v] = svc[v]
  BY <1>1, <1>2, ServiceSet
<1>4. "check" \in Pcs
  BY DEF Pcs, StartSteps
<1>5. /\ thread' \in [Workers -> [Threads -> ThreadRecords]]
      /\ thread'[w][t].pc = "check"
      /\ \A v \in Workers, u \in Threads :
           v # w \/ u # t => thread'[v][u] = thread[v][u]
  BY <1>2, <1>4, ThreadGoes
<1>6. SupervisorShapes'
  BY <1>2, <1>3, <1>5 DEF SupervisorShapes
<1>7. ASSUME Core PROVE Core'
  <2>1. thread'[w]["request"].pc \notin {"signal", "drop", "forget"}
    BY <1>2, <1>5, <1>7 DEF Core, StopsAlone, StopAlone, StartSteps, StopSteps, Threads
  <2>2. \A v \in Workers : svc'[v].proc = svc[v].proc /\ svc'[v].lease = svc[v].lease
    BY <1>1, <1>3
  <2>3. \A v \in Workers : \/ svc'[v].desired = svc[v].desired
                           \/ thread'[v]["request"].pc \notin {"signal", "drop", "forget"}
    BY <1>3, <2>1
  <2> QED BY <1>2, <1>5, <1>7, <2>2, <2>3, ThreadStepKeeps
          DEF Claimed, StopSteps, StartSteps
<1> QED BY <1>2, <1>6, <1>7

\* A step of start() before the gate, or one that ends it.
LEMMA CheckKeeps ==
  ASSUME SupervisorInv, NEW w \in Workers, NEW t \in Threads,
         Check(w, t) \/ ClaimDeclined(w, t) \/ Defer(w, t)
  PROVE  SupervisorInv'
<1> USE DEF SupervisorInv, Smooth
<1>1. UNCHANGED <<run, used, key, redis, blips, crossed>>
  BY DEF Check, ClaimDeclined, Defer, coordVars, countVars
<1>2. /\ svc' \in [Workers -> ServiceRecords]
      /\ \A v \in Workers : /\ svc'[v].proc = svc[v].proc
                            /\ svc'[v].lease = svc[v].lease
                            /\ svc'[v].desired = svc[v].desired
  <2> DEFINE refused == [svc[w] EXCEPT !.state = "stopped"]
             again == [svc[w] EXCEPT !.waits = @ + 1, !.state = "backing_off"]
             armed == [svc[w] EXCEPT !.timer = TRUE]
  <2>1. \A s \in {svc[w], refused, again, armed} :
          /\ s \in ServiceRecords
          /\ s.proc = svc[w].proc /\ s.lease = svc[w].lease /\ s.desired = svc[w].desired
    <3>1. svc[w] \in ServiceRecords
      BY DEF SupervisorShapes
    <3>2. /\ refused \in ServiceRecords
          /\ refused.proc = svc[w].proc /\ refused.lease = svc[w].lease
          /\ refused.desired = svc[w].desired
      BY <3>1 DEF ServiceRecords
    <3>3. /\ again \in ServiceRecords
          /\ again.proc = svc[w].proc /\ again.lease = svc[w].lease
          /\ again.desired = svc[w].desired
      <4>1. svc[w].waits + 1 \in Nat
        BY <3>1 DEF ServiceRecords
      <4> QED BY <3>1, <4>1 DEF ServiceRecords
    <3>4. /\ armed \in ServiceRecords
          /\ armed.proc = svc[w].proc /\ armed.lease = svc[w].lease
          /\ armed.desired = svc[w].desired
      BY <3>1 DEF ServiceRecords
    <3> HIDE DEF refused, again, armed
    <3> QED BY <3>1, <3>2, <3>3, <3>4
  <2>2. \E s \in {svc[w], refused, again, armed} : svc' = [svc EXCEPT ![w] = s]
    <3>1. CASE Check(w, t)
      BY <3>1 DEF Check, SupervisorShapes
    <3>2. CASE ClaimDeclined(w, t)
      BY <3>2 DEF ClaimDeclined
    <3>3. CASE Defer(w, t)
      BY <3>3 DEF Defer, Armed
    <3> QED BY <3>1, <3>2, <3>3
  <2> HIDE DEF refused, again, armed
  <2> QED BY <2>1, <2>2, ServiceSet
<1>3. /\ thread' \in [Workers -> [Threads -> ThreadRecords]]
      /\ thread'[w][t].pc \in {"claim", "defer", "idle"}
      /\ thread'[w][t].pc = "claim" => thread[w][t].pc \in StartSteps
      /\ \A v \in Workers, u \in Threads :
           v # w \/ u # t => thread'[v][u] = thread[v][u]
  <2>1. Goto(w, t, "claim") \/ Goto(w, t, "defer") \/ Finish(w, t)
    BY DEF Check, ClaimDeclined, Defer
  <2>2. "claim" \in Pcs /\ "defer" \in Pcs
    BY DEF Pcs, StartSteps
  <2>3. thread[w][t].pc \in StartSteps \/ Finish(w, t)
    BY DEF Check, ClaimDeclined, Defer, StartSteps
  <2>4. Finish(w, t) => thread'[w][t].pc = "idle"
    BY ThreadEnds
  <2> QED BY <2>1, <2>2, <2>3, <2>4, ThreadGoes, ThreadEnds
<1>4. SupervisorShapes'
  BY <1>1, <1>2, <1>3 DEF SupervisorShapes
<1>5. ASSUME Core PROVE Core'
  BY <1>1, <1>2, <1>3, <1>5, ThreadStepKeeps DEF Claimed, StopSteps, StartSteps
<1> QED BY <1>1, <1>4, <1>5

\* stop()

\* stop() writes its word under the lock before it signals.
LEMMA HaltKeeps ==
  ASSUME SupervisorInv, NEW w \in Workers, Halt(w)
  PROVE  SupervisorInv'
<1> USE DEF SupervisorInv, Smooth
<1> DEFINE s == [svc[w] EXCEPT !.desired = "stopped", !.state = "stopped",
                               !.fast = 0, !.waits = 0, !.timer = FALSE]
<1>1. /\ s \in ServiceRecords
      /\ s.proc = svc[w].proc /\ s.lease = svc[w].lease /\ s.desired = "stopped"
  BY DEF SupervisorShapes, ServiceRecords
<1>2. /\ UNCHANGED <<run, used, key, redis, blips, crossed>>
      /\ svc' = [svc EXCEPT ![w] = s]
      /\ thread[w]["request"].pc = "halt"
      /\ Goto(w, "request", "signal")
  BY DEF Halt, SupervisorShapes, coordVars, countVars
<1> HIDE DEF s
<1>3. /\ svc' \in [Workers -> ServiceRecords]
      /\ svc'[w] = s /\ \A v \in Workers : v # w => svc'[v] = svc[v]
  BY <1>1, <1>2, ServiceSet
<1>4. "request" \in Threads /\ "signal" \in Pcs
  BY DEF Threads, Pcs, StopSteps
<1>5. /\ thread' \in [Workers -> [Threads -> ThreadRecords]]
      /\ thread'[w]["request"].pc = "signal"
      /\ \A v \in Workers, u \in Threads :
           v # w \/ u # "request" => thread'[v][u] = thread[v][u]
  BY <1>2, <1>4, ThreadGoes
<1>6. SupervisorShapes'
  BY <1>2, <1>3, <1>5 DEF SupervisorShapes
<1>7. ASSUME Core PROVE Core'
  <2>1. \A v \in Workers : svc'[v].proc = svc[v].proc /\ svc'[v].lease = svc[v].lease
    BY <1>1, <1>3
  <2>2. Frame
    BY <1>2, <1>5, <1>7, <2>1 DEF Frame, Core, Claimed
  <2>3. StopsAlone'
    BY <1>1, <1>2, <1>3, <1>5, <1>7 DEF Core, StopsAlone, StopAlone, StopSteps, Threads
  <2>4. Signalled'
    BY <1>2, <1>5, <1>7 DEF Core, Signalled, Attended, Threads
  <2> QED BY <1>7, <2>2, <2>3, <2>4, FrameKeeps
<1> QED BY <1>2, <1>6, <1>7

\* One run's record changes.
LEMMA RunSet ==
  ASSUME SupervisorShapes, NEW id \in RunIds, NEW r \in RunRecords,
         run' = [run EXCEPT ![id] = r]
  PROVE  /\ run' \in [RunIds -> RunRecords]
         /\ run'[id] = r
         /\ \A i \in RunIds : i # id => run'[i] = run[i]
BY DEF SupervisorShapes

\* The signal ends the process of the record, which is all its worker attends to.
LEMMA SignalKeeps ==
  ASSUME SupervisorInv, NEW w \in Workers, Signal(w)
  PROVE  SupervisorInv'
<1> USE DEF SupervisorInv, Smooth
<1> DEFINE id == svc[w].proc
<1>1. /\ UNCHANGED <<svc, used, key, redis, blips, crossed>>
      /\ thread[w]["request"].pc = "signal"
      /\ Goto(w, "request", "drop")
  BY DEF Signal, coordVars, countVars
<1>2. "request" \in Threads /\ "drop" \in Pcs
  BY DEF Threads, Pcs, StopSteps
<1>3. /\ thread' \in [Workers -> [Threads -> ThreadRecords]]
      /\ thread'[w]["request"].pc = "drop"
      /\ \A v \in Workers, u \in Threads :
           v # w \/ u # "request" => thread'[v][u] = thread[v][u]
  BY <1>1, <1>2, ThreadGoes
<1>4. id \in RunIds \union {None}
  BY DEF SupervisorShapes, ServiceRecords
<1>5. /\ run' \in [RunIds -> RunRecords]
      /\ \A i \in RunIds : i # id \/ ~Alive(id) => run'[i] = run[i]
      /\ Alive(id) => /\ id \in RunIds
                      /\ run'[id].st = "dead"
                      /\ run'[id].by = run[id].by /\ run'[id].mine = run[id].mine
                      /\ run'[id].orphan = run[id].orphan
                      /\ run'[id].owned = run[id].owned
                      /\ run'[id].beats = run[id].beats
  <2>1. CASE Alive(id)
    <3> DEFINE r == [run[id] EXCEPT !.st = "dead",
                                    !.pump = IF @ = "reading" THEN "release" ELSE @]
    <3>1. id \in RunIds
      BY <1>4, <2>1 DEF Alive
    <3>2. /\ r \in RunRecords
          /\ r.st = "dead" /\ r.by = run[id].by /\ r.mine = run[id].mine
          /\ r.orphan = run[id].orphan
          /\ r.owned = run[id].owned /\ r.beats = run[id].beats
      <4>1. run[id] \in RunRecords
        BY <3>1 DEF SupervisorShapes
      <4> HIDE DEF id
      <4> QED BY <4>1 DEF RunRecords
    <3>3. run' = [run EXCEPT ![id] = r]
      BY <2>1, <3>1 DEF Signal, SupervisorShapes
    <3> HIDE DEF r
    <3> QED BY <2>1, <3>1, <3>2, <3>3, RunSet
  <2>2. CASE ~Alive(id)
    BY <2>2 DEF Signal, SupervisorShapes
  <2> QED BY <2>1, <2>2
<1>6. SupervisorShapes'
  BY <1>1, <1>3, <1>5 DEF SupervisorShapes
<1>7. ASSUME Core PROVE Core'
  <2>1. Alive(id) => id <= used /\ run[id].st # "unborn"
    BY <1>5, <1>7 DEF Core, FreshAbove, Alive, Unborn, SupervisorShapes, RunIds
  <2>2. \A v \in Workers, u \in Threads : thread'[v][u].pc \in Claimed =>
          /\ thread'[v][u].pc = thread[v][u].pc /\ thread'[v][u].id = thread[v][u].id
          /\ Alive(id) => thread'[v][u].id # id
    BY <1>3, <1>7, <2>1 DEF Core, Claimants, Claimed
  <2>3. Frame
    <3> HIDE DEF id
    <3>1. ASSUME Alive(id) PROVE ~(id > used)
      BY <1>5, <2>1, <3>1 DEF SupervisorShapes, RunIds
    <3>2. CASE Alive(id)
      BY <1>1, <1>5, <1>7, <2>2, <3>1, <3>2 DEF Frame, Core
    <3>3. CASE ~Alive(id)
      BY <1>1, <1>5, <1>7, <2>2, <3>3 DEF Frame, Core
    <3> QED BY <3>2, <3>3
  <2>4. StopsAlone'
    BY <1>1, <1>3, <1>7 DEF Core, StopsAlone, StopAlone, StopSteps, Threads
  <2>5. Signalled'
    <3>1. \A i \in RunIds : /\ Attended(i)' => Attended(i)
                            /\ run'[i].mine = run[i].mine /\ run'[i].by = run[i].by
      <4> HIDE DEF id
      <4> QED BY <1>5 DEF Attended
    <3>2. \A i \in RunIds : Attended(i)' /\ run'[i].mine => run'[i].by # w
      <4> SUFFICES ASSUME NEW i \in RunIds, Attended(i)', run[i].mine, run[i].by = w
                   PROVE  FALSE
        BY <3>1
      <4>1. i = id /\ Attended(i)
        BY <1>7, <3>1 DEF Core, ProcIsMine
      <4>2. Alive(id) /\ run'[i].st = "alive"
        BY <4>1 DEF Alive, Attended, RunIds, None
      <4> HIDE DEF id
      <4> QED BY <1>5, <4>1, <4>2
    <3> QED BY <1>3, <1>7, <3>1, <3>2 DEF Core, Signalled, Threads
  <2> QED BY <1>7, <2>3, <2>4, <2>5, FrameKeeps
<1> QED BY <1>1, <1>6, <1>7

-----------------------------------------------------------------------------
(* Runs, workers and Redis, when no key changes hands *)

\* A step of one run that leaves its claim and its worker as they were.
LEMMA RunStepKeeps ==
  ASSUME SupervisorShapes, Core, NEW id \in RunIds, NEW r \in RunRecords,
         run' = [run EXCEPT ![id] = r], run[id] # Unborn,
         r.by = run[id].by, r.mine = run[id].mine, r.orphan = run[id].orphan,
         (r.owned = run[id].owned /\ r.beats = run[id].beats) \/ key # id,
         \/ r.st = run[id].st
         \/ r.st \in {"quiet", "dead"} /\ run[id].st \in {"alive", "quiet"},
         r.pump = "release" => run[id].pump = "release" \/ r.st \in {"quiet", "dead"},
         \A v \in Workers : /\ svc'[v].proc = svc[v].proc /\ svc'[v].lease = svc[v].lease
                            /\ svc'[v].desired = svc[v].desired,
         UNCHANGED <<thread, key, used, redis>>
  PROVE  Core'
<1>1. run'[id] = r /\ \A i \in RunIds : i # id => run'[i] = run[i]
  BY RunSet
<1>2. ~(id > used)
  BY DEF Core, FreshAbove
<1>3. ASSUME r.st # run[id].st
      PROVE  \A w \in Workers, t \in Threads : thread[w][t].pc \in Claimed =>
               thread[w][t].id # id
  BY <1>3 DEF Core, Claimants
<1>4. Frame
  BY <1>1, <1>2, <1>3 DEF Frame, Core
<1>5. \A i \in RunIds : run'[i].st = "alive" => run[i].st = "alive"
  BY <1>1
<1> QED BY <1>4, <1>5, StillKeeps

\* A process that ends or closes its output is no longer attended to.
LEMMA ExitsKeeps ==
  ASSUME SupervisorInv, NEW id \in RunIds, Exits(id) \/ ClosesOutput(id) \/ HeartbeatLost(id)
  PROVE  SupervisorInv'
<1> USE DEF SupervisorInv, Smooth
<1>1. UNCHANGED <<svc, thread, used, key, redis, blips, crossed>>
  BY DEF Exits, ClosesOutput, HeartbeatLost, coordVars, countVars
<1>2. run[id] \in RunRecords
  BY DEF SupervisorShapes
<1>3. PICK r \in RunRecords :
        /\ run' = [run EXCEPT ![id] = r] /\ run[id] # Unborn
        /\ r.by = run[id].by /\ r.mine = run[id].mine /\ r.orphan = run[id].orphan
        /\ (r.owned = run[id].owned /\ r.beats = run[id].beats) \/ key # id
        /\ \/ r.st = run[id].st
           \/ r.st \in {"quiet", "dead"} /\ run[id].st \in {"alive", "quiet"}
        /\ r.pump = "release" => run[id].pump = "release" \/ r.st \in {"quiet", "dead"}
  <2>1. CASE Exits(id)
    <3> DEFINE r == [run[id] EXCEPT !.st = "dead",
                                    !.pump = IF @ = "reading" THEN "release" ELSE @]
    <3>1. /\ r \in RunRecords /\ r.st = "dead"
          /\ r.by = run[id].by /\ r.mine = run[id].mine /\ r.orphan = run[id].orphan
          /\ r.owned = run[id].owned /\ r.beats = run[id].beats
      BY <1>2 DEF RunRecords
    <3>2. run' = [run EXCEPT ![id] = r] /\ run[id].st \in {"alive", "quiet"}
      BY <2>1 DEF Exits, Alive, SupervisorShapes
    <3>3. run[id] # Unborn
      BY <3>2 DEF Unborn
    <3> HIDE DEF r
    <3> QED BY <3>1, <3>2, <3>3
  <2>2. CASE ClosesOutput(id)
    <3> DEFINE r == [run[id] EXCEPT !.st = "quiet", !.closed = TRUE, !.pump = "release"]
    <3>1. /\ r \in RunRecords /\ r.st = "quiet"
          /\ r.by = run[id].by /\ r.mine = run[id].mine /\ r.orphan = run[id].orphan
          /\ r.owned = run[id].owned /\ r.beats = run[id].beats
      BY <1>2 DEF RunRecords
    <3>2. run' = [run EXCEPT ![id] = r] /\ run[id].st = "alive"
      BY <2>2 DEF ClosesOutput, SupervisorShapes
    <3>3. run[id] # Unborn
      BY <3>2 DEF Unborn
    <3> HIDE DEF r
    <3> QED BY <3>1, <3>2, <3>3
  <2>3. CASE HeartbeatLost(id)
    <3> DEFINE r == [run[id] EXCEPT !.owned = FALSE, !.beats = FALSE]
    <3>1. /\ r \in RunRecords /\ r.st = run[id].st /\ r.pump = run[id].pump
          /\ r.by = run[id].by /\ r.mine = run[id].mine /\ r.orphan = run[id].orphan
      BY <1>2 DEF RunRecords
    <3>2. run' = [run EXCEPT ![id] = r] /\ run[id].beats /\ key # id
      BY <2>3 DEF HeartbeatLost, SupervisorShapes
    <3>3. run[id] # Unborn
      BY <3>2 DEF Unborn
    <3> HIDE DEF r
    <3> QED BY <3>1, <3>2, <3>3
  <2> QED BY <2>1, <2>2, <2>3
<1>4. SupervisorShapes'
  BY <1>1, <1>3, RunSet DEF SupervisorShapes
<1>5. ASSUME Core PROVE Core'
  BY <1>1, <1>3, <1>5, RunStepKeeps
<1> QED BY <1>1, <1>4, <1>5

\* _after_exit and what follows it.
LEMMA PumpKeeps ==
  ASSUME SupervisorInv, NEW id \in RunIds,
         PumpStandsBack(id) \/ PumpDecides(id) \/ PumpActs(id)
  PROVE  SupervisorInv'
<1> USE DEF SupervisorInv, Smooth
<1> DEFINE w == run[id].by
<1>1. UNCHANGED <<thread, used, key, redis, blips, crossed>>
  BY DEF PumpStandsBack, PumpDecides, PumpActs, coordVars, countVars
<1>2. PICK p \in {"done", "schedule", "record"} : run' = [run EXCEPT ![id].pump = p]
  BY DEF PumpStandsBack, PumpDecides, PumpActs
<1> DEFINE r == [run[id] EXCEPT !.pump = p]
<1>3. /\ run[id] \in RunRecords /\ run[id].pump # "none"
      /\ w \in Workers => svc[w] \in ServiceRecords
  BY DEF SupervisorShapes, PumpStandsBack, PumpDecides, PumpActs
<1>4. /\ r \in RunRecords /\ r.st = run[id].st /\ r.pump = p
      /\ r.by = run[id].by /\ r.mine = run[id].mine /\ r.orphan = run[id].orphan
      /\ r.owned = run[id].owned /\ r.beats = run[id].beats
  BY <1>3 DEF RunRecords
<1>5. run' = [run EXCEPT ![id] = r] /\ run[id] # Unborn
  BY <1>2, <1>3 DEF SupervisorShapes, Unborn
<1> HIDE DEF r, w
<1>6. ASSUME w \in Workers, NEW s \in ServiceRecords, svc' = [svc EXCEPT ![w] = s],
             s.proc = svc[w].proc, s.lease = svc[w].lease, s.desired = svc[w].desired
      PROVE  /\ svc' \in [Workers -> ServiceRecords]
             /\ \A v \in Workers : /\ svc'[v].proc = svc[v].proc
                                   /\ svc'[v].lease = svc[v].lease
                                   /\ svc'[v].desired = svc[v].desired
  BY <1>6, ServiceSet
<1>7. ASSUME w \in Workers, NEW n \in Nat,
             NEW st \in {"running", "stopped", "backing_off", "gave_up"}
      PROVE  LET s == [svc[w] EXCEPT !.fast = n, !.state = st]
             IN  /\ s \in ServiceRecords
                 /\ s.proc = svc[w].proc /\ s.lease = svc[w].lease
                 /\ s.desired = svc[w].desired
  BY <1>3, <1>7 DEF ServiceRecords
<1>8. /\ svc' \in [Workers -> ServiceRecords]
      /\ \A v \in Workers : /\ svc'[v].proc = svc[v].proc /\ svc'[v].lease = svc[v].lease
                            /\ svc'[v].desired = svc[v].desired
  <2>1. CASE svc' = svc
    BY <2>1 DEF SupervisorShapes
  <2>2. CASE w \notin Workers
    <3>1. svc' = svc
      BY <2>2 DEF PumpStandsBack, PumpDecides, PumpActs, w, SupervisorShapes
    <3> QED BY <2>1, <3>1
  <2>3. CASE w \in Workers /\ PumpStandsBack(id)
    <3> DEFINE s(st) == [svc[w] EXCEPT !.state = st]
    <3>1. \A st \in {"running", "stopped"} :
            /\ s(st) \in ServiceRecords
            /\ s(st).proc = svc[w].proc /\ s(st).lease = svc[w].lease
            /\ s(st).desired = svc[w].desired
      BY <1>3, <2>3 DEF ServiceRecords
    <3>2. \/ svc' = svc
          \/ svc' = [svc EXCEPT ![w] = s("running")]
          \/ svc' = [svc EXCEPT ![w] = s("stopped")]
      BY <2>3 DEF PumpStandsBack, w, SupervisorShapes
    <3> HIDE DEF s
    <3> QED BY <1>6, <2>1, <2>3, <3>1, <3>2
  <2>4. CASE w \in Workers /\ PumpDecides(id)
    <3>1. PICK n \in Nat, st \in {"gave_up", "backing_off"} :
            svc' = [svc EXCEPT ![w].fast = n, ![w].state = st]
      <4>1. svc[w].fast \in Nat /\ svc[w].fast + 1 \in Nat /\ 0 \in Nat /\ 0 + 1 \in Nat
        BY <1>3, <2>4 DEF ServiceRecords
      <4> QED BY <2>4, <4>1 DEF PumpDecides, w
    <3> DEFINE s == [svc[w] EXCEPT !.fast = n, !.state = st]
    <3>2. svc' = [svc EXCEPT ![w] = s]
      BY <3>1 DEF SupervisorShapes
    <3>3. /\ s \in ServiceRecords
          /\ s.proc = svc[w].proc /\ s.lease = svc[w].lease /\ s.desired = svc[w].desired
      BY <1>7, <2>4
    <3> HIDE DEF s
    <3> QED BY <1>6, <2>4, <3>2, <3>3
  <2>5. CASE w \in Workers /\ PumpActs(id)
    <3> DEFINE s == [svc[w] EXCEPT !.timer = TRUE]
    <3>1. /\ s \in ServiceRecords
          /\ s.proc = svc[w].proc /\ s.lease = svc[w].lease /\ s.desired = svc[w].desired
      BY <1>3, <2>5 DEF ServiceRecords
    <3>2. svc' = svc \/ svc' = [svc EXCEPT ![w] = s]
      BY <2>5 DEF PumpActs, Armed, w, SupervisorShapes
    <3> HIDE DEF s
    <3> QED BY <1>6, <2>5, <2>1, <3>1, <3>2
  <2> QED BY <2>2, <2>3, <2>4, <2>5
<1>9. SupervisorShapes'
  BY <1>1, <1>4, <1>5, <1>8, RunSet DEF SupervisorShapes
<1>10. ASSUME Core PROVE Core'
  BY <1>1, <1>4, <1>5, <1>8, <1>10, RunStepKeeps
<1> QED BY <1>1, <1>9, <1>10

\* A worker or Redis that is back finds what it left.
LEMMA ReturnsKeeps ==
  ASSUME SupervisorInv,
         (\E w \in Workers : WorkerReturns(w)) \/ RedisGoes \/ RedisReturns
  PROVE  SupervisorInv'
<1> USE DEF SupervisorInv, Smooth
<1>1. /\ UNCHANGED <<svc, thread, run, used, key, crossed>>
      /\ redis' \in BOOLEAN
      /\ (blips' = blips /\ (redis => redis')) \/ blips' = blips + 1
  BY DEF WorkerReturns, RedisGoes, RedisReturns, coordVars, countVars, SupervisorShapes
<1>2. SupervisorShapes'
  BY <1>1 DEF SupervisorShapes
<1>3. ASSUME blips' = 0 PROVE blips = 0 /\ (redis => redis')
  BY <1>1, <1>3 DEF SupervisorShapes
<1>4. ASSUME Core, redis' PROVE Core'
  <2>1. Frame
    BY <1>1, <1>4 DEF Frame
  <2> QED BY <1>1, <1>4, <2>1, StillKeeps
<1>5. Core => redis
  BY DEF Core
<1>6. ASSUME blips' = 0, ~crossed' PROVE Core'
  <2>1. blips = 0 /\ (redis => redis') /\ ~crossed
    BY <1>1, <1>3, <1>6
  <2>2. Core
    BY <2>1
  <2> QED BY <2>1, <2>2, <1>4, <1>5
<1> QED BY <1>2, <1>6

\* A launch that raises leaves its run unborn for good.
LEMMA SpawnFailsKeeps ==
  ASSUME SupervisorInv, NEW w \in Workers, NEW t \in Threads, SpawnFails(w, t)
  PROVE  SupervisorInv'
<1> USE DEF SupervisorInv, Smooth
<1> DEFINE id == thread[w][t].id
<1>1. /\ UNCHANGED <<svc, used, key, redis, blips, crossed>>
      /\ thread[w][t].pc = "spawn"
      /\ run' = [run EXCEPT ![id].st = "dead"]
      /\ Finish(w, t)
  BY DEF SpawnFails, coordVars
<1>2. /\ thread' \in [Workers -> [Threads -> ThreadRecords]]
      /\ thread'[w][t].pc = "idle"
      /\ \A v \in Workers, u \in Threads :
           v # w \/ u # t => thread'[v][u] = thread[v][u]
  BY <1>1, ThreadEnds
<1> HIDE DEF id
<1>3. /\ run' \in [RunIds -> RunRecords]
      /\ \A i \in RunIds :
           IF i = id
             THEN /\ run'[i].st = "dead" /\ run'[i].by = run[i].by
                  /\ run'[i].mine = run[i].mine /\ run'[i].orphan = run[i].orphan
                  /\ run'[i].owned = run[i].owned /\ run'[i].beats = run[i].beats
                  /\ run'[i].pump = run[i].pump
             ELSE run'[i] = run[i]
  <2>1. CASE id \in RunIds
    <3> DEFINE r == [run[id] EXCEPT !.st = "dead"]
    <3>1. run[id] \in RunRecords
      BY <2>1 DEF SupervisorShapes
    <3>2. /\ r \in RunRecords /\ r.st = "dead"
          /\ r.by = run[id].by /\ r.mine = run[id].mine /\ r.orphan = run[id].orphan
          /\ r.owned = run[id].owned /\ r.beats = run[id].beats
          /\ r.pump = run[id].pump
      BY <3>1 DEF RunRecords
    <3>3. run' = [run EXCEPT ![id] = r]
      BY <1>1, <2>1 DEF SupervisorShapes
    <3> HIDE DEF r
    <3> QED BY <2>1, <3>2, <3>3, RunSet
  <2>2. CASE id \notin RunIds
    <3>1. run' = run
      BY <1>1, <2>2 DEF SupervisorShapes
    <3> QED BY <2>2, <3>1 DEF SupervisorShapes
  <2> QED BY <2>1, <2>2
<1>4. SupervisorShapes'
  BY <1>1, <1>2, <1>3 DEF SupervisorShapes
<1>5. ASSUME Core PROVE Core'
  <2>1. \A v \in Workers, u \in Threads : thread'[v][u].pc \notin Claimed
    BY <1>1, <1>2, <1>5 DEF Core, OneClaimant, Claimed
  <2>2. ~(id > used)
    BY <1>1, <1>5 DEF Core, Claimants, Claimed, FreshAbove, Unborn, id
  <2>3. Frame
    BY <1>1, <1>3, <1>5, <2>1, <2>2 DEF Frame, Core
  <2>4. StopsAlone' /\ Signalled'
    BY <1>1, <1>2, <1>3, <1>5, ThreadsApart DEF Claimed, StopSteps, StartSteps
  <2> QED BY <1>5, <2>3, <2>4, FrameKeeps
<1> QED BY <1>1, <1>4, <1>5

-----------------------------------------------------------------------------
(* Steps that give a key or take it *)

\* The key can only run out on a run that nobody starts and nobody attends to.
LEMMA KeyExpiresKeeps ==
  ASSUME SupervisorInv, KeyExpires
  PROVE  SupervisorInv'
<1> USE DEF SupervisorInv, Smooth
<1>1. /\ UNCHANGED <<svc, thread, run, used, redis, blips, crossed>>
      /\ key # None /\ key' = None
      /\ ~redis \/ ~run[key].beats
      /\ \A w \in Workers, t \in Threads : thread[w][t].id # key
  BY DEF KeyExpires, countVars
<1>2. SupervisorShapes'
  BY <1>1 DEF SupervisorShapes
<1>3. ASSUME Core PROVE Core'
  <2> USE <1>1, <1>3 DEF Core
  <2>1. \A id \in RunIds : ~Attended(id)
    BY DEF AttendedHasKey
  <2>2. \A w \in Workers, t \in Threads : thread[w][t].pc \notin Claimed
    BY DEF Claimants
  <2>3. AttendedHasKey' /\ Claimants'
    BY <2>1, <2>2 DEF AttendedHasKey, Claimants, Attended
  <2>4. /\ FreshAbove' /\ StopsAlone' /\ LeaseIsMine' /\ ProcIsMine' /\ Signalled'
        /\ PumpsRelease' /\ OneClaimant' /\ AfterReap' /\ AtMostOne'
    BY DEF FreshAbove, StopsAlone, StopAlone, LeaseIsMine, ProcIsMine, Signalled, PumpsRelease,
           OneClaimant, AfterReap, AtMostOne, Attended
  <2> QED BY <2>3, <2>4
<1> QED BY <1>1, <1>2, <1>3

\* Nobody can be past the gate, and nothing attended to, while the key is free.
LEMMA FreeKey ==
  ASSUME Core, key = None
  PROVE  /\ \A id \in RunIds : ~Attended(id)
         /\ \A w \in Workers, t \in Threads : thread[w][t].pc \notin Claimed
BY DEF Core, AttendedHasKey, Claimants, RunIds, None

\* The claim is won only on a free key, so nobody else is past the gate.
LEMMA ClaimWonKeeps ==
  ASSUME SupervisorInv, NEW w \in Workers, NEW t \in Threads, ClaimWon(w, t)
  PROVE  SupervisorInv'
<1> USE DEF SupervisorInv, Smooth
<1> DEFINE n == used + 1
           r == [Unborn EXCEPT !.by = w, !.mine = TRUE, !.owned = redis]
           s == [svc[w] EXCEPT !.waits = 0]
           h == [thread[w][t] EXCEPT !.pc = "reap", !.id = n]
<1>1. n \in RunIds /\ n \in 0 .. MaxRuns /\ n > used
  BY SupervisorAssumption DEF ClaimWon, SupervisorShapes, RunIds
<1>2. /\ r \in RunRecords /\ r.st = "unborn" /\ r.by = w /\ r.mine
      /\ r.owned = redis /\ r.orphan = FALSE /\ r.pump = "none"
  BY DEF Unborn, RunRecords, SupervisorShapes
<1>3. /\ s \in ServiceRecords /\ s.proc = svc[w].proc
      /\ s.lease = svc[w].lease /\ s.desired = svc[w].desired
  BY DEF SupervisorShapes, ServiceRecords
<1>4. h \in ThreadRecords /\ h.pc = "reap" /\ h.id = n
  <2>1. thread[w][t] \in ThreadRecords
    BY DEF SupervisorShapes
  <2> HIDE DEF n
  <2> QED BY <1>1, <2>1 DEF ThreadRecords, Pcs, StartSteps
<1>5. /\ thread[w][t].pc = "claim"
      /\ key = None \/ ~redis
      /\ used' = n
      /\ key' = IF redis THEN n ELSE key
      /\ run' = [run EXCEPT ![n] = r]
      /\ svc' = [svc EXCEPT ![w] = s]
      /\ thread' = [thread EXCEPT ![w][t] = h]
      /\ redis' = redis /\ UNCHANGED <<blips, crossed>>
  BY DEF ClaimWon, SupervisorShapes, countVars
<1> HIDE DEF n, r, s, h
<1>6. /\ run' \in [RunIds -> RunRecords]
      /\ run'[n] = r /\ \A i \in RunIds : i # n => run'[i] = run[i]
  BY <1>1, <1>2, <1>5, RunSet
<1>7. /\ svc' \in [Workers -> ServiceRecords]
      /\ svc'[w] = s /\ \A v \in Workers : v # w => svc'[v] = svc[v]
  BY <1>3, <1>5, ServiceSet
<1>8. thread'[w][t] = h
  BY <1>4, <1>5, ThreadSet
<1>9. thread' \in [Workers -> [Threads -> ThreadRecords]]
  BY <1>4, <1>5, ThreadSet
<1>10. ASSUME NEW v \in Workers, NEW u \in Threads, v # w \/ u # t
       PROVE  thread'[v][u] = thread[v][u]
  BY <1>4, <1>5, <1>10, ThreadSet
<1>11. SupervisorShapes'
  BY <1>1, <1>5, <1>6, <1>7, <1>9 DEF SupervisorShapes
<1>12. ASSUME Core PROVE Core'
  <2> USE <1>12 DEF Core
  <2>1. key = None /\ key' = n /\ r.owned
    BY <1>2, <1>5
  <2>2. /\ \A id \in RunIds : ~Attended(id)
        /\ \A v \in Workers, u \in Threads : thread[v][u].pc \notin Claimed
    BY <2>1, FreeKey
  <2>3. run[n].mine = FALSE /\ run[n].st = "unborn"
    <3>1. run[n] = Unborn
      BY <1>1 DEF FreshAbove
    <3> QED BY <3>1 DEF Unborn
  <2>4. FreshAbove'
    <3>1. \A id \in RunIds : id > n => id > used /\ id # n
      BY <1>1 DEF RunIds, SupervisorShapes, n
    <3> QED BY <1>5, <1>6, <3>1 DEF FreshAbove
  <2>5. StopsAlone'
    <3>1. \A v \in Workers : svc'[v].desired = svc[v].desired
      BY <1>3, <1>7
    <3>2. t = "request" \/ t = "timer"
      BY DEF Threads
    <3> QED BY <1>4, <1>5, <1>8, <1>10, <3>1, <3>2
            DEF StopsAlone, StopAlone, StopSteps, StartSteps, Threads
  <2>6. LeaseIsMine'
    BY <1>3, <1>6, <1>7, <2>3 DEF LeaseIsMine, SupervisorShapes, ServiceRecords
  <2>7. ProcIsMine' /\ AttendedHasKey'
    BY <1>2, <1>6, <2>2 DEF ProcIsMine, AttendedHasKey, Attended
  <2>8. Signalled'
    BY <1>2, <1>6, <2>2 DEF Signalled, Attended
  <2>9. PumpsRelease'
    BY <1>2, <1>6 DEF PumpsRelease
  <2>10. \A v \in Workers, u \in Threads : thread'[v][u].pc \in Claimed => v = w /\ u = t
    BY <1>10, <2>2
  <2>11. Claimants' /\ OneClaimant'
    BY <1>1, <1>2, <1>4, <1>6, <1>8, <2>1, <2>10 DEF Claimants, OneClaimant
  <2>12. AfterReap'
    BY <1>4, <1>8, <2>10 DEF AfterReap, Claimed
  <2>13. AtMostOne'
    BY <1>2, <1>6 DEF AtMostOne
  <2> QED BY <1>5, <2>4, <2>5, <2>6, <2>7, <2>8, <2>9, <2>11, <2>12, <2>13
<1> QED BY <1>5, <1>11, <1>12

\* The one claimant's reaping kills what dead workers left, and nothing else was alive.
LEMMA ReapKeeps ==
  ASSUME SupervisorInv, NEW w \in Workers, NEW t \in Threads, Reap(w, t)
  PROVE  SupervisorInv'
<1> USE DEF SupervisorInv, Smooth
<1> DEFINE id == thread[w][t].id
           s == [svc[w] EXCEPT !.lease = id]
<1>1. /\ UNCHANGED <<used, key, redis, blips, crossed>>
      /\ thread[w][t].pc = "reap"
      /\ svc' = [svc EXCEPT ![w] = s]
      /\ Goto(w, t, "spawn")
  BY DEF Reap, SupervisorShapes, coordVars, countVars
<1>2. /\ run' \in [RunIds -> RunRecords]
      /\ \A i \in RunIds :
           /\ run'[i].by = run[i].by /\ run'[i].mine = run[i].mine
           /\ run'[i].orphan = run[i].orphan /\ run'[i].pump = run[i].pump
           /\ run'[i].owned = run[i].owned /\ run'[i].beats = run[i].beats
           /\ \/ run'[i] = run[i] /\ ~(run[i].orphan /\ run[i].st = "alive")
              \/ run'[i].st = "dead" /\ run[i].st \in {"alive", "quiet"}
  <2> SUFFICES ASSUME NEW i \in RunIds
      PROVE  /\ run'[i] \in RunRecords
             /\ run'[i].by = run[i].by /\ run'[i].mine = run[i].mine
             /\ run'[i].orphan = run[i].orphan /\ run'[i].pump = run[i].pump
             /\ run'[i].owned = run[i].owned /\ run'[i].beats = run[i].beats
             /\ \/ run'[i] = run[i] /\ ~(run[i].orphan /\ run[i].st = "alive")
                \/ run'[i].st = "dead" /\ run[i].st \in {"alive", "quiet"}
    <3>1. run' = [j \in RunIds |-> run'[j]]
      BY DEF Reap
    <3> QED BY <3>1
  <2> DEFINE r == [run[i] EXCEPT !.st = "dead"]
  <2>1. run[i] \in RunRecords
    BY DEF SupervisorShapes
  <2>2. /\ r \in RunRecords /\ r.st = "dead" /\ r.by = run[i].by /\ r.mine = run[i].mine
        /\ r.orphan = run[i].orphan /\ r.pump = run[i].pump
        /\ r.owned = run[i].owned /\ r.beats = run[i].beats
    BY <2>1 DEF RunRecords
  <2>3. run'[i] = IF run[i].orphan /\ run[i].st \in {"alive", "quiet"} THEN r ELSE run[i]
    BY DEF Reap, Alive, RunIds, None
  <2> HIDE DEF r
  <2> QED BY <2>1, <2>2, <2>3
<1>3. "spawn" \in Pcs
  BY DEF Pcs, StartSteps
<1>4. /\ thread' \in [Workers -> [Threads -> ThreadRecords]]
      /\ thread'[w][t].pc = "spawn" /\ thread'[w][t].id = id
      /\ \A v \in Workers, u \in Threads :
           v # w \/ u # t => thread'[v][u] = thread[v][u]
  BY <1>1, <1>3, ThreadGoes
<1>5. /\ s \in ServiceRecords
      /\ s.proc = svc[w].proc /\ s.lease = id /\ s.desired = svc[w].desired
  <2>1. svc[w] \in ServiceRecords /\ thread[w][t] \in ThreadRecords
    BY DEF SupervisorShapes
  <2>2. id \in RunIds \union {None}
    BY <2>1 DEF ThreadRecords
  <2> HIDE DEF id
  <2> QED BY <2>1, <2>2 DEF ServiceRecords
<1> HIDE DEF s
<1>6. /\ svc' \in [Workers -> ServiceRecords]
      /\ svc'[w] = s /\ \A v \in Workers : v # w => svc'[v] = svc[v]
  BY <1>1, <1>5, ServiceSet
<1>7. SupervisorShapes'
  BY <1>1, <1>2, <1>4, <1>6 DEF SupervisorShapes
<1>8. ASSUME Core PROVE Core'
  <2> USE <1>8 DEF Core
  <2>1. /\ id = key /\ key \in RunIds
        /\ run[key].st = "unborn" /\ run[key].by = w
        /\ run[key].owned /\ run[key].mine
    BY <1>1 DEF Claimants, Claimed
  <2>2. \A v \in Workers, u \in Threads : thread[v][u].pc \in Claimed => v = w /\ u = t
    BY <1>1 DEF OneClaimant, Claimed
  <2> HIDE DEF id
  <2>3. \A i \in RunIds : ~Attended(i)
    BY <2>1 DEF AttendedHasKey, Attended
  <2>4. \A i \in RunIds : run'[i].st # "alive"
    BY <1>2, <2>3 DEF Attended
  <2>5. run'[key] = run[key]
    BY <1>2, <2>1
  <2>6. FreshAbove'
    <3>1. \A i \in RunIds : run[i] = Unborn => run[i].st = "unborn"
      BY DEF Unborn
    <3> QED BY <1>1, <1>2, <3>1 DEF FreshAbove
  <2>7. StopsAlone'
    <3>1. \A v \in Workers : svc'[v].desired = svc[v].desired
      BY <1>5, <1>6
    <3>2. t = "request" \/ t = "timer"
      BY DEF Threads
    <3> QED BY <1>1, <1>4, <3>1, <3>2 DEF StopsAlone, StopAlone, StopSteps, StartSteps, Threads
  <2>8. LeaseIsMine'
    <3> SUFFICES ASSUME NEW v \in Workers, svc'[v].lease # None
                 PROVE  run'[svc'[v].lease].by = v /\ run'[svc'[v].lease].mine
      BY DEF LeaseIsMine
    <3>1. CASE v = w
      BY <1>5, <1>6, <2>1, <2>5, <3>1
    <3>2. CASE v # w
      <4>1. svc'[v] = svc[v] /\ svc[v].lease \in RunIds
        BY <1>6, <3>2 DEF SupervisorShapes, ServiceRecords
      <4> QED BY <1>2, <4>1 DEF LeaseIsMine
    <3> QED BY <3>1, <3>2
  <2>9. ProcIsMine' /\ Signalled' /\ AttendedHasKey' /\ AtMostOne' /\ AfterReap'
    BY <2>4 DEF ProcIsMine, Signalled, AttendedHasKey, AtMostOne, AfterReap, Attended
  <2>10. PumpsRelease'
    BY <1>2 DEF PumpsRelease
  <2>11. Claimants'
    BY <1>1, <1>4, <2>1, <2>2, <2>5 DEF Claimants
  <2>12. OneClaimant'
    BY <1>4, <2>2 DEF OneClaimant
  <2> QED BY <1>1, <2>6, <2>7, <2>8, <2>9, <2>10, <2>11, <2>12
<1> QED BY <1>1, <1>7, <1>8

\* The one claimant gets the one process.
LEMMA SpawnKeeps ==
  ASSUME SupervisorInv, NEW w \in Workers, NEW t \in Threads, Spawn(w, t)
  PROVE  SupervisorInv'
<1> USE DEF SupervisorInv, Smooth
<1> DEFINE id == thread[w][t].id
           r == [run[id] EXCEPT !.st = "alive", !.pump = "reading", !.beats = run[id].owned]
           s == [svc[w] EXCEPT !.proc = id, !.state = "running"]
<1>1. /\ UNCHANGED <<used, key, redis, blips, crossed>>
      /\ thread[w][t].pc = "spawn"
      /\ run' = [run EXCEPT ![id].st = "alive", ![id].pump = "reading",
                            ![id].beats = run[id].owned]
      /\ svc' = [svc EXCEPT ![w] = s]
      /\ Finish(w, t)
  BY DEF Spawn, SupervisorShapes, coordVars, countVars
<1>2. /\ thread' \in [Workers -> [Threads -> ThreadRecords]]
      /\ thread'[w][t].pc = "idle"
      /\ \A v \in Workers, u \in Threads :
           v # w \/ u # t => thread'[v][u] = thread[v][u]
  BY <1>1, ThreadEnds
<1>3. id \in RunIds \union {None}
  <2>1. thread[w][t] \in ThreadRecords
    BY DEF SupervisorShapes
  <2> QED BY <2>1 DEF ThreadRecords
<1> HIDE DEF id
<1>4. /\ s \in ServiceRecords
      /\ s.proc = id /\ s.lease = svc[w].lease /\ s.desired = svc[w].desired
  <2>1. svc[w] \in ServiceRecords
    BY DEF SupervisorShapes
  <2> QED BY <1>3, <2>1 DEF ServiceRecords
<1> HIDE DEF s
<1>5. /\ svc' \in [Workers -> ServiceRecords]
      /\ svc'[w] = s /\ \A v \in Workers : v # w => svc'[v] = svc[v]
  BY <1>1, <1>4, ServiceSet
<1>6. ASSUME id \in RunIds
      PROVE  /\ r \in RunRecords /\ r.st = "alive" /\ r.pump = "reading"
             /\ r.by = run[id].by /\ r.mine = run[id].mine /\ r.owned = run[id].owned
             /\ r.beats = run[id].owned
             /\ run' = [run EXCEPT ![id] = r]
  <2>1. run[id] \in RunRecords
    BY <1>6 DEF SupervisorShapes
  <2>2. /\ r \in RunRecords /\ r.st = "alive" /\ r.pump = "reading"
        /\ r.by = run[id].by /\ r.mine = run[id].mine /\ r.owned = run[id].owned
        /\ r.beats = run[id].owned
    BY <2>1 DEF RunRecords
  <2>3. run' = [run EXCEPT ![id] = r]
    BY <1>1, <1>6 DEF SupervisorShapes
  <2> QED BY <2>2, <2>3
<1> HIDE DEF r
<1>7. run' \in [RunIds -> RunRecords]
  <2>1. CASE id \in RunIds
    BY <1>6, <2>1, RunSet
  <2>2. CASE id \notin RunIds
    <3>1. run' = run
      BY <1>1, <2>2 DEF SupervisorShapes
    <3> QED BY <3>1 DEF SupervisorShapes
  <2> QED BY <2>1, <2>2
<1>8. SupervisorShapes'
  BY <1>1, <1>2, <1>5, <1>7 DEF SupervisorShapes
<1>9. ASSUME Core PROVE Core'
  <2> USE <1>9 DEF Core
  <2>1. /\ id = key /\ key \in RunIds
        /\ run[id].st = "unborn" /\ run[id].by = w
        /\ run[id].owned /\ run[id].mine
    BY <1>1 DEF Claimants, Claimed, id
  <2>2. \A v \in Workers, u \in Threads : thread'[v][u].pc \notin Claimed
    BY <1>1, <1>2 DEF OneClaimant, Claimed
  <2>3. run'[id] = r /\ \A i \in RunIds : i # id => run'[i] = run[i]
    BY <1>6, <2>1, RunSet
  <2>4. \A i \in RunIds : i # id => run'[i].st # "alive"
    BY <1>1, <2>3 DEF AfterReap
  <2>5. FreshAbove'
    <3>1. ~(id > used)
      BY <2>1 DEF FreshAbove, Unborn
    <3> QED BY <1>1, <2>3, <3>1 DEF FreshAbove
  <2>6. t = "request" \/ t = "timer"
    BY DEF Threads
  <2>7. thread'[w]["request"].pc \notin StopSteps \union {"forget"}
    BY <1>1, <1>2, <2>6 DEF StopsAlone, StopAlone, StartSteps, StopSteps, Threads
  <2>8. StopsAlone'
    <3>1. \A v \in Workers : svc'[v].desired = svc[v].desired
      BY <1>4, <1>5
    <3> QED BY <1>1, <1>2, <2>6, <3>1 DEF StopsAlone, StopAlone, StopSteps, StartSteps, Threads
  <2>9. LeaseIsMine'
    <3>1. \A v \in Workers : svc'[v].lease = svc[v].lease
      BY <1>4, <1>5
    <3>2. \A v \in Workers : svc[v].lease # None => svc[v].lease \in RunIds
      BY DEF SupervisorShapes, ServiceRecords
    <3>3. \A i \in RunIds : run'[i].by = run[i].by /\ run'[i].mine = run[i].mine
      BY <1>6, <2>1, <2>3
    <3> QED BY <3>1, <3>2, <3>3 DEF LeaseIsMine
  <2>10. ProcIsMine'
    BY <1>4, <1>5, <1>6, <2>1, <2>3, <2>4 DEF ProcIsMine, Attended
  <2>11. Signalled'
    <3> SUFFICES ASSUME NEW v \in Workers, thread'[v]["request"].pc \in {"drop", "forget"},
                        NEW i \in RunIds, Attended(i)'
                 PROVE  run'[i].by # v
      BY DEF Signalled
    <3>1. i = id /\ run'[i].by = w
      BY <1>6, <2>1, <2>3, <2>4 DEF Attended
    <3> QED BY <2>7, <3>1 DEF StopSteps
  <2>12. PumpsRelease'
    BY <1>6, <2>1, <2>3 DEF PumpsRelease
  <2>13. Claimants' /\ OneClaimant' /\ AfterReap'
    BY <2>2 DEF Claimants, OneClaimant, AfterReap, Claimed
  <2>14. AttendedHasKey'
    BY <1>1, <1>6, <2>1, <2>3, <2>4 DEF AttendedHasKey, Attended
  <2>15. AtMostOne'
    BY <2>4 DEF AtMostOne
  <2> QED BY <1>1, <2>5, <2>8, <2>9, <2>10, <2>11, <2>12, <2>13, <2>14, <2>15
<1> QED BY <1>1, <1>8, <1>9

-----------------------------------------------------------------------------
(* Releases *)

\* Nobody attends to this run and nobody starts it.
Loose(id) ==
  /\ ~Attended(id)
  /\ \A w \in Workers, t \in Threads : thread[w][t].pc \in Claimed => thread[w][t].id # id

\* A release of such a run, at most, whoever makes it.
LEMMA ReleaseKeeps ==
  ASSUME SupervisorShapes, Core,
         \A id \in RunIds :
           /\ run'[id].by = run[id].by /\ run'[id].mine = run[id].mine
           /\ run'[id].orphan = run[id].orphan /\ run'[id].st = run[id].st
           /\ \/ run'[id].owned = run[id].owned /\ run'[id].beats = run[id].beats
              \/ Loose(id)
           /\ run'[id].pump = "release" => run[id].pump = "release"
           /\ id > used => run'[id] = run[id],
         \/ key' = key
         \/ key' = None /\ key \in RunIds /\ Loose(key),
         \A w \in Workers : svc'[w].lease \in {svc[w].lease, None},
         \A w \in Workers, t \in Threads : thread'[w][t].pc \in Claimed =>
           thread'[w][t].pc = thread[w][t].pc /\ thread'[w][t].id = thread[w][t].id,
         StopsAlone', Signalled', ProcIsMine',
         UNCHANGED <<used, redis>>
  PROVE  Core'
<1> USE DEF Core
<1>1. FreshAbove'
  BY DEF FreshAbove
<1>2. LeaseIsMine'
  <2>1. \A w \in Workers : svc[w].lease \in RunIds \union {None}
    BY DEF SupervisorShapes, ServiceRecords
  <2> QED BY <2>1 DEF LeaseIsMine
<1>3. PumpsRelease'
  BY DEF PumpsRelease
<1>4. ASSUME NEW w \in Workers, NEW t \in Threads, thread'[w][t].pc \in Claimed
      PROVE  /\ thread[w][t].pc = thread'[w][t].pc /\ thread'[w][t].id = key /\ key' = key
             /\ key \in RunIds /\ ~Loose(key)
             /\ run[key].st = "unborn" /\ run[key].by = w
             /\ run[key].owned /\ run[key].mine
  <2>1. /\ thread[w][t].id = key /\ key \in RunIds
        /\ run[key].st = "unborn" /\ run[key].by = w
        /\ run[key].owned /\ run[key].mine
    BY <1>4 DEF Claimants
  <2>2. ~Loose(key)
    BY <1>4, <2>1 DEF Loose
  <2> QED BY <1>4, <2>1, <2>2
<1>5. Claimants'
  BY <1>4 DEF Claimants
<1>6. OneClaimant'
  BY <1>4 DEF OneClaimant
<1>7. AfterReap'
  BY <1>4 DEF AfterReap, Claimed
<1>8. AttendedHasKey'
  BY DEF AttendedHasKey, Attended, Loose
<1>9. AtMostOne'
  BY DEF AtMostOne
<1> QED BY <1>1, <1>2, <1>3, <1>5, <1>6, <1>7, <1>8, <1>9

\* What release() writes in one run.
LEMMA Released ==
  ASSUME SupervisorShapes, NEW id \in RunIds, NEW p \in {run[id].pump, "decide"},
         run' = [ReleaseOf(run, id) EXCEPT ![id].pump = p]
  PROVE  /\ run' \in [RunIds -> RunRecords]
         /\ \A i \in RunIds : i # id => run'[i] = run[i]
         /\ run'[id].by = run[id].by /\ run'[id].mine = run[id].mine
         /\ run'[id].orphan = run[id].orphan /\ run'[id].st = run[id].st
         /\ run'[id].pump = p
<1> DEFINE r == [run[id] EXCEPT !.owned = FALSE, !.beats = FALSE, !.pump = p]
<1>1. run[id] \in RunRecords
  BY DEF SupervisorShapes
<1>2. /\ r \in RunRecords /\ r.by = run[id].by /\ r.mine = run[id].mine
      /\ r.orphan = run[id].orphan /\ r.st = run[id].st /\ r.pump = p
  BY <1>1 DEF RunRecords
<1>3. run' = [run EXCEPT ![id] = r]
  BY DEF ReleaseOf, SupervisorShapes
<1> HIDE DEF r
<1> QED BY <1>2, <1>3, RunSet

\* stop() releases the claim of its own record, after the signal.
LEMMA DropKeeps ==
  ASSUME SupervisorInv, NEW w \in Workers, Drop(w)
  PROVE  SupervisorInv'
<1> USE DEF SupervisorInv, Smooth
<1> DEFINE id == svc[w].lease
           s == [svc[w] EXCEPT !.lease = None, !.proc = None]
           r == [Idle EXCEPT !.pc = thread[w]["request"].next,
                             !.manual = (thread[w]["request"].next = "enter")]
<1>1. /\ UNCHANGED <<used, redis, blips, crossed>>
      /\ thread[w]["request"].pc = "drop"
      /\ key' = IF id = None THEN key ELSE KeyReleased(id)
      /\ run' = IF id = None THEN run ELSE ReleaseOf(run, id)
      /\ svc' = [svc EXCEPT ![w] = s]
      /\ thread' = [thread EXCEPT ![w]["request"] = r]
  BY DEF Drop, SupervisorShapes, countVars
<1>2. /\ s \in ServiceRecords /\ s.lease = None /\ s.proc = None
      /\ s.desired = svc[w].desired
      /\ id \in RunIds \union {None}
  <2>1. svc[w] \in ServiceRecords
    BY DEF SupervisorShapes
  <2> QED BY <2>1 DEF ServiceRecords
<1>3. r \in ThreadRecords /\ r.pc \in {"idle", "enter", "forget"}
  <2>1. thread[w]["request"] \in ThreadRecords
    BY DEF SupervisorShapes, Threads
  <2>2. thread[w]["request"].next \in {"idle", "enter", "forget"}
    BY <2>1 DEF ThreadRecords
  <2>3. (thread[w]["request"].next = "enter") \in BOOLEAN
    OBVIOUS
  <2> QED BY <2>2, <2>3 DEF ThreadRecords, Idle, Pcs, StartSteps
<1> HIDE DEF s, r, id
<1>4. /\ svc' \in [Workers -> ServiceRecords]
      /\ svc'[w] = s /\ \A v \in Workers : v # w => svc'[v] = svc[v]
  BY <1>1, <1>2, ServiceSet
<1>5. /\ thread' \in [Workers -> [Threads -> ThreadRecords]]
      /\ thread'[w]["request"] = r
      /\ \A v \in Workers, u \in Threads :
           v # w \/ u # "request" => thread'[v][u] = thread[v][u]
  BY <1>1, <1>3 DEF SupervisorShapes, Threads
<1>6. key' \in RunIds \union {None}
  BY <1>1 DEF KeyReleased, SupervisorShapes
<1>7. /\ run' \in [RunIds -> RunRecords]
      /\ \A i \in RunIds :
           /\ i # id => run'[i] = run[i]
           /\ run'[i].by = run[i].by /\ run'[i].mine = run[i].mine
           /\ run'[i].orphan = run[i].orphan /\ run'[i].st = run[i].st
           /\ run'[i].pump = run[i].pump
  <2>1. CASE id = None
    BY <1>1, <2>1 DEF SupervisorShapes
  <2>2. CASE id \in RunIds /\ id # None
    <3>1. run' = [ReleaseOf(run, id) EXCEPT ![id].pump = run[id].pump]
      <4>1. run[id] \in RunRecords
        BY <2>2 DEF SupervisorShapes
      <4>2. run' = [run EXCEPT ![id] = [run[id] EXCEPT !.owned = FALSE, !.beats = FALSE]]
        BY <1>1, <2>2 DEF ReleaseOf, SupervisorShapes
      <4>3. [run[id] EXCEPT !.owned = FALSE, !.beats = FALSE, !.pump = run[id].pump]
              = [run[id] EXCEPT !.owned = FALSE, !.beats = FALSE]
        BY <4>1 DEF RunRecords
      <4>4. [ReleaseOf(run, id) EXCEPT ![id].pump = run[id].pump]
              = [run EXCEPT ![id] = [run[id] EXCEPT !.owned = FALSE, !.beats = FALSE,
                                                    !.pump = run[id].pump]]
        BY <2>2 DEF ReleaseOf, SupervisorShapes
      <4> QED BY <4>2, <4>3, <4>4
    <3> QED BY <2>2, <3>1, Released
  <2> QED BY <1>2, <2>1, <2>2
<1>8. SupervisorShapes'
  BY <1>1, <1>4, <1>5, <1>6, <1>7 DEF SupervisorShapes
<1>9. ASSUME Core PROVE Core'
  <2> USE <1>9 DEF Core
  <2>1. /\ thread[w]["timer"].pc \notin StartSteps \union StopSteps \union {"forget"}
        /\ svc[w].desired = "stopped"
        /\ \A i \in RunIds : Attended(i) /\ run[i].mine => run[i].by # w
    BY <1>1 DEF StopsAlone, StopAlone, Signalled, StopSteps
  <2>2. ASSUME id # None PROVE Loose(id) /\ id \in RunIds /\ ~(id > used)
    <3>1. id \in RunIds /\ run[id].by = w /\ run[id].mine
      BY <1>2, <2>2 DEF LeaseIsMine, id
    <3>2. ~Attended(id)
      BY <2>1, <3>1
    <3>3. ASSUME NEW v \in Workers, NEW u \in Threads, thread[v][u].pc \in Claimed
          PROVE  thread[v][u].id # id
      <4>1. v # w \/ u # "request"
        BY <1>1, <3>3 DEF Claimed
      <4>2. v # w
        BY <2>1, <3>3, <4>1 DEF Claimed, StartSteps, Threads
      <4> QED BY <3>1, <3>3, <4>2 DEF Claimants
    <3>4. ~(id > used)
      BY <3>1 DEF FreshAbove, Unborn
    <3> QED BY <3>1, <3>2, <3>3, <3>4 DEF Loose
  <2>3. \A v \in Workers, u \in Threads : thread'[v][u].pc \in Claimed =>
          thread'[v][u].pc = thread[v][u].pc /\ thread'[v][u].id = thread[v][u].id
    BY <1>3, <1>5 DEF Claimed
  <2>4. key' = key \/ (key' = None /\ key \in RunIds /\ Loose(key))
    BY <1>1, <2>2 DEF KeyReleased
  <2>5. \A v \in Workers : svc'[v].desired = svc[v].desired
    BY <1>2, <1>4
  <2>6. StopsAlone'
    BY <1>1, <1>3, <1>5, <2>1, <2>5 DEF StopsAlone, StopAlone, StopSteps, StartSteps, Threads
  <2>7. \A i \in RunIds : Attended(i)' => Attended(i)
    BY <1>7 DEF Attended
  <2>8. Signalled'
    <3> SUFFICES ASSUME NEW v \in Workers, thread'[v]["request"].pc \in {"drop", "forget"},
                        NEW i \in RunIds, Attended(i)', run'[i].mine
                 PROVE  run'[i].by # v
      BY DEF Signalled
    <3>1. thread[v]["request"].pc \in {"drop", "forget"}
      BY <1>1, <1>5 DEF Threads
    <3> QED BY <1>7, <2>7, <3>1 DEF Signalled
  <2>9. ProcIsMine'
    <3> SUFFICES ASSUME NEW v \in Workers, NEW i \in RunIds,
                        Attended(i)', run'[i].mine, run'[i].by = v
                 PROVE  svc'[v].proc = i
      BY DEF ProcIsMine
    <3>1. Attended(i) /\ run[i].mine /\ run[i].by = v
      BY <1>7, <2>7
    <3>2. v # w /\ svc[v].proc = i
      BY <2>1, <3>1 DEF ProcIsMine
    <3> QED BY <1>4, <3>2
  <2>10. \A v \in Workers : svc'[v].lease \in {svc[v].lease, None}
    BY <1>2, <1>4
  <2>11. \A i \in RunIds :
           /\ \/ run'[i].owned = run[i].owned /\ run'[i].beats = run[i].beats
              \/ Loose(i)
           /\ i > used => run'[i] = run[i]
    <3> SUFFICES ASSUME NEW i \in RunIds, i = id
                 PROVE  Loose(i) /\ ~(i > used)
      BY <1>7
    <3>1. id # None
      BY DEF RunIds, None
    <3> QED BY <2>2, <3>1
  <2> QED BY <1>1, <1>7, <2>3, <2>4, <2>6, <2>8, <2>9, <2>10, <2>11, ReleaseKeeps
<1> QED BY <1>1, <1>8, <1>9

\* A reader thread releases the claim of its own run, whatever the record holds by now.
LEMMA PumpReleasesKeeps ==
  ASSUME SupervisorInv, NEW id \in RunIds, PumpReleases(id)
  PROVE  SupervisorInv'
<1> USE DEF SupervisorInv, Smooth
<1> DEFINE w == run[id].by
<1>1. /\ UNCHANGED <<thread, used, redis, blips, crossed>>
      /\ run[id].pump = "release"
      /\ key' = KeyReleased(id)
      /\ run' = [ReleaseOf(run, id) EXCEPT ![id].pump = "decide"]
      /\ svc' = svc \/ svc' = [svc EXCEPT ![w].lease = None]
  BY DEF PumpReleases, countVars
<1>2. /\ run' \in [RunIds -> RunRecords]
      /\ \A i \in RunIds : i # id => run'[i] = run[i]
      /\ run'[id].by = run[id].by /\ run'[id].mine = run[id].mine
      /\ run'[id].orphan = run[id].orphan /\ run'[id].st = run[id].st
      /\ run'[id].pump = "decide"
  BY <1>1, Released
<1> HIDE DEF w
<1>3. /\ svc' \in [Workers -> ServiceRecords]
      /\ \A v \in Workers : /\ svc'[v].proc = svc[v].proc
                            /\ svc'[v].desired = svc[v].desired
                            /\ svc'[v].lease \in {svc[v].lease, None}
  <2>1. CASE svc' = svc
    BY <2>1 DEF SupervisorShapes
  <2>2. CASE w \in Workers /\ svc' = [svc EXCEPT ![w].lease = None]
    <3> DEFINE s == [svc[w] EXCEPT !.lease = None]
    <3>1. svc[w] \in ServiceRecords
      BY <2>2 DEF SupervisorShapes
    <3>2. /\ s \in ServiceRecords /\ s.proc = svc[w].proc /\ s.lease = None
          /\ s.desired = svc[w].desired
      BY <3>1 DEF ServiceRecords
    <3>3. svc' = [svc EXCEPT ![w] = s]
      BY <2>2 DEF SupervisorShapes
    <3> HIDE DEF s
    <3> QED BY <2>2, <3>2, <3>3, ServiceSet
  <2>3. CASE w \notin Workers
    <3>1. svc' = svc
      BY <1>1, <2>3 DEF SupervisorShapes
    <3> QED BY <2>1, <3>1
  <2> QED BY <1>1, <2>1, <2>2, <2>3
<1>4. key' \in RunIds \union {None}
  BY <1>1 DEF KeyReleased, SupervisorShapes
<1>5. SupervisorShapes'
  BY <1>1, <1>2, <1>3, <1>4 DEF SupervisorShapes
<1>6. ASSUME Core PROVE Core'
  <2> USE <1>6 DEF Core
  <2>1. run[id].st \in {"quiet", "dead"} /\ ~(id > used)
    BY <1>1 DEF PumpsRelease, FreshAbove, Unborn
  <2>2. Loose(id)
    BY <2>1 DEF Loose, Attended, Claimants
  <2>3. key' = key \/ (key' = None /\ key \in RunIds /\ Loose(key))
    BY <1>1, <2>2 DEF KeyReleased
  <2>4. \A i \in RunIds :
           /\ run'[i].by = run[i].by /\ run'[i].mine = run[i].mine
           /\ run'[i].orphan = run[i].orphan /\ run'[i].st = run[i].st
           /\ \/ run'[i].owned = run[i].owned /\ run'[i].beats = run[i].beats
              \/ Loose(i)
           /\ run'[i].pump = "release" => run[i].pump = "release"
           /\ i > used => run'[i] = run[i]
    BY <1>2, <2>1, <2>2
  <2>5. StopsAlone' /\ Signalled' /\ ProcIsMine'
    BY <1>1, <1>3, <2>4 DEF StopsAlone, StopAlone, Signalled, ProcIsMine, Attended
  <2> QED BY <1>1, <1>3, <2>3, <2>4, <2>5, ReleaseKeeps
<1> QED BY <1>1, <1>5, <1>6

-----------------------------------------------------------------------------
(* A worker that forgets the service, or dies *)

\* Its record is blank, no thread of it is past the gate or stops anything, and
\* what it ran is nobody's.
LEMMA LeftKeeps ==
  ASSUME SupervisorShapes, Core, NEW w \in Workers,
         svc'[w].lease = None,
         \A v \in Workers : v # w => svc'[v] = svc[v],
         \A t \in Threads :
           thread'[w][t].pc \notin Claimed \union StopSteps \union {"forget"},
         \A v \in Workers : v # w => thread'[v] = thread[v],
         \A id \in RunIds :
           /\ run'[id].by = run[id].by
           /\ run'[id].st = run[id].st
           /\ run[id].by # w => run'[id] = run[id]
           /\ run[id].by = w => /\ ~run'[id].mine
                                /\ run'[id].pump = "release" => run[id].pump = "release"
                                /\ Attended(id)' => Attended(id) /\ run'[id].owned = run[id].owned
                                                    /\ run'[id].beats = run[id].beats
           /\ id > used => run'[id] = run[id],
         UNCHANGED <<used, key, redis>>
  PROVE  Core'
<1> USE DEF Core
<1>1. \A id \in RunIds : Attended(id)' => /\ Attended(id) /\ run'[id].owned = run[id].owned
                                          /\ run'[id].beats = run[id].beats
  BY DEF Attended
<1>2. FreshAbove'
  BY DEF FreshAbove
<1>3. StopsAlone'
  BY DEF StopsAlone, StopAlone, StopSteps, Threads
<1>4. LeaseIsMine'
  <2>1. \A v \in Workers : svc[v].lease \in RunIds \union {None}
    BY DEF SupervisorShapes, ServiceRecords
  <2> QED BY <2>1 DEF LeaseIsMine
<1>5. ProcIsMine'
  BY <1>1 DEF ProcIsMine
<1>6. Signalled'
  <2> SUFFICES ASSUME NEW v \in Workers, thread'[v]["request"].pc \in {"drop", "forget"},
                      NEW id \in RunIds, Attended(id)', run'[id].mine
               PROVE  run'[id].by # v
    BY DEF Signalled
  <2>1. v # w
    BY DEF Threads, StopSteps
  <2> QED BY <1>1, <2>1 DEF Signalled
<1>7. PumpsRelease'
  BY DEF PumpsRelease
<1>8. \A v \in Workers, t \in Threads : thread'[v][t].pc \in Claimed =>
        v # w /\ thread'[v][t] = thread[v][t]
  OBVIOUS
<1>9. Claimants'
  BY <1>8 DEF Claimants
<1>10. OneClaimant'
  BY <1>8 DEF OneClaimant
<1>11. AfterReap'
  BY <1>8 DEF AfterReap, Claimed
<1>12. AttendedHasKey'
  BY <1>1 DEF AttendedHasKey
<1>13. AtMostOne'
  BY DEF AtMostOne
<1> QED BY <1>2, <1>3, <1>4, <1>5, <1>6, <1>7, <1>9, <1>10, <1>11, <1>12, <1>13

\* The record goes, the processes stay.
LEMMA RunsForgotten ==
  ASSUME SupervisorShapes, NEW w \in Workers, run' = Forgotten(w)
  PROVE  /\ run' \in [RunIds -> RunRecords]
         /\ \A id \in RunIds :
              /\ run[id].by # w => run'[id] = run[id]
              /\ run[id].by = w => ~run'[id].mine
              /\ run[id] = Unborn => run'[id] = run[id]
              /\ run'[id].by = run[id].by /\ run'[id].st = run[id].st
              /\ run'[id].orphan = run[id].orphan /\ run'[id].pump = run[id].pump
              /\ run'[id].owned = run[id].owned /\ run'[id].beats = run[id].beats
<1> SUFFICES ASSUME NEW id \in RunIds
    PROVE  /\ run'[id] \in RunRecords
           /\ run[id].by # w => run'[id] = run[id]
           /\ run[id].by = w => ~run'[id].mine
           /\ run[id] = Unborn => run'[id] = run[id]
           /\ run'[id].by = run[id].by /\ run'[id].st = run[id].st
           /\ run'[id].orphan = run[id].orphan /\ run'[id].pump = run[id].pump
           /\ run'[id].owned = run[id].owned /\ run'[id].beats = run[id].beats
  <2>1. run' = [i \in RunIds |-> run'[i]]
    BY DEF Forgotten
  <2> QED BY <2>1
<1> DEFINE r == [run[id] EXCEPT !.mine = FALSE]
<1>1. run[id] \in RunRecords
  BY DEF SupervisorShapes
<1>2. /\ r \in RunRecords /\ ~r.mine /\ r.by = run[id].by /\ r.st = run[id].st
      /\ r.orphan = run[id].orphan /\ r.pump = run[id].pump
      /\ r.owned = run[id].owned /\ r.beats = run[id].beats
      /\ run[id].mine = FALSE => r = run[id]
  BY <1>1 DEF RunRecords
<1>3. run'[id] = IF run[id].by = w THEN r ELSE run[id]
  BY DEF Forgotten
<1> HIDE DEF r
<1> QED BY <1>1, <1>2, <1>3 DEF Unborn

\* A record that is dropped takes no lease and no process with it: both are gone.
LEMMA ForgetKeeps ==
  ASSUME SupervisorInv, NEW w \in Workers, Forget(w) \/ Detach(w)
  PROVE  SupervisorInv'
<1> USE DEF SupervisorInv, Smooth
<1>1. /\ UNCHANGED <<used, key, redis, blips, crossed>>
      /\ svc' = [svc EXCEPT ![w] = NewService]
      /\ run' = Forgotten(w)
  BY DEF Forget, Detach, coordVars, countVars
<1>2. NewService \in ServiceRecords /\ NewService.lease = None
  BY DEF NewService, ServiceRecords
<1>3. svc' \in [Workers -> ServiceRecords]
  BY <1>1, <1>2, ServiceSet
<1>4. svc'[w] = NewService
  BY <1>1, <1>2, ServiceSet
<1>5. \A v \in Workers : v # w => svc'[v] = svc[v]
  BY <1>1, <1>2, ServiceSet
<1>6. /\ thread' \in [Workers -> [Threads -> ThreadRecords]]
      /\ \A v \in Workers : v # w => thread'[v] = thread[v]
  <2>1. CASE Forget(w)
    <3>1. Finish(w, "request") /\ "request" \in Threads
      BY <2>1 DEF Forget, Threads
    <3>2. thread' \in [Workers -> [Threads -> ThreadRecords]]
      BY <3>1, ThreadEnds
    <3> QED BY <3>1, <3>2 DEF Finish, SupervisorShapes
  <2>2. CASE Detach(w)
    BY <2>2 DEF Detach, SupervisorShapes
  <2> QED BY <2>1, <2>2
<1>7. ASSUME NEW t \in Threads, Core
      PROVE  thread'[w][t].pc \notin Claimed \union StopSteps \union {"forget"}
  <2>1. t = "request" \/ t = "timer"
    BY DEF Threads
  <2>2. CASE Forget(w)
    <3>1. /\ thread[w]["request"].pc = "forget" /\ thread'[w]["request"] = Idle
          /\ thread'[w]["timer"] = thread[w]["timer"]
      BY <2>2 DEF Forget, Finish, SupervisorShapes, Threads
    <3>2. thread[w]["timer"].pc \notin StartSteps \union StopSteps \union {"forget"}
      BY <1>7, <3>1 DEF Core, StopsAlone, StopAlone
    <3> QED BY <2>1, <3>1, <3>2 DEF Claimed, StartSteps, StopSteps, Idle
  <2>3. CASE Detach(w)
    <3>1. thread' = thread /\ thread[w][t].pc = "idle"
      BY <2>3 DEF Detach, Idle
    <3> QED BY <3>1 DEF Claimed, StopSteps
  <2> QED BY <2>2, <2>3
<1>8. /\ run' \in [RunIds -> RunRecords]
      /\ \A id \in RunIds :
           /\ run[id].by # w => run'[id] = run[id]
           /\ run[id].by = w => ~run'[id].mine
           /\ run[id] = Unborn => run'[id] = run[id]
           /\ run'[id].by = run[id].by /\ run'[id].st = run[id].st
           /\ run'[id].orphan = run[id].orphan /\ run'[id].pump = run[id].pump
           /\ run'[id].owned = run[id].owned /\ run'[id].beats = run[id].beats
  BY <1>1, RunsForgotten
<1>9. SupervisorShapes'
  BY <1>1, <1>3, <1>6, <1>8 DEF SupervisorShapes
<1>10. ASSUME Core PROVE Core'
  <2>1. \A id \in RunIds : id > used => run'[id] = run[id]
    BY <1>8, <1>10 DEF Core, FreshAbove
  <2>2. \A id \in RunIds : Attended(id)' => Attended(id)
    BY <1>8 DEF Attended
  <2>3. svc'[w].lease = None
    BY <1>2, <1>4
  <2>4. \A t \in Threads :
          thread'[w][t].pc \notin Claimed \union StopSteps \union {"forget"}
    BY <1>7, <1>10
  <2> QED BY <1>1, <1>5, <1>6, <1>8, <1>10, <2>1, <2>2, <2>3, <2>4, LeftKeeps
<1> QED BY <1>1, <1>9, <1>10

\* A dead worker's processes are orphans, and its heartbeats have stopped.
LEMMA WorkerDiesKeeps ==
  ASSUME SupervisorInv, NEW w \in Workers, WorkerDies(w)
  PROVE  SupervisorInv'
<1> USE DEF SupervisorInv, Smooth
<1>1. /\ UNCHANGED <<used, key, redis, blips, crossed>>
      /\ svc' = [svc EXCEPT ![w] = NewService]
      /\ thread' = [thread EXCEPT ![w] = [t \in Threads |-> Idle]]
  BY DEF WorkerDies, coordVars
<1>2. NewService \in ServiceRecords /\ NewService.lease = None
  BY DEF NewService, ServiceRecords
<1>3. Idle \in ThreadRecords /\ Idle.pc = "idle"
  BY DEF Idle, ThreadRecords, Pcs
<1>4. svc' \in [Workers -> ServiceRecords]
  BY <1>1, <1>2, ServiceSet
<1>5. svc'[w] = NewService /\ \A v \in Workers : v # w => svc'[v] = svc[v]
  BY <1>1 DEF SupervisorShapes
<1>6. /\ thread' \in [Workers -> [Threads -> ThreadRecords]]
      /\ \A t \in Threads : thread'[w][t] = Idle
      /\ \A v \in Workers : v # w => thread'[v] = thread[v]
  BY <1>1, <1>3 DEF SupervisorShapes
<1>7. /\ run' \in [RunIds -> RunRecords]
      /\ \A id \in RunIds :
           /\ run'[id].by = run[id].by /\ run'[id].st = run[id].st
           /\ run[id].by # w => run'[id] = run[id]
           /\ run[id].by = w => /\ ~run'[id].mine /\ run'[id].pump = "done"
                                /\ ~Attended(id)'
  <2> SUFFICES ASSUME NEW id \in RunIds
      PROVE  /\ run'[id] \in RunRecords
             /\ run'[id].by = run[id].by /\ run'[id].st = run[id].st
             /\ run[id].by # w => run'[id] = run[id]
             /\ run[id].by = w => /\ ~run'[id].mine /\ run'[id].pump = "done"
                                  /\ ~Attended(id)'
    <3>1. run' = [i \in RunIds |-> run'[i]]
      BY DEF WorkerDies
    <3> QED BY <3>1
  <2> DEFINE r == [run[id] EXCEPT !.beats = FALSE, !.mine = FALSE, !.pump = "done",
                                  !.owned = FALSE, !.orphan = Alive(id)]
  <2>1. run[id] \in RunRecords /\ Alive(id) \in BOOLEAN
    BY DEF SupervisorShapes, Alive
  <2>2. /\ r \in RunRecords /\ ~r.mine /\ r.pump = "done" /\ r.by = run[id].by
        /\ r.st = run[id].st /\ r.orphan = Alive(id)
    <3> DEFINE a == Alive(id)
    <3>1. a \in BOOLEAN
      BY <2>1
    <3> HIDE DEF a
    <3>2. LET q == [run[id] EXCEPT !.beats = FALSE, !.mine = FALSE, !.pump = "done",
                                   !.owned = FALSE, !.orphan = a]
          IN  /\ q \in RunRecords /\ ~q.mine /\ q.pump = "done" /\ q.by = run[id].by
              /\ q.st = run[id].st /\ q.orphan = a
      BY <2>1, <3>1 DEF RunRecords
    <3> QED BY <3>2 DEF a
  <2>3. run'[id] = IF run[id].by = w THEN r ELSE run[id]
    BY DEF WorkerDies
  <2>4. run[id].st = "alive" => Alive(id)
    BY DEF Alive, RunIds, None
  <2> HIDE DEF r
  <2> QED BY <2>1, <2>2, <2>3, <2>4 DEF Attended
<1>8. SupervisorShapes'
  BY <1>1, <1>4, <1>6, <1>7 DEF SupervisorShapes
<1>9. ASSUME Core PROVE Core'
  <2> USE <1>9
  <2>1. svc'[w].lease = None
    BY <1>2, <1>5
  <2>2. \A id \in RunIds : id > used => run'[id] = run[id]
    <3>1. \A id \in RunIds : id > used => run[id].by # w
      BY SupervisorAssumption DEF Core, FreshAbove, Unborn, None
    <3> QED BY <1>7, <3>1
  <2>3. \A t \in Threads :
          thread'[w][t].pc \notin Claimed \union StopSteps \union {"forget"}
    BY <1>3, <1>6 DEF Claimed, StopSteps
  <2> QED BY <1>1, <1>5, <1>6, <1>7, <2>1, <2>2, <2>3, LeftKeeps
<1> QED BY <1>1, <1>8, <1>9

-----------------------------------------------------------------------------
(* The theorems *)

\* Every step keeps the invariant, one action at a time.
LEMMA StepSupervisor ==
  ASSUME SupervisorInv, [Next]_vars
  PROVE  SupervisorInv'
<1>1. ASSUME NEW w \in Workers, NEW t \in Threads, StartStep(w, t) \/ SpawnFails(w, t)
      PROVE  SupervisorInv'
  BY <1>1, EnterKeeps, CheckKeeps, ClaimWonKeeps, ReapKeeps, SpawnKeeps, SpawnFailsKeeps
     DEF StartStep
<1>2. ASSUME NEW w \in Workers, StopStep(w) \/ Detach(w) PROVE SupervisorInv'
  BY <1>2, HaltKeeps, SignalKeeps, DropKeeps, ForgetKeeps DEF StopStep
<1>3. ASSUME NEW w \in Workers,
             \/ TimerFires(w) \/ Install(w) \/ Attach(w) \/ ConfigSaved(w)
             \/ WorkerDies(w) \/ WorkerReturns(w)
      PROVE  SupervisorInv'
  BY <1>3, TimerKeeps, InstallKeeps, ConfigSavedKeeps, WorkerDiesKeeps, ReturnsKeeps
<1>4. ASSUME NEW w \in Workers, NEW what \in {"start", "stop", "restart", "uninstall"},
             Request(w, what)
      PROVE  SupervisorInv'
  BY <1>4, RequestKeeps
<1>5. ASSUME NEW id \in RunIds,
             PumpStep(id) \/ Exits(id) \/ ClosesOutput(id) \/ HeartbeatLost(id)
      PROVE  SupervisorInv'
  BY <1>5, PumpReleasesKeeps, PumpKeeps, ExitsKeeps DEF PumpStep
<1>6. CASE KeyExpires \/ RedisGoes \/ RedisReturns
  BY <1>6, KeyExpiresKeeps, ReturnsKeeps
<1>7. CASE UNCHANGED vars
  BY <1>7 DEF vars, coordVars, countVars, SupervisorInv, SupervisorShapes, Smooth, Core, FreshAbove,
     StopsAlone, StopAlone, LeaseIsMine, ProcIsMine, Signalled, PumpsRelease, Claimants,
     OneClaimant,
     AfterReap, AttendedHasKey, AtMostOne, Attended
<1> QED BY <1>1, <1>2, <1>3, <1>4, <1>5, <1>6, <1>7 DEF Next

\* While Redis has answered throughout, who is past the ownership gate has the
\* key, the reaping leaves nothing alive and only then is a process started.
THEOREM SupervisorCorrect == Spec => []SupervisorInv
<1>1. Init => SupervisorInv
  BY InitSupervisor
<1>2. SupervisorInv /\ [Next]_vars => SupervisorInv'
  BY StepSupervisor
<1> QED BY <1>1, <1>2, PTL DEF Spec

\* Two copies of the service never run side by side, whatever workers start, die
\* and take over (_acquire_lease and _reap_orphan in start()).
THEOREM OneCopyHolds == Spec => []OneCopy
<1>1. SupervisorInv => OneCopy
  <2> SUFFICES ASSUME AtMostOne
               PROVE  Cardinality({id \in RunIds : run[id].st = "alive"}) <= 1
    BY DEF SupervisorInv, Core, OneCopy
  <2> DEFINE live == {id \in RunIds : run[id].st = "alive"}
  <2> SUFFICES Cardinality(live) <= 1
    OBVIOUS
  <2>1. CASE live = {}
    BY <2>1, FS_EmptySet
  <2>2. CASE live # {}
    <3>1. PICK i \in live : TRUE
      BY <2>2
    <3>2. live = {i}
      BY <3>1 DEF AtMostOne
    <3> HIDE DEF live
    <3>3. Cardinality({i}) = 1
      BY FS_Singleton
    <3> QED BY <3>2, <3>3
  <2> QED BY <2>1, <2>2
<1> QED BY <1>1, SupervisorCorrect, PTL

\* A process its worker attends to keeps its key and its claim, whatever stragglers
\* release (_pump releases the lease captured at spawn, and never svc.lease).
THEOREM ClaimFollows == Spec => []ClaimFollowsProcess
<1>1. SupervisorInv => ClaimFollowsProcess
  BY DEF SupervisorInv, Core, AttendedHasKey, Attended, ClaimFollowsProcess
<1> QED BY <1>1, SupervisorCorrect, PTL

-----------------------------------------------------------------------------
(* The restart policy.  It is a matter of each worker by itself: every conjunct of the *)
(* invariant but two speaks of one worker's record, threads and runs, and no step      *)
(* disturbs those of two workers.                                                      *)

InStart == {"enter", "check", "claim", "defer", "reap", "spawn"}
Entered == {"check", "claim", "defer", "reap", "spawn"}

LeaseInv == SupervisorShapes /\ (blips = 0 => Core)

PolicyShapes ==
  /\ \A w \in Workers : svc[w].waits <= RetryBudget
  /\ unattended \in [Workers -> Nat]
  /\ raced \in [Workers -> BOOLEAN]
  /\ launchFailed \in [Workers -> BOOLEAN]
  /\ stopped \in [Workers -> BOOLEAN]

\* A request's start is deliberate, a timer's never.
Deliberate(w) ==
  /\ ~thread[w]["timer"].manual
  /\ thread[w]["request"].pc \in InStart => thread[w]["request"].manual

\* Whoever is past the gate has a run of its own, not born yet.
OwnRun(w, t) ==
  thread[w][t].pc \in Claimed =>
    /\ thread[w][t].id \in RunIds
    /\ run[thread[w][t].id].st = "unborn" /\ run[thread[w][t].id].by = w
    /\ run[thread[w][t].id].mine /\ ~run[thread[w][t].id].orphan
    /\ run[thread[w][t].id].pump = "none"

RunsApart(w) ==
  thread[w]["request"].pc \in Claimed /\ thread[w]["timer"].pc \in Claimed
    => thread[w]["request"].id # thread[w]["timer"].id

\* The exit of w's process is still to come, or to be decided on.
Open(w) ==
  svc[w].proc # None /\ run[svc[w].proc].pump \in {"reading", "release", "decide"}

\* A respawn that is about to be armed.
Arming(w) == \E id \in RunIds : run[id].by = w /\ run[id].mine /\ run[id].pump = "schedule"

\* Its process will be missed, or closed its output and is nobody's business.
Watched(w) ==
  /\ svc[w].proc # None
  /\ \/ run[svc[w].proc].pump \in {"reading", "release", "decide", "schedule"}
     \/ run[svc[w].proc].closed

\* A record's process is of its worker, and read until it ends or closes its output.
ProcSound(w) ==
  svc[w].proc # None =>
    /\ run[svc[w].proc].by = w /\ run[svc[w].proc].mine /\ ~run[svc[w].proc].orphan
    /\ run[svc[w].proc].st # "unborn"
    /\ run[svc[w].proc].st = "alive" <=> run[svc[w].proc].pump = "reading"
    /\ run[svc[w].proc].st = "quiet" => run[svc[w].proc].closed
    /\ Open(w) => svc[w].state # "gave_up"

\* A start that is wanted and not given up has somebody to see to it.
SeenTo(w) ==
  svc[w].desired = "running" /\ ~launchFailed[w] /\ svc[w].state \in {"running", "backing_off"} =>
    \/ svc[w].timer
    \/ \E t \in Threads : thread[w][t].pc \in InStart
    \/ Watched(w)

\* What the timer's thread goes by stays true until it is done, unless starts raced.
TimerAlone(w) ==
  ~raced[w] /\ thread[w]["timer"].pc \in InStart =>
    /\ ~svc[w].timer /\ ~Arming(w) /\ ~Open(w)
    /\ svc[w].state # "gave_up" /\ svc[w].fast < GiveUpAfter
    /\ svc[w].desired = "running" \/ thread[w]["timer"].pc = "defer"
    /\ svc[w].desired = "running" => unattended[w] <= svc[w].fast
    /\ thread[w]["request"].pc \notin Entered

\* A deliberate start has a full budget, and if the run before it ended meanwhile
\* and was given up, nothing is armed.
RequestFresh(w) ==
  ~raced[w] /\ thread[w]["request"].pc \in Entered =>
    /\ unattended[w] = 0
    /\ svc[w].state # "gave_up" => svc[w].fast < GiveUpAfter
    /\ svc[w].state = "gave_up" \/ Open(w) => ~svc[w].timer /\ ~Arming(w)

\* Every respawn has been paid for by the crash before it.
Paid(w) ==
  ~raced[w] =>
    /\ unattended[w] <= GiveUpAfter
    /\ svc[w].desired = "running" => unattended[w] <= svc[w].fast + 1
    /\ svc[w].desired = "running" /\ (svc[w].timer \/ Arming(w)) => unattended[w] <= svc[w].fast
    /\ svc[w].timer \/ Arming(w) => svc[w].state = "gave_up" \/ svc[w].fast < GiveUpAfter

\* A deliberate stop has left nothing, and whatever comes next is a deliberate start.
StopHeld(w) ==
  blips = 0 /\ stopped[w] =>
    /\ svc[w].desired = "stopped"
    /\ thread[w]["timer"].pc \notin StartSteps
    /\ thread[w]["request"].pc \in StartSteps => thread[w]["request"].pc = "enter"
    /\ \A id \in RunIds : Attended(id) /\ run[id].mine => run[id].by # w

Policy(w) ==
  /\ StopAlone(w) /\ Deliberate(w) /\ (\A t \in Threads : OwnRun(w, t)) /\ RunsApart(w)
  /\ ProcSound(w) /\ SeenTo(w) /\ TimerAlone(w) /\ RequestFresh(w) /\ Paid(w) /\ StopHeld(w)

PolicyInv ==
  /\ LeaseInv /\ PolicyShapes
  /\ FreshAbove
  /\ \A w \in Workers : Policy(w)

-----------------------------------------------------------------------------
(* What a step of one worker leaves alone *)

\* w's runs are where they were; an orphan of a dead worker may end.
RunsStand(w) ==
  \A id \in RunIds :
    /\ run'[id].by = w <=> run[id].by = w
    /\ run[id].by = w =>
         /\ run'[id].mine = run[id].mine /\ run'[id].pump = run[id].pump
         /\ run'[id].closed = run[id].closed /\ run'[id].orphan = run[id].orphan
         /\ run'[id].st = run[id].st \/ run[id].orphan

HistoryStands(w) ==
  /\ unattended'[w] = unattended[w] /\ raced'[w] = raced[w]
  /\ launchFailed'[w] = launchFailed[w] /\ stopped'[w] = stopped[w]

Untouched(w) ==
  /\ RunsStand(w) /\ HistoryStands(w) /\ svc'[w] = svc[w]
  /\ \A t \in Threads : thread'[w][t] = thread[w][t]

\* What is read off the runs of a record stands as long as they do.
LEMMA RunsStandFacts ==
  ASSUME PolicyInv, NEW w \in Workers, RunsStand(w), svc'[w].proc = svc[w].proc
  PROVE  /\ Open(w)' <=> Open(w)
         /\ Arming(w)' <=> Arming(w)
         /\ Watched(w)' <=> Watched(w)
<1>1. /\ svc[w] \in ServiceRecords /\ svc[w].proc \in RunIds \union {None}
      /\ ProcSound(w)
  BY DEF PolicyInv, LeaseInv, SupervisorShapes, ServiceRecords, Policy
<1>2. svc[w].proc # None => /\ run'[svc[w].proc].pump = run[svc[w].proc].pump
                            /\ run'[svc[w].proc].closed = run[svc[w].proc].closed
  BY <1>1 DEF ProcSound, RunsStand
<1>3. Arming(w)' <=> Arming(w)
  BY DEF Arming, RunsStand
<1> QED BY <1>2, <1>3 DEF Open, Watched

\* Runs that stand keep what the invariant says of a process and of new runs.
LEMMA ProcStands ==
  ASSUME PolicyInv, NEW w \in Workers, RunsStand(w), svc'[w].proc = svc[w].proc,
         Open(w) /\ svc[w].state # "gave_up" => svc'[w].state # "gave_up"
  PROVE  ProcSound(w)'
<1>1. svc[w].proc \in RunIds \union {None} /\ ProcSound(w)
  BY DEF PolicyInv, LeaseInv, SupervisorShapes, ServiceRecords, Policy
<1>2. Open(w)' <=> Open(w)
  BY RunsStandFacts
<1> QED BY <1>1, <1>2 DEF ProcSound, RunsStand

\* The run of a thread past the gate is as blank as it was.
LEMMA OwnRunStands ==
  ASSUME PolicyInv, NEW w \in Workers, NEW t \in Threads, RunsStand(w),
         thread'[w][t].pc \in Claimed =>
           thread[w][t].pc \in Claimed /\ thread'[w][t].id = thread[w][t].id
  PROVE  OwnRun(w, t)'
<1>1. OwnRun(w, t)
  BY DEF PolicyInv, Policy
<1> QED BY <1>1 DEF OwnRun, RunsStand

\* A worker with no process it attends to has none after runs that stand.
LEMMA AttendedStands ==
  ASSUME NEW w \in Workers, RunsStand(w),
         \A id \in RunIds : Attended(id) /\ run[id].mine => run[id].by # w
  PROVE  \A id \in RunIds : Attended(id)' /\ run'[id].mine => run'[id].by # w
BY DEF RunsStand, Attended

\* A worker nobody touched keeps its share of the invariant.
LEMMA UntouchedKeeps ==
  ASSUME PolicyInv, NEW w \in Workers, Untouched(w), blips' = 0 => blips = 0
  PROVE  Policy(w)'
<1>1. Policy(w) /\ RunsStand(w)
  BY DEF PolicyInv, Untouched
<1>2. /\ Open(w)' <=> Open(w)
      /\ Arming(w)' <=> Arming(w)
      /\ Watched(w)' <=> Watched(w)
  BY RunsStandFacts DEF Untouched
<1>3. StopAlone(w)' /\ Deliberate(w)' /\ RunsApart(w)'
  BY <1>1 DEF Policy, Untouched, StopAlone, Deliberate, RunsApart, Threads
<1>4. \A t \in Threads : OwnRun(w, t)'
  BY OwnRunStands DEF Untouched
<1>5. ProcSound(w)'
  BY ProcStands DEF Untouched
<1>6. SeenTo(w)' /\ TimerAlone(w)' /\ RequestFresh(w)' /\ Paid(w)'
  BY <1>1, <1>2 DEF Policy, Untouched, HistoryStands, SeenTo, TimerAlone, RequestFresh, Paid,
     Threads
<1>7. StopHeld(w)'
  <2>1. (\A id \in RunIds : Attended(id) /\ run[id].mine => run[id].by # w) =>
          \A id \in RunIds : Attended(id)' /\ run'[id].mine => run'[id].by # w
    BY <1>1, AttendedStands
  <2> QED BY <1>1, <2>1 DEF Policy, Untouched, HistoryStands, StopHeld, Threads
<1> QED BY <1>3, <1>4, <1>5, <1>6, <1>7 DEF Policy

\* A step of one worker is about that worker alone.
LEMMA OneWorkerSteps ==
  ASSUME PolicyInv, LeaseInv', PolicyShapes', FreshAbove',
         NEW w \in Workers, Policy(w)', blips' = 0 => blips = 0,
         \A v \in Workers : v # w => Untouched(v)
  PROVE  PolicyInv'
<1>1. ASSUME NEW v \in Workers PROVE Policy(v)'
  BY UntouchedKeeps
<1> QED BY <1>1 DEF PolicyInv

\* Nothing a worker goes by changes.
LEMMA NobodySteps ==
  ASSUME PolicyInv, LeaseInv', PolicyShapes', FreshAbove', blips' = 0 => blips = 0,
         \A v \in Workers : Untouched(v)
  PROVE  PolicyInv'
BY UntouchedKeeps DEF PolicyInv

\* One run changes, and it is another worker's.
LEMMA OneRunSteps ==
  ASSUME PolicyInv, NEW id \in RunIds, NEW r, run' = [run EXCEPT ![id] = r],
         NEW v \in Workers, run[id].by # v, r.by # v
  PROVE  RunsStand(v)
<1>1. run'[id] = r /\ \A i \in RunIds : i # id => run'[i] = run[i]
  BY DEF PolicyInv, LeaseInv, SupervisorShapes
<1> QED BY <1>1 DEF RunsStand

\* One run changes, and nobody decides about a respawn.
LEMMA OneRunArms ==
  ASSUME PolicyInv, NEW id \in RunIds, NEW r, run' = [run EXCEPT ![id] = r],
         NEW w \in Workers, run[id].pump # "schedule", r.pump # "schedule"
  PROVE  Arming(w)' <=> Arming(w)
<1>1. run'[id] = r /\ \A i \in RunIds : i # id => run'[i] = run[i]
  BY DEF PolicyInv, LeaseInv, SupervisorShapes
<1> QED BY <1>1 DEF Arming

-----------------------------------------------------------------------------
(* start() *)

\* A deliberate start pays the bill and cancels the timer; a respawn finds it paid.
LEMMA EnterPolicy ==
  ASSUME PolicyInv, LeaseInv', NEW w \in Workers, NEW t \in Threads, Enter(w, t)
  PROVE  PolicyInv'
<1> DEFINE m == thread[w][t].manual
           R == thread[w]["request"]
           T == thread[w]["timer"]
<1>1. /\ run' = run /\ blips' = blips /\ used' = used
      /\ thread[w][t].pc = "enter" /\ Goto(w, t, "check")
  BY DEF Enter, countVars
<1>2. /\ Policy(w) /\ PolicyShapes /\ SupervisorShapes /\ SupervisorShapes'
      /\ svc[w] \in ServiceRecords /\ svc'[w] \in ServiceRecords
  BY DEF PolicyInv, LeaseInv, SupervisorShapes
<1>3. /\ thread'[w][t].pc = "check" /\ thread'[w][t].manual = m
      /\ \A v \in Workers, u \in Threads :
           v # w \/ u # t => thread'[v][u] = thread[v][u]
  BY <1>1, <1>2, ThreadGoes DEF Pcs, StartSteps
<1>4. /\ svc'[w].desired = "running" /\ ~svc'[w].timer /\ svc'[w].proc = svc[w].proc
      /\ m => svc'[w].fast = 0 /\ svc'[w].waits = 0 /\ svc'[w].state # "gave_up"
      /\ ~m => svc'[w].fast = svc[w].fast /\ svc'[w].waits = svc[w].waits
               /\ svc'[w].state = svc[w].state
      /\ svc[w].state # "gave_up" => svc'[w].state # "gave_up"
      /\ \A v \in Workers : v # w => svc'[v] = svc[v]
  BY <1>2 DEF Enter, SupervisorShapes, ServiceRecords
<1>5. /\ unattended'[w] = IF m THEN 0 ELSE unattended[w]
      /\ raced'[w] <=> Racing(w, t) \/ (raced[w] /\ ~m)
      /\ stopped'[w] <=> stopped[w] /\ ~m
      /\ \A v \in Workers : v # w => HistoryStands(v)
  BY <1>2 DEF Enter, PolicyShapes, HistoryStands
<1>6. PolicyShapes'
  <2>1. svc'[w].waits <= RetryBudget
    BY <1>2, <1>4, SupervisorAssumption DEF PolicyShapes
  <2>2. /\ unattended' \in [Workers -> Nat] /\ raced' \in [Workers -> BOOLEAN]
        /\ stopped' \in [Workers -> BOOLEAN] /\ launchFailed' \in [Workers -> BOOLEAN]
    BY <1>2 DEF Enter, PolicyShapes
  <2> QED BY <1>2, <1>4, <2>1, <2>2 DEF PolicyShapes
<1>7. \A v \in Workers : v # w => Untouched(v)
  BY <1>1, <1>2, <1>3, <1>4, <1>5 DEF Untouched, RunsStand, SupervisorShapes
<1>8. RunsStand(w)
  BY <1>1 DEF RunsStand
<1>9. FreshAbove'
  BY <1>1 DEF PolicyInv, FreshAbove
<1>10. (Open(w)' <=> Open(w)) /\ (Arming(w)' <=> Arming(w))
  BY <1>4, <1>8, RunsStandFacts
<1>11. m <=> t = "request"
  BY <1>1, <1>2 DEF Policy, Deliberate, InStart, Threads
<1>12. ~raced'[w] => ~Arming(w) /\ \A u \in Threads : u # t => thread[w][u].pc \notin InStart
  BY <1>5 DEF Racing, Unsettled, Arming, InStart
<1>13. t = "request" \/ t = "timer"
  BY DEF Threads
<1> HIDE DEF m
<1>14. StopAlone(w)'
  BY <1>1, <1>2, <1>3, <1>13 DEF Policy, StopAlone, StartSteps, StopSteps, Threads
<1>15. Deliberate(w)'
  BY <1>2, <1>3, <1>11, <1>13 DEF Policy, Deliberate, InStart, Threads
<1>16. (\A u \in Threads : OwnRun(w, u)') /\ RunsApart(w)'
  BY <1>2, <1>3, <1>8, <1>13, OwnRunStands DEF Policy, RunsApart, Claimed, Threads
<1>17. ProcSound(w)'
  BY <1>4, <1>8, ProcStands
<1>18. SeenTo(w)'
  BY <1>3 DEF SeenTo, InStart
<1>19. TimerAlone(w)'
  <2>1. CASE t = "timer"
    BY <1>1, <1>2, <1>3, <1>4, <1>5, <1>10, <1>11, <1>12, <2>1
       DEF Policy, TimerAlone, InStart, Entered, Threads
  <2>2. CASE t = "request"
    BY <1>3, <1>12, <2>2 DEF TimerAlone, InStart, Threads
  <2> QED BY <1>13, <2>1, <2>2
<1>20. RequestFresh(w)'
  <2>1. CASE t = "timer"
    BY <1>3, <1>12, <2>1 DEF RequestFresh, InStart, Entered, Threads
  <2>2. CASE t = "request"
    BY <1>4, <1>5, <1>10, <1>11, <1>12, <2>2, SupervisorAssumption DEF RequestFresh
  <2> QED BY <1>13, <2>1, <2>2
<1>21. Paid(w)'
  <2>1. svc[w].fast \in Nat /\ svc'[w].fast \in Nat /\ unattended[w] \in Nat
    BY <1>2 DEF ServiceRecords, PolicyShapes
  <2>2. CASE t = "timer"
    <3>1. ~raced'[w] => /\ unattended[w] <= svc[w].fast /\ svc[w].fast < GiveUpAfter
                        /\ ~Arming(w)' /\ ~svc'[w].timer
      BY <1>1, <1>2, <1>4, <1>5, <1>10, <1>11, <1>12, <2>2 DEF Policy, TimerAlone, InStart, Threads
    <3> QED BY <1>4, <1>5, <1>11, <2>1, <2>2, <3>1, SupervisorAssumption DEF Paid
  <2>3. CASE t = "request"
    BY <1>4, <1>5, <1>10, <1>11, <1>12, <2>1, <2>3, SupervisorAssumption DEF Paid
  <2> QED BY <1>13, <2>2, <2>3
<1>22. StopHeld(w)'
  <2>1. CASE t = "timer"
    BY <1>1, <1>2, <1>5, <2>1 DEF Policy, StopHeld, StartSteps
  <2>2. CASE t = "request"
    BY <1>5, <1>11, <2>2 DEF StopHeld
  <2> QED BY <1>13, <2>1, <2>2
<1>23. Policy(w)'
  BY <1>14, <1>15, <1>16, <1>17, <1>18, <1>19, <1>20, <1>21, <1>22 DEF Policy
<1> QED BY <1>1, <1>6, <1>7, <1>9, <1>23, OneWorkerSteps

\* A thread moves on in start(), or out of it; the record and the runs stay.
LEMMA CheckPolicy ==
  ASSUME PolicyInv, LeaseInv', NEW w \in Workers, NEW t \in Threads, Check(w, t)
  PROVE  PolicyInv'
<1>1. /\ UNCHANGED <<svc, run, used, blips, unattended, raced, launchFailed, stopped>>
      /\ thread[w][t].pc = "check"
      /\ IF Alive(svc[w].proc) THEN Finish(w, t) ELSE Goto(w, t, "claim")
  BY DEF Check, countVars, histVars
<1>2. /\ Policy(w) /\ PolicyShapes /\ SupervisorShapes
      /\ svc[w].proc \in RunIds \union {None}
  BY DEF PolicyInv, LeaseInv, SupervisorShapes, ServiceRecords
<1>3. /\ \/ thread'[w][t].pc = "idle" /\ ~thread'[w][t].manual /\ Alive(svc[w].proc)
         \/ thread'[w][t].pc = "claim" /\ thread'[w][t].manual = thread[w][t].manual
      /\ \A v \in Workers, u \in Threads :
           v # w \/ u # t => thread'[v][u] = thread[v][u]
  <2>1. CASE Alive(svc[w].proc)
    BY <1>1, <1>2, <2>1, ThreadEnds
  <2>2. CASE ~Alive(svc[w].proc)
    BY <1>1, <1>2, <2>2, ThreadGoes DEF Pcs, StartSteps
  <2> QED BY <2>1, <2>2
<1>4. t = "request" \/ t = "timer"
  BY DEF Threads
<1>5. PolicyShapes' /\ FreshAbove'
  BY <1>1, <1>2 DEF PolicyInv, PolicyShapes, FreshAbove
<1>6. \A v \in Workers : v # w => Untouched(v)
  BY <1>1, <1>2, <1>3 DEF Untouched, RunsStand, HistoryStands, SupervisorShapes
<1>7. RunsStand(w)
  BY <1>1 DEF RunsStand
<1>8. (Open(w)' <=> Open(w)) /\ (Arming(w)' <=> Arming(w)) /\ (Watched(w)' <=> Watched(w))
  BY <1>1, <1>7, RunsStandFacts
<1>9. StopAlone(w)' /\ Deliberate(w)'
  BY <1>1, <1>2, <1>3, <1>4
     DEF Policy, StopAlone, Deliberate, InStart, StartSteps, StopSteps, Threads
<1>10. (\A u \in Threads : OwnRun(w, u)') /\ RunsApart(w)'
  BY <1>2, <1>3, <1>4, <1>7, OwnRunStands DEF Policy, RunsApart, Claimed, Threads
<1>11. ProcSound(w)'
  BY <1>1, <1>7, ProcStands
<1>12. SeenTo(w)'
  <2>1. Alive(svc[w].proc) => Watched(w)
    BY <1>2 DEF Policy, ProcSound, Watched, Alive
  <2> QED BY <1>1, <1>3, <1>8, <2>1 DEF SeenTo, InStart
<1>13. TimerAlone(w)' /\ RequestFresh(w)' /\ Paid(w)'
  BY <1>1, <1>2, <1>3, <1>4, <1>8
     DEF Policy, TimerAlone, RequestFresh, Paid, InStart, Entered, Threads
<1>14. StopHeld(w)'
  BY <1>1, <1>2, <1>3, <1>4 DEF Policy, StopHeld, StartSteps, Attended, Threads
<1>15. Policy(w)'
  BY <1>9, <1>10, <1>11, <1>12, <1>13, <1>14 DEF Policy
<1> QED BY <1>1, <1>5, <1>6, <1>15, OneWorkerSteps

\* A declined claim goes on to be deferred, or has used up its budget.
LEMMA ClaimDeclinedPolicy ==
  ASSUME PolicyInv, LeaseInv', NEW w \in Workers, NEW t \in Threads, ClaimDeclined(w, t)
  PROVE  PolicyInv'
<1> DEFINE wanted == svc[w].desired = "running" /\ svc[w].state # "gave_up"
           exhausted == svc[w].waits >= RetryBudget
<1>1. /\ UNCHANGED <<run, used, blips, unattended, raced, launchFailed, stopped>>
      /\ thread[w][t].pc = "claim"
      /\ IF wanted /\ ~exhausted THEN Goto(w, t, "defer") ELSE Finish(w, t)
  BY DEF ClaimDeclined, countVars, histVars
<1>2. /\ Policy(w) /\ PolicyShapes /\ SupervisorShapes
      /\ svc[w] \in ServiceRecords
  BY DEF PolicyInv, LeaseInv, SupervisorShapes
<1>3. /\ svc'[w].desired = svc[w].desired /\ svc'[w].timer = svc[w].timer
      /\ svc'[w].proc = svc[w].proc /\ svc'[w].fast = svc[w].fast
      /\ svc'[w].state = IF ~wanted THEN svc[w].state
                         ELSE IF exhausted THEN "stopped" ELSE "backing_off"
      /\ svc'[w].waits = svc[w].waits \/ (~exhausted /\ svc'[w].waits = svc[w].waits + 1)
      /\ \A v \in Workers : v # w => svc'[v] = svc[v]
  <2> DEFINE s1 == [svc[w] EXCEPT !.state = "stopped"]
             s2 == [svc[w] EXCEPT !.waits = @ + 1, !.state = "backing_off"]
  <2>1. svc' = [svc EXCEPT ![w] = IF ~wanted THEN svc[w] ELSE IF exhausted THEN s1 ELSE s2]
    BY DEF ClaimDeclined
  <2>2. /\ s1.desired = svc[w].desired /\ s1.timer = svc[w].timer
        /\ s1.proc = svc[w].proc /\ s1.fast = svc[w].fast
        /\ s1.state = "stopped" /\ s1.waits = svc[w].waits
    BY <1>2 DEF ServiceRecords
  <2>3. /\ s2.desired = svc[w].desired /\ s2.timer = svc[w].timer
        /\ s2.proc = svc[w].proc /\ s2.fast = svc[w].fast
        /\ s2.state = "backing_off" /\ s2.waits = svc[w].waits + 1
    BY <1>2 DEF ServiceRecords
  <2> HIDE DEF wanted, exhausted, s1, s2
  <2>4. /\ svc'[w] = IF ~wanted THEN svc[w] ELSE IF exhausted THEN s1 ELSE s2
        /\ \A v \in Workers : v # w => svc'[v] = svc[v]
    BY <1>2, <2>1 DEF SupervisorShapes
  <2>5. CASE ~wanted
    BY <2>4, <2>5
  <2>6. CASE wanted /\ exhausted
    BY <2>2, <2>4, <2>6
  <2>7. CASE wanted /\ ~exhausted
    BY <2>3, <2>4, <2>7
  <2> QED BY <2>5, <2>6, <2>7
<1>4. /\ \/ /\ thread'[w][t].pc = "idle" /\ ~thread'[w][t].manual
            /\ ~wanted \/ exhausted
         \/ thread'[w][t].pc = "defer" /\ thread'[w][t].manual = thread[w][t].manual
      /\ \A v \in Workers, u \in Threads :
           v # w \/ u # t => thread'[v][u] = thread[v][u]
  <2>1. CASE wanted /\ ~exhausted
    BY <1>1, <1>2, <2>1, ThreadGoes DEF Pcs
  <2>2. CASE ~wanted \/ exhausted
    BY <1>1, <1>2, <2>2, ThreadEnds
  <2> QED BY <2>1, <2>2
<1>5. t = "request" \/ t = "timer"
  BY DEF Threads
<1>6. PolicyShapes' /\ FreshAbove'
  <2>1. svc'[w].waits <= RetryBudget
    BY <1>2, <1>3, SupervisorAssumption DEF PolicyShapes, ServiceRecords
  <2> QED BY <1>1, <1>2, <1>3, <2>1 DEF PolicyInv, PolicyShapes, FreshAbove
<1>7. \A v \in Workers : v # w => Untouched(v)
  BY <1>1, <1>2, <1>3, <1>4 DEF Untouched, RunsStand, HistoryStands, SupervisorShapes
<1>8. RunsStand(w)
  BY <1>1 DEF RunsStand
<1>9. (Open(w)' <=> Open(w)) /\ (Arming(w)' <=> Arming(w))
  BY <1>3, <1>8, RunsStandFacts
<1>10. StopAlone(w)' /\ Deliberate(w)'
  BY <1>1, <1>2, <1>3, <1>4, <1>5
     DEF Policy, StopAlone, Deliberate, InStart, StartSteps, StopSteps, Threads
<1>11. (\A u \in Threads : OwnRun(w, u)') /\ RunsApart(w)'
  BY <1>2, <1>4, <1>5, <1>8, OwnRunStands DEF Policy, RunsApart, Claimed, Threads
<1>12. ProcSound(w)'
  BY <1>3, <1>8, ProcStands
<1>13. SeenTo(w)'
  BY <1>3, <1>4 DEF SeenTo, InStart
<1>14. TimerAlone(w)' /\ RequestFresh(w)' /\ Paid(w)'
  BY <1>1, <1>2, <1>3, <1>4, <1>5, <1>9
     DEF Policy, TimerAlone, RequestFresh, Paid, InStart, Entered, Threads
<1>15. StopHeld(w)'
  BY <1>1, <1>2, <1>3, <1>4, <1>5 DEF Policy, StopHeld, StartSteps, Attended, Threads
<1>16. Policy(w)'
  BY <1>10, <1>11, <1>12, <1>13, <1>14, <1>15 DEF Policy
<1> QED BY <1>1, <1>6, <1>7, <1>16, OneWorkerSteps

\* The deferred start arms the timer, if it is still wanted.
LEMMA DeferPolicy ==
  ASSUME PolicyInv, LeaseInv', NEW w \in Workers, NEW t \in Threads, Defer(w, t)
  PROVE  PolicyInv'
<1> DEFINE wanted == svc[w].desired = "running" /\ svc[w].state # "gave_up"
<1>1. /\ UNCHANGED <<run, used, blips, unattended, raced, launchFailed, stopped>>
      /\ thread[w][t].pc = "defer" /\ Finish(w, t)
  BY DEF Defer, countVars, histVars
<1>2. /\ Policy(w) /\ PolicyShapes /\ SupervisorShapes
      /\ svc[w] \in ServiceRecords
  BY DEF PolicyInv, LeaseInv, SupervisorShapes
<1>3. /\ svc'[w].desired = svc[w].desired /\ svc'[w].state = svc[w].state
      /\ svc'[w].proc = svc[w].proc /\ svc'[w].fast = svc[w].fast
      /\ svc'[w].waits = svc[w].waits
      /\ svc'[w].timer <=> wanted \/ svc[w].timer
      /\ \A v \in Workers : v # w => svc'[v] = svc[v]
  BY <1>2 DEF Defer, Armed, SupervisorShapes, ServiceRecords
<1>4. /\ thread'[w][t].pc = "idle" /\ ~thread'[w][t].manual
      /\ \A v \in Workers, u \in Threads :
           v # w \/ u # t => thread'[v][u] = thread[v][u]
  BY <1>1, <1>2, ThreadEnds
<1>5. t = "request" \/ t = "timer"
  BY DEF Threads
<1>6. PolicyShapes' /\ FreshAbove'
  BY <1>1, <1>2, <1>3 DEF PolicyInv, PolicyShapes, FreshAbove
<1>7. \A v \in Workers : v # w => Untouched(v)
  BY <1>1, <1>2, <1>3, <1>4 DEF Untouched, RunsStand, HistoryStands, SupervisorShapes
<1>8. RunsStand(w)
  BY <1>1 DEF RunsStand
<1>9. (Open(w)' <=> Open(w)) /\ (Arming(w)' <=> Arming(w))
  BY <1>3, <1>8, RunsStandFacts
<1>10. StopAlone(w)' /\ Deliberate(w)'
  BY <1>1, <1>2, <1>3, <1>4, <1>5
     DEF Policy, StopAlone, Deliberate, InStart, StartSteps, StopSteps, Threads
<1>11. (\A u \in Threads : OwnRun(w, u)') /\ RunsApart(w)'
  BY <1>2, <1>4, <1>5, <1>8, OwnRunStands DEF Policy, RunsApart, Claimed, Threads
<1>12. ProcSound(w)'
  BY <1>3, <1>8, ProcStands
<1>13. SeenTo(w)'
  BY <1>3 DEF SeenTo
<1>14. ~raced[w] => /\ svc[w].desired = "running" => unattended[w] <= svc[w].fast
                    /\ svc[w].state # "gave_up" => svc[w].fast < GiveUpAfter
                    /\ \A u \in Threads : u # t =>
                         thread[w][u].pc \notin Entered
  <2>1. svc[w].fast \in Nat
    BY <1>2 DEF ServiceRecords
  <2> QED BY <1>1, <1>2, <1>5, <2>1
       DEF Policy, TimerAlone, RequestFresh, InStart, Entered, Threads
<1>15. TimerAlone(w)'
  BY <1>1, <1>2, <1>3, <1>4, <1>5 DEF Policy, TimerAlone, InStart, Entered, Threads
<1>16. RequestFresh(w)'
  BY <1>1, <1>4, <1>5, <1>14 DEF RequestFresh, Entered, Threads
<1>17. Paid(w)'
  BY <1>1, <1>2, <1>3, <1>9, <1>14 DEF Policy, Paid
<1>18. StopHeld(w)'
  BY <1>1, <1>2, <1>3, <1>4, <1>5 DEF Policy, StopHeld, StartSteps, Attended, Threads
<1>19. Policy(w)'
  BY <1>10, <1>11, <1>12, <1>13, <1>15, <1>16, <1>17, <1>18 DEF Policy
<1> QED BY <1>1, <1>6, <1>7, <1>19, OneWorkerSteps

\* The claim gives the thread a run of its own, the first not given out yet.
LEMMA ClaimWonPolicy ==
  ASSUME PolicyInv, LeaseInv', NEW w \in Workers, NEW t \in Threads, ClaimWon(w, t)
  PROVE  PolicyInv'
<1> DEFINE n == used + 1
           r == [Unborn EXCEPT !.by = w, !.mine = TRUE, !.owned = redis]
           c == [thread[w][t] EXCEPT !.pc = "reap", !.id = n]
           s == [svc[w] EXCEPT !.waits = 0]
<1>1. /\ UNCHANGED <<blips, unattended, raced, launchFailed, stopped>>
      /\ thread[w][t].pc = "claim" /\ used < MaxRuns /\ used' = n
      /\ run' = [run EXCEPT ![n] = r]
      /\ svc' = [svc EXCEPT ![w] = s]
  BY DEF ClaimWon, countVars, histVars
<1>2. /\ Policy(w) /\ PolicyShapes /\ SupervisorShapes
      /\ svc[w] \in ServiceRecords /\ thread[w][t] \in ThreadRecords
      /\ thread[w] \in [Threads -> ThreadRecords]
  BY DEF PolicyInv, LeaseInv, SupervisorShapes
<1>3. n \in RunIds /\ n > used /\ n # None
  BY <1>1, <1>2, SupervisorAssumption DEF SupervisorShapes, RunIds, None
<1>4. run[n].st = "unborn" /\ run[n].by = None /\ run[n].pump = "none"
  <2>1. run[n] = Unborn
    BY <1>3 DEF PolicyInv, FreshAbove
  <2> QED BY <2>1 DEF Unborn
<1>5. /\ r.st = "unborn" /\ r.by = w /\ r.mine /\ ~r.orphan /\ r.pump = "none"
      /\ c.pc = "reap" /\ c.id = n /\ c.manual = thread[w][t].manual
      /\ s.desired = svc[w].desired /\ s.state = svc[w].state /\ s.fast = svc[w].fast
      /\ s.timer = svc[w].timer /\ s.proc = svc[w].proc /\ s.waits = 0
  BY <1>2 DEF Unborn, ThreadRecords, ServiceRecords
<1>6. thread' = [thread EXCEPT ![w][t] = c]
  BY <1>1, <1>2 DEF ClaimWon, SupervisorShapes
<1> HIDE DEF r, c, s, n
<1>7. /\ thread'[w][t] = c
      /\ \A v \in Workers, u \in Threads : v # w \/ u # t => thread'[v][u] = thread[v][u]
  BY <1>2, <1>6 DEF SupervisorShapes
<1>8. /\ run'[n] = r /\ (\A i \in RunIds : i # n => run'[i] = run[i])
      /\ svc'[w] = s /\ (\A v \in Workers : v # w => svc'[v] = svc[v])
  BY <1>1, <1>2, <1>3 DEF SupervisorShapes
<1>9. t = "request" \/ t = "timer"
  BY DEF Threads
<1>10. PolicyShapes'
  <2>1. 0 <= RetryBudget
    BY SupervisorAssumption
  <2> QED BY <1>1, <1>2, <1>5, <1>8, <2>1 DEF PolicyShapes
<1>11. FreshAbove'
  <2>1. ASSUME NEW i \in RunIds, i > used' PROVE run'[i] = Unborn
    <3>1. i > used /\ i # n
      BY <1>1, <1>2, <2>1 DEF SupervisorShapes, RunIds, n
    <3> QED BY <1>8, <3>1 DEF PolicyInv, FreshAbove
  <2> QED BY <2>1 DEF FreshAbove
<1>12. \A v \in Workers : v # w => Untouched(v)
  <2>1. \A v \in Workers : v # None
    BY SupervisorAssumption DEF None
  <2>2. \A v \in Workers : v # w => RunsStand(v)
    BY <1>1, <1>3, <1>4, <1>5, <2>1, OneRunSteps
  <2> QED BY <1>1, <1>7, <1>8, <2>2 DEF Untouched, HistoryStands
<1>13. svc[w].proc # None => svc[w].proc \in RunIds /\ svc[w].proc # n
  BY <1>2, <1>4 DEF Policy, ProcSound, ServiceRecords
<1>14. (Open(w)' <=> Open(w)) /\ (Watched(w)' <=> Watched(w))
  BY <1>5, <1>8, <1>13 DEF Open, Watched
<1>15. Arming(w)' <=> Arming(w)
  BY <1>1, <1>3, <1>4, <1>5, OneRunArms
<1>16. StopAlone(w)' /\ Deliberate(w)'
  BY <1>1, <1>2, <1>5, <1>7, <1>8, <1>9
     DEF Policy, StopAlone, Deliberate, InStart, StartSteps, StopSteps, Threads
<1>17. \A u \in Threads : OwnRun(w, u)' /\ (u # t => OwnRun(w, u) /\ thread'[w][u] = thread[w][u])
  <2>1. OwnRun(w, t)'
    BY <1>3, <1>5, <1>7, <1>8 DEF OwnRun
  <2>2. ASSUME NEW u \in Threads, u # t
        PROVE  OwnRun(w, u)' /\ OwnRun(w, u) /\ thread'[w][u] = thread[w][u]
    <3>1. thread[w][u].pc \in Claimed => thread[w][u].id # n
      BY <1>2, <1>4, SupervisorAssumption DEF Policy, OwnRun, None
    <3> QED BY <1>2, <1>7, <1>8, <2>2, <3>1 DEF Policy, OwnRun
  <2> QED BY <2>1, <2>2
<1>18. RunsApart(w)'
  <2>1. \A u \in Threads : u # t /\ thread'[w][u].pc \in Claimed => thread'[w][u].id # n
    BY <1>4, <1>17, SupervisorAssumption DEF OwnRun, None
  <2> QED BY <1>5, <1>7, <1>9, <2>1 DEF RunsApart, Threads
<1>19. ProcSound(w)'
  BY <1>2, <1>5, <1>8, <1>13, <1>14 DEF Policy, ProcSound
<1>20. SeenTo(w)'
  BY <1>5, <1>7 DEF SeenTo, InStart
<1>21. TimerAlone(w)' /\ RequestFresh(w)' /\ Paid(w)'
  BY <1>1, <1>2, <1>5, <1>7, <1>8, <1>9, <1>14, <1>15
     DEF Policy, TimerAlone, RequestFresh, Paid, InStart, Entered, Threads
<1>22. StopHeld(w)'
  <2>1. ~(blips = 0 /\ stopped[w])
    BY <1>1, <1>2, <1>9 DEF Policy, StopHeld, StartSteps
  <2> QED BY <1>1, <2>1 DEF StopHeld
<1>23. Policy(w)'
  BY <1>16, <1>17, <1>18, <1>19, <1>20, <1>21, <1>22 DEF Policy
<1> QED BY <1>1, <1>10, <1>11, <1>12, <1>23, OneWorkerSteps

\* The orphans that are killed are nobody's; the lease is no part of the policy.
LEMMA ReapPolicy ==
  ASSUME PolicyInv, LeaseInv', NEW w \in Workers, NEW t \in Threads, Reap(w, t)
  PROVE  PolicyInv'
<1> DEFINE s == [svc[w] EXCEPT !.lease = thread[w][t].id]
<1>1. /\ UNCHANGED <<used, blips, unattended, raced, launchFailed, stopped>>
      /\ thread[w][t].pc = "reap" /\ Goto(w, t, "spawn")
      /\ svc' = [svc EXCEPT ![w] = s]
  BY DEF Reap, countVars, histVars, PolicyInv, LeaseInv, SupervisorShapes
<1>2. /\ Policy(w) /\ PolicyShapes /\ SupervisorShapes
      /\ svc[w] \in ServiceRecords
  BY DEF PolicyInv, LeaseInv, SupervisorShapes
<1>3. /\ s.desired = svc[w].desired /\ s.state = svc[w].state /\ s.fast = svc[w].fast
      /\ s.timer = svc[w].timer /\ s.proc = svc[w].proc /\ s.waits = svc[w].waits
  BY <1>2 DEF ServiceRecords
<1> HIDE DEF s
<1>4. svc'[w] = s /\ \A v \in Workers : v # w => svc'[v] = svc[v]
  BY <1>1, <1>2 DEF SupervisorShapes
<1>5. /\ thread'[w][t].pc = "spawn" /\ thread'[w][t].manual = thread[w][t].manual
      /\ thread'[w][t].id = thread[w][t].id
      /\ \A v \in Workers, u \in Threads :
           v # w \/ u # t => thread'[v][u] = thread[v][u]
  BY <1>1, <1>2, ThreadGoes DEF Pcs, StartSteps
<1>6. t = "request" \/ t = "timer"
  BY DEF Threads
<1>7. \A id \in RunIds :
        /\ run'[id].by = run[id].by /\ run'[id].mine = run[id].mine
        /\ run'[id].pump = run[id].pump /\ run'[id].closed = run[id].closed
        /\ run'[id].orphan = run[id].orphan
        /\ run'[id].st = run[id].st \/ run[id].orphan
  <2>1. ASSUME NEW id \in RunIds
        PROVE  run'[id] = run[id] \/ (run[id].orphan /\ run'[id] = [run[id] EXCEPT !.st = "dead"])
    BY DEF Reap
  <2>2. \A id \in RunIds : run[id] \in RunRecords
    BY <1>2 DEF SupervisorShapes
  <2> QED BY <2>1, <2>2 DEF RunRecords
<1>8. \A v \in Workers : RunsStand(v)
  BY <1>7 DEF RunsStand
<1>9. PolicyShapes'
  BY <1>1, <1>2, <1>3, <1>4 DEF PolicyShapes
<1>10. FreshAbove'
  <2>1. ASSUME NEW id \in RunIds, id > used PROVE run'[id] = Unborn
    <3>1. run[id] = Unborn
      BY <2>1 DEF PolicyInv, FreshAbove
    <3>2. ~run[id].orphan
      BY <3>1 DEF Unborn
    <3> QED BY <3>1, <3>2 DEF Reap
  <2> QED BY <1>1, <2>1 DEF FreshAbove
<1>11. \A v \in Workers : v # w => Untouched(v)
  BY <1>1, <1>4, <1>5, <1>8 DEF Untouched, HistoryStands
<1>12. (Open(w)' <=> Open(w)) /\ (Arming(w)' <=> Arming(w))
  BY <1>3, <1>4, <1>8, RunsStandFacts
<1>13. StopAlone(w)' /\ Deliberate(w)'
  BY <1>1, <1>2, <1>3, <1>4, <1>5, <1>6
     DEF Policy, StopAlone, Deliberate, InStart, StartSteps, StopSteps, Threads
<1>14. (\A u \in Threads : OwnRun(w, u)') /\ RunsApart(w)'
  BY <1>1, <1>2, <1>5, <1>6, <1>8, OwnRunStands DEF Policy, RunsApart, Claimed, Threads
<1>15. ProcSound(w)'
  BY <1>3, <1>4, <1>8, ProcStands
<1>16. SeenTo(w)'
  BY <1>5 DEF SeenTo, InStart
<1>17. TimerAlone(w)' /\ RequestFresh(w)' /\ Paid(w)'
  BY <1>1, <1>2, <1>3, <1>4, <1>5, <1>6, <1>12
     DEF Policy, TimerAlone, RequestFresh, Paid, InStart, Entered, Threads
<1>18. StopHeld(w)'
  <2>1. ~(blips = 0 /\ stopped[w])
    BY <1>1, <1>2, <1>6 DEF Policy, StopHeld, StartSteps
  <2> QED BY <1>1, <2>1 DEF StopHeld
<1>19. Policy(w)'
  BY <1>13, <1>14, <1>15, <1>16, <1>17, <1>18 DEF Policy
<1> QED BY <1>1, <1>9, <1>10, <1>11, <1>19, OneWorkerSteps

\* A timer's spawn is the one its crash has paid for; it uses up the margin.
LEMMA SpawnPolicy ==
  ASSUME PolicyInv, LeaseInv', NEW w \in Workers, NEW t \in Threads, Spawn(w, t)
  PROVE  PolicyInv'
<1> DEFINE id == thread[w][t].id
           r == [run[id] EXCEPT !.st = "alive", !.pump = "reading", !.beats = run[id].owned]
           s == [svc[w] EXCEPT !.proc = id, !.state = "running"]
<1>1. /\ Policy(w) /\ PolicyShapes /\ SupervisorShapes
      /\ svc[w] \in ServiceRecords /\ thread[w][t].pc = "spawn"
  BY DEF PolicyInv, LeaseInv, SupervisorShapes, Spawn
<1>2. /\ id \in RunIds /\ id # None /\ run[id] \in RunRecords
      /\ run[id].st = "unborn" /\ run[id].by = w /\ run[id].pump = "none"
      /\ run[id].mine /\ ~run[id].orphan
  BY <1>1 DEF Policy, OwnRun, Claimed, SupervisorShapes, RunIds, None
<1>3. /\ UNCHANGED <<used, blips, raced, launchFailed, stopped>>
      /\ Finish(w, t)
      /\ run' = [run EXCEPT ![id] = r] /\ svc' = [svc EXCEPT ![w] = s]
      /\ unattended' = [unattended EXCEPT ![w] = IF thread[w][t].manual THEN @ ELSE @ + 1]
  BY <1>1, <1>2 DEF Spawn, countVars, SupervisorShapes
<1>4. /\ r.st = "alive" /\ r.pump = "reading" /\ r.by = w /\ r.mine /\ ~r.orphan
      /\ s.desired = svc[w].desired /\ s.state = "running" /\ s.fast = svc[w].fast
      /\ s.timer = svc[w].timer /\ s.proc = id /\ s.waits = svc[w].waits
  BY <1>1, <1>2 DEF ServiceRecords, RunRecords
<1> HIDE DEF r, s, id
<1>5. /\ thread'[w][t].pc = "idle" /\ ~thread'[w][t].manual
      /\ \A v \in Workers, u \in Threads :
           v # w \/ u # t => thread'[v][u] = thread[v][u]
  BY <1>1, <1>3, ThreadEnds
<1>6. /\ run'[id] = r /\ (\A i \in RunIds : i # id => run'[i] = run[i])
      /\ svc'[w] = s /\ (\A v \in Workers : v # w => svc'[v] = svc[v])
  BY <1>1, <1>2, <1>3 DEF SupervisorShapes
<1>7. /\ unattended'[w] = unattended[w] + (IF thread[w][t].manual THEN 0 ELSE 1)
      /\ \A v \in Workers : v # w => unattended'[v] = unattended[v]
  BY <1>1, <1>3 DEF PolicyShapes
<1>8. /\ t = "request" \/ t = "timer"
      /\ thread[w][t].manual <=> t = "request"
  BY <1>1 DEF Policy, Deliberate, InStart, Threads
<1>9. PolicyShapes'
  BY <1>1, <1>3, <1>4, <1>6 DEF PolicyShapes
<1>10. FreshAbove'
  <2>1. ~(id > used)
    BY <1>2 DEF PolicyInv, FreshAbove, Unborn, None
  <2> QED BY <1>3, <1>6, <2>1 DEF PolicyInv, FreshAbove
<1>11. \A v \in Workers : v # w => Untouched(v)
  <2>1. \A v \in Workers : v # w => RunsStand(v)
    BY <1>2, <1>3, <1>4, OneRunSteps
  <2> QED BY <1>3, <1>5, <1>6, <1>7, <2>1 DEF Untouched, HistoryStands
<1>12. Open(w)' /\ Watched(w)'
  BY <1>2, <1>4, <1>6 DEF Open, Watched
<1>13. Arming(w)' <=> Arming(w)
  BY <1>2, <1>3, <1>4, OneRunArms
<1>14. StopAlone(w)' /\ Deliberate(w)'
  BY <1>1, <1>4, <1>5, <1>6, <1>8
     DEF Policy, StopAlone, Deliberate, InStart, StartSteps, StopSteps, Threads
<1>15. \A u \in Threads : OwnRun(w, u)'
  <2>1. ASSUME NEW u \in Threads, u # t, thread[w][u].pc \in Claimed
        PROVE  thread[w][u].id # id
    BY <1>1, <2>1 DEF Policy, RunsApart, Claimed, Threads, id
  <2>2. ASSUME NEW u \in Threads, u # t PROVE OwnRun(w, u)'
    BY <1>1, <1>5, <1>6, <2>1, <2>2 DEF Policy, OwnRun
  <2>3. OwnRun(w, t)'
    BY <1>5 DEF OwnRun, Claimed
  <2> QED BY <2>2, <2>3
<1>16. RunsApart(w)'
  BY <1>5, <1>8 DEF RunsApart, Claimed
<1>17. ProcSound(w)'
  BY <1>2, <1>4, <1>6 DEF ProcSound, Open
<1>18. SeenTo(w)'
  BY <1>12 DEF SeenTo
<1>19. svc[w].fast \in Nat /\ unattended[w] \in Nat /\ GiveUpAfter \in Nat
  BY <1>1, SupervisorAssumption DEF ServiceRecords, PolicyShapes
<1>20. TimerAlone(w)' /\ RequestFresh(w)'
  BY <1>1, <1>3, <1>5, <1>8
     DEF Policy, TimerAlone, RequestFresh, InStart, Entered, Threads
<1>21. Paid(w)'
  <2>1. CASE t = "timer"
    <3>1. ~raced[w] => /\ unattended[w] <= svc[w].fast /\ svc[w].fast < GiveUpAfter
                       /\ ~svc[w].timer /\ ~Arming(w)
      BY <1>1, <2>1 DEF Policy, TimerAlone, InStart
    <3> QED BY <1>3, <1>4, <1>6, <1>7, <1>8, <1>13, <1>19, <2>1, <3>1 DEF Paid
  <2>2. CASE t = "request"
    <3>1. ~raced[w] => /\ unattended[w] = 0
                       /\ svc[w].state # "gave_up" => svc[w].fast < GiveUpAfter
                       /\ svc[w].state = "gave_up" => ~svc[w].timer /\ ~Arming(w)
      BY <1>1, <2>2 DEF Policy, RequestFresh, Entered
    <3> QED BY <1>3, <1>4, <1>6, <1>7, <1>8, <1>13, <1>19, <2>2, <3>1 DEF Paid
  <2> QED BY <1>8, <2>1, <2>2
<1>22. StopHeld(w)'
  <2>1. ~(blips = 0 /\ stopped[w])
    BY <1>1, <1>8 DEF Policy, StopHeld, StartSteps
  <2> QED BY <1>3, <2>1 DEF StopHeld
<1>23. Policy(w)'
  BY <1>14, <1>15, <1>16, <1>17, <1>18, <1>20, <1>21, <1>22 DEF Policy
<1> QED BY <1>3, <1>9, <1>10, <1>11, <1>23, OneWorkerSteps

\* A Popen that raises is a launch that failed, and nothing was started.
LEMMA SpawnFailsPolicy ==
  ASSUME PolicyInv, LeaseInv', NEW w \in Workers, NEW t \in Threads, SpawnFails(w, t)
  PROVE  PolicyInv'
<1> DEFINE id == thread[w][t].id
           r == [run[id] EXCEPT !.st = "dead"]
<1>1. /\ Policy(w) /\ PolicyShapes /\ SupervisorShapes
      /\ svc[w] \in ServiceRecords /\ thread[w][t].pc = "spawn"
  BY DEF PolicyInv, LeaseInv, SupervisorShapes, SpawnFails
<1>2. /\ id \in RunIds /\ id # None /\ run[id] \in RunRecords
      /\ run[id].st = "unborn" /\ run[id].by = w /\ run[id].pump = "none"
      /\ run[id].mine /\ ~run[id].orphan
  BY <1>1 DEF Policy, OwnRun, Claimed, SupervisorShapes, RunIds, None
<1>3. /\ UNCHANGED <<svc, used, blips, unattended, raced, stopped>>
      /\ Finish(w, t)
      /\ run' = [run EXCEPT ![id] = r]
      /\ launchFailed' = [launchFailed EXCEPT ![w] = TRUE]
  BY <1>1, <1>2 DEF SpawnFails, SupervisorShapes
<1>4. r.st = "dead" /\ r.pump = "none" /\ r.by = w /\ r.mine /\ ~r.orphan
  BY <1>2 DEF RunRecords
<1> HIDE DEF r, id
<1>5. /\ thread'[w][t].pc = "idle" /\ ~thread'[w][t].manual
      /\ \A v \in Workers, u \in Threads :
           v # w \/ u # t => thread'[v][u] = thread[v][u]
  BY <1>1, <1>3, ThreadEnds
<1>6. run'[id] = r /\ \A i \in RunIds : i # id => run'[i] = run[i]
  BY <1>1, <1>2, <1>3 DEF SupervisorShapes
<1>7. launchFailed'[w] /\ \A v \in Workers : v # w => launchFailed'[v] = launchFailed[v]
  BY <1>1, <1>3 DEF PolicyShapes
<1>8. t = "request" \/ t = "timer"
  BY DEF Threads
<1>9. PolicyShapes'
  BY <1>1, <1>3 DEF PolicyShapes
<1>10. FreshAbove'
  <2>1. ~(id > used)
    BY <1>2 DEF PolicyInv, FreshAbove, Unborn, None
  <2> QED BY <1>3, <1>6, <2>1 DEF PolicyInv, FreshAbove
<1>11. \A v \in Workers : v # w => Untouched(v)
  <2>1. \A v \in Workers : v # w => RunsStand(v)
    BY <1>2, <1>3, <1>4, OneRunSteps
  <2> QED BY <1>3, <1>5, <1>7, <2>1 DEF Untouched, HistoryStands
<1>12. svc[w].proc # None => svc[w].proc \in RunIds /\ run'[svc[w].proc] = run[svc[w].proc]
  BY <1>1, <1>2, <1>6 DEF Policy, ProcSound, ServiceRecords
<1>13. (Open(w)' <=> Open(w)) /\ (Arming(w)' <=> Arming(w))
  BY <1>2, <1>3, <1>4, <1>12, OneRunArms DEF Open
<1>14. StopAlone(w)' /\ Deliberate(w)'
  BY <1>1, <1>3, <1>5, <1>8
     DEF Policy, StopAlone, Deliberate, InStart, StartSteps, StopSteps, Threads
<1>15. \A u \in Threads : OwnRun(w, u)'
  <2>1. ASSUME NEW u \in Threads, u # t, thread[w][u].pc \in Claimed
        PROVE  thread[w][u].id # id
    BY <1>1, <2>1 DEF Policy, RunsApart, Claimed, Threads, id
  <2>2. ASSUME NEW u \in Threads, u # t PROVE OwnRun(w, u)'
    BY <1>1, <1>5, <1>6, <2>1, <2>2 DEF Policy, OwnRun
  <2>3. OwnRun(w, t)'
    BY <1>5 DEF OwnRun, Claimed
  <2> QED BY <2>2, <2>3
<1>16. RunsApart(w)'
  BY <1>5, <1>8 DEF RunsApart, Claimed
<1>17. ProcSound(w)'
  BY <1>1, <1>3, <1>12, <1>13 DEF Policy, ProcSound
<1>18. SeenTo(w)'
  BY <1>7 DEF SeenTo
<1>19. TimerAlone(w)' /\ RequestFresh(w)' /\ Paid(w)'
  BY <1>1, <1>3, <1>5, <1>8, <1>13
     DEF Policy, TimerAlone, RequestFresh, Paid, InStart, Entered, Threads
<1>20. StopHeld(w)'
  <2>1. ~(blips = 0 /\ stopped[w])
    BY <1>1, <1>8 DEF Policy, StopHeld, StartSteps
  <2> QED BY <1>3, <2>1 DEF StopHeld
<1>21. Policy(w)'
  BY <1>14, <1>15, <1>16, <1>17, <1>18, <1>19, <1>20 DEF Policy
<1> QED BY <1>3, <1>9, <1>10, <1>11, <1>21, OneWorkerSteps

-----------------------------------------------------------------------------
(* stop() *)

\* stop() cancels the timer and clears the counts.
LEMMA HaltPolicy ==
  ASSUME PolicyInv, LeaseInv', NEW w \in Workers, Halt(w)
  PROVE  PolicyInv'
<1> DEFINE s == [svc[w] EXCEPT !.desired = "stopped", !.state = "stopped",
                               !.fast = 0, !.waits = 0, !.timer = FALSE]
<1>1. /\ Policy(w) /\ PolicyShapes /\ SupervisorShapes
      /\ svc[w] \in ServiceRecords /\ thread[w]["request"].pc = "halt"
      /\ "request" \in Threads
  BY DEF PolicyInv, LeaseInv, SupervisorShapes, Halt, Threads
<1>2. /\ UNCHANGED <<run, used, blips, unattended, raced, launchFailed, stopped>>
      /\ Goto(w, "request", "signal") /\ svc' = [svc EXCEPT ![w] = s]
  BY <1>1 DEF Halt, countVars, histVars, SupervisorShapes
<1>3. /\ s.desired = "stopped" /\ s.state = "stopped" /\ s.fast = 0 /\ s.waits = 0
      /\ ~s.timer /\ s.proc = svc[w].proc
  BY <1>1 DEF ServiceRecords
<1> HIDE DEF s
<1>4. svc'[w] = s /\ \A v \in Workers : v # w => svc'[v] = svc[v]
  BY <1>1, <1>2 DEF SupervisorShapes
<1>5. /\ thread'[w]["request"].pc = "signal"
      /\ \A v \in Workers, u \in Threads :
           v # w \/ u # "request" => thread'[v][u] = thread[v][u]
  BY <1>1, <1>2, ThreadGoes DEF Pcs, StopSteps
<1>6. PolicyShapes' /\ FreshAbove'
  <2>1. 0 <= RetryBudget
    BY SupervisorAssumption
  <2> QED BY <1>1, <1>2, <1>3, <1>4, <2>1 DEF PolicyInv, PolicyShapes, FreshAbove
<1>7. \A v \in Workers : v # w => Untouched(v)
  BY <1>2, <1>4, <1>5 DEF Untouched, RunsStand, HistoryStands
<1>8. RunsStand(w)
  BY <1>2 DEF RunsStand
<1>9. (Open(w)' <=> Open(w)) /\ (Arming(w)' <=> Arming(w))
  BY <1>3, <1>4, <1>8, RunsStandFacts
<1>10. StopAlone(w)' /\ Deliberate(w)'
  BY <1>1, <1>3, <1>4, <1>5
     DEF Policy, StopAlone, Deliberate, InStart, StartSteps, StopSteps, Threads
<1>11. (\A u \in Threads : OwnRun(w, u)') /\ RunsApart(w)'
  BY <1>1, <1>5, <1>8, OwnRunStands DEF Policy, RunsApart, Claimed, Threads
<1>12. ProcSound(w)'
  BY <1>3, <1>4, <1>8, ProcStands
<1>13. SeenTo(w)'
  BY <1>3, <1>4 DEF SeenTo
<1>14. 0 < GiveUpAfter
  BY SupervisorAssumption
<1>15. TimerAlone(w)'
  BY <1>1, <1>2, <1>3, <1>4, <1>5, <1>9, <1>14
     DEF Policy, TimerAlone, StopAlone, InStart, Entered, StartSteps, StopSteps, Threads
<1>16. RequestFresh(w)'
  BY <1>5 DEF RequestFresh, Entered
<1>17. Paid(w)'
  BY <1>1, <1>2, <1>3, <1>4, <1>14 DEF Policy, Paid
<1>18. StopHeld(w)'
  BY <1>1, <1>2, <1>3, <1>4, <1>5 DEF Policy, StopHeld, StartSteps, Attended, Threads
<1>19. Policy(w)'
  BY <1>10, <1>11, <1>12, <1>13, <1>15, <1>16, <1>17, <1>18 DEF Policy
<1> QED BY <1>2, <1>6, <1>7, <1>19, OneWorkerSteps

\* A stop has told its worker so before it signals: the end is not a crash.
LEMMA SignalPolicy ==
  ASSUME PolicyInv, LeaseInv', NEW w \in Workers, Signal(w)
  PROVE  PolicyInv'
<1> DEFINE id == svc[w].proc
           r == [run[id] EXCEPT !.st = "dead", !.pump = IF @ = "reading" THEN "release" ELSE @]
<1>1. /\ Policy(w) /\ PolicyShapes /\ SupervisorShapes
      /\ svc[w] \in ServiceRecords /\ thread[w]["request"].pc = "signal"
      /\ id \in RunIds \union {None} /\ "request" \in Threads
  BY DEF PolicyInv, LeaseInv, SupervisorShapes, Signal, Threads, ServiceRecords
<1>2. /\ UNCHANGED <<svc, used, blips, unattended, raced, launchFailed, stopped>>
      /\ Goto(w, "request", "drop")
      /\ run' = IF Alive(id) THEN [run EXCEPT ![id] = r] ELSE run
  BY <1>1 DEF Signal, countVars, histVars, SupervisorShapes
<1>3. /\ thread'[w]["request"].pc = "drop"
      /\ \A v \in Workers, u \in Threads :
           v # w \/ u # "request" => thread'[v][u] = thread[v][u]
  BY <1>1, <1>2, ThreadGoes DEF Pcs, StopSteps
<1>4. Alive(id) =>
        /\ id \in RunIds /\ run[id] \in RunRecords /\ run[id].by = w
        /\ run[id].st \in {"alive", "quiet"}
        /\ r.by = w /\ r.st = "dead" /\ r.mine = run[id].mine /\ r.orphan = run[id].orphan
        /\ r.closed = run[id].closed
        /\ r.pump = IF run[id].pump = "reading" THEN "release" ELSE run[id].pump
  <2> SUFFICES ASSUME Alive(id)
               PROVE  /\ id \in RunIds /\ run[id] \in RunRecords /\ run[id].by = w
                      /\ run[id].st \in {"alive", "quiet"}
                      /\ r.by = w /\ r.st = "dead" /\ r.mine = run[id].mine
                      /\ r.orphan = run[id].orphan /\ r.closed = run[id].closed
                      /\ r.pump = IF run[id].pump = "reading" THEN "release" ELSE run[id].pump
    OBVIOUS
  <2>1. id \in RunIds /\ run[id].by = w /\ run[id].st \in {"alive", "quiet"}
    BY <1>1 DEF Alive, Policy, ProcSound
  <2>2. run[id] \in RunRecords
    BY <1>1, <2>1 DEF SupervisorShapes
  <2> QED BY <2>1, <2>2 DEF RunRecords
<1> HIDE DEF r, id
<1>5. \A i \in RunIds :
        /\ run'[i].by = run[i].by /\ run'[i].mine = run[i].mine
        /\ run'[i].orphan = run[i].orphan /\ run'[i].closed = run[i].closed
        /\ run'[i].pump = run[i].pump
             \/ (run[i].pump = "reading" /\ run'[i].pump = "release" /\ i = id)
        /\ i # id => run'[i] = run[i]
        /\ i = id /\ Alive(id) => run'[i] = r
        /\ ~Alive(id) => run'[i] = run[i]
        /\ run'[i].st = "alive" => run[i].st = "alive"
  <2>1. CASE Alive(id)
    <3>1. id \in RunIds /\ run'[id] = r /\ \A i \in RunIds : i # id => run'[i] = run[i]
      BY <1>1, <1>2, <1>4, <2>1 DEF SupervisorShapes
    <3> QED BY <1>4, <2>1, <3>1
  <2>2. CASE ~Alive(id)
    BY <1>2, <2>2
  <2> QED BY <2>1, <2>2
<1>6. PolicyShapes'
  BY <1>1, <1>2 DEF PolicyShapes
<1>7. FreshAbove'
  <2>1. Alive(id) => ~(id > used)
    BY <1>4 DEF PolicyInv, FreshAbove, Unborn
  <2> QED BY <1>2, <1>5, <2>1 DEF PolicyInv, FreshAbove
<1>8. \A v \in Workers : v # w => Untouched(v)
  <2>1. \A v \in Workers : v # w => RunsStand(v)
    BY <1>4, <1>5 DEF RunsStand
  <2> QED BY <1>2, <1>3, <2>1 DEF Untouched, HistoryStands
<1>9. Arming(w)' <=> Arming(w)
  BY <1>5 DEF Arming
<1>10. Open(w)' <=> Open(w)
  BY <1>1, <1>2, <1>5 DEF Open, id
<1>11. StopAlone(w)' /\ Deliberate(w)' /\ RunsApart(w)'
  BY <1>1, <1>2, <1>3
     DEF Policy, StopAlone, Deliberate, RunsApart, Claimed, InStart, StartSteps, StopSteps, Threads
<1>12. ASSUME NEW u \in Threads PROVE OwnRun(w, u)'
  <2>1. OwnRun(w, u) /\ (thread'[w][u].pc \in Claimed => thread'[w][u] = thread[w][u])
    BY <1>1, <1>3 DEF Policy, Claimed
  <2>2. thread[w][u].pc \in Claimed /\ Alive(id) => thread[w][u].id # id
    BY <1>4, <2>1 DEF OwnRun
  <2> QED BY <1>5, <2>1, <2>2 DEF OwnRun
<1>13. ProcSound(w)'
  <2>1. CASE Alive(id)
    <3>1. run'[id] = r
      BY <1>4, <1>5, <2>1
    <3> QED BY <1>1, <1>2, <1>4, <1>10, <2>1, <3>1 DEF Policy, ProcSound, id
  <2>2. CASE ~Alive(id)
    <3>1. id # None => run'[id] = run[id]
      BY <1>1, <1>5, <2>2
    <3> QED BY <1>1, <1>2, <1>10, <3>1 DEF Policy, ProcSound, id
  <2> QED BY <2>1, <2>2
<1>14. SeenTo(w)'
  BY <1>1, <1>2 DEF SeenTo, Policy, StopAlone
<1>15. TimerAlone(w)' /\ RequestFresh(w)' /\ Paid(w)'
  BY <1>1, <1>2, <1>3, <1>9, <1>10
     DEF Policy, TimerAlone, RequestFresh, Paid, Entered, Threads
<1>16. StopHeld(w)'
  BY <1>1, <1>2, <1>3, <1>5 DEF Policy, StopHeld, StartSteps, Attended, Threads
<1>17. Policy(w)'
  BY <1>11, <1>12, <1>13, <1>14, <1>15, <1>16 DEF Policy
<1> QED BY <1>2, <1>6, <1>7, <1>8, <1>17, OneWorkerSteps

\* The stop has nothing left to end: what it signalled is gone, and no thread of
\* the worker is starting another.
LEMMA DropPolicy ==
  ASSUME PolicyInv, LeaseInv', NEW w \in Workers, Drop(w)
  PROVE  PolicyInv'
<1> DEFINE go == thread[w]["request"].next
           c == [Idle EXCEPT !.pc = go, !.manual = (go = "enter")]
           s == [svc[w] EXCEPT !.lease = None, !.proc = None]
<1>1. /\ Policy(w) /\ PolicyShapes /\ SupervisorShapes
      /\ svc[w] \in ServiceRecords /\ thread[w]["request"].pc = "drop"
      /\ "request" \in Threads /\ thread[w]["request"] \in ThreadRecords
  BY DEF PolicyInv, LeaseInv, SupervisorShapes, Drop, Threads
<1>2. /\ UNCHANGED <<used, blips, unattended, raced, launchFailed>>
      /\ thread' = [thread EXCEPT ![w]["request"] = c]
      /\ svc' = [svc EXCEPT ![w] = s]
      /\ stopped' = [stopped EXCEPT ![w] = go # "enter"]
      /\ run' = run \/ run' = ReleaseOf(run, svc[w].lease)
  BY <1>1 DEF Drop, countVars, SupervisorShapes
<1>3. /\ go \in {"idle", "enter", "forget"} /\ c.pc = go /\ c.manual = (go = "enter")
      /\ s.desired = svc[w].desired /\ s.state = svc[w].state /\ s.fast = svc[w].fast
      /\ s.timer = svc[w].timer /\ s.proc = None /\ s.waits = svc[w].waits
  BY <1>1 DEF ServiceRecords, ThreadRecords, Idle
<1> HIDE DEF go, c, s
<1>4. svc'[w] = s /\ \A v \in Workers : v # w => svc'[v] = svc[v]
  BY <1>1, <1>2 DEF SupervisorShapes
<1>5. /\ thread'[w]["request"] = c
      /\ \A v \in Workers, u \in Threads :
           v # w \/ u # "request" => thread'[v][u] = thread[v][u]
  BY <1>1, <1>2 DEF SupervisorShapes
<1>6. /\ stopped'[w] <=> go # "enter"
      /\ \A v \in Workers : v # w => stopped'[v] = stopped[v]
      /\ stopped' \in [Workers -> BOOLEAN]
  BY <1>1, <1>2 DEF PolicyShapes
<1>7. \A id \in RunIds :
        /\ run'[id].by = run[id].by /\ run'[id].mine = run[id].mine
        /\ run'[id].pump = run[id].pump /\ run'[id].closed = run[id].closed
        /\ run'[id].orphan = run[id].orphan /\ run'[id].st = run[id].st
        /\ run[id] = Unborn => run'[id] = Unborn
  <2> SUFFICES ASSUME NEW id \in RunIds, run'[id] # run[id]
               PROVE  /\ run'[id].by = run[id].by /\ run'[id].mine = run[id].mine
                      /\ run'[id].pump = run[id].pump /\ run'[id].closed = run[id].closed
                      /\ run'[id].orphan = run[id].orphan /\ run'[id].st = run[id].st
                      /\ run[id] = Unborn => run'[id] = Unborn
    OBVIOUS
  <2>1. run[id] \in RunRecords
    BY <1>1 DEF SupervisorShapes
  <2>2. run'[id] = [run[id] EXCEPT !.owned = FALSE, !.beats = FALSE]
    <3>1. run \in [RunIds -> RunRecords]
      BY <1>1 DEF SupervisorShapes
    <3>2. svc[w].lease = id /\ run' = ReleaseOf(run, id)
      BY <1>2, <3>1 DEF ReleaseOf
    <3> QED BY <3>1, <3>2 DEF ReleaseOf
  <2>3. run[id].owned = FALSE /\ run[id].beats = FALSE =>
          [run[id] EXCEPT !.owned = FALSE, !.beats = FALSE] = run[id]
    BY <2>1 DEF RunRecords
  <2>4. run[id] = Unborn => run'[id] = Unborn
    BY <2>2, <2>3 DEF Unborn
  <2> QED BY <2>1, <2>2, <2>4 DEF RunRecords
<1>8. \A v \in Workers : RunsStand(v)
  BY <1>7 DEF RunsStand
<1>9. PolicyShapes'
  BY <1>1, <1>2, <1>3, <1>4, <1>6 DEF PolicyShapes
<1>10. FreshAbove'
  BY <1>2, <1>7 DEF PolicyInv, FreshAbove
<1>11. \A v \in Workers : v # w => Untouched(v)
  BY <1>2, <1>4, <1>5, <1>6, <1>8 DEF Untouched, HistoryStands
<1>12. ~Open(w)' /\ (Arming(w)' <=> Arming(w))
  BY <1>3, <1>4, <1>7 DEF Open, Arming
<1>13. StopAlone(w)' /\ Deliberate(w)'
  BY <1>1, <1>3, <1>4, <1>5
     DEF Policy, StopAlone, Deliberate, InStart, StartSteps, StopSteps, Threads
<1>14. (\A u \in Threads : OwnRun(w, u)') /\ RunsApart(w)'
  BY <1>1, <1>3, <1>5, <1>8, OwnRunStands DEF Policy, RunsApart, Claimed, Threads
<1>15. ProcSound(w)'
  BY <1>3, <1>4 DEF ProcSound
<1>16. svc[w].desired = "stopped" /\ thread[w]["timer"].pc \notin StartSteps
  BY <1>1 DEF Policy, StopAlone, StopSteps
<1>17. SeenTo(w)'
  BY <1>3, <1>4, <1>16 DEF SeenTo
<1>18. TimerAlone(w)' /\ RequestFresh(w)' /\ Paid(w)'
  BY <1>1, <1>2, <1>3, <1>4, <1>5, <1>12
     DEF Policy, TimerAlone, RequestFresh, Paid, Entered, Threads
<1>19. StopHeld(w)'
  <2>1. ASSUME blips = 0
        PROVE  \A id \in RunIds : Attended(id)' /\ run'[id].mine => run'[id].by # w
    <3>1. \A id \in RunIds : Attended(id) /\ run[id].mine => run[id].by # w
      BY <1>1, <2>1 DEF PolicyInv, LeaseInv, Core, Signalled
    <3> QED BY <1>8, <3>1, AttendedStands
  <2> QED BY <1>2, <1>3, <1>4, <1>5, <1>6, <1>16, <2>1 DEF StopHeld, StartSteps, Threads
<1>20. Policy(w)'
  BY <1>13, <1>14, <1>15, <1>17, <1>18, <1>19 DEF Policy
<1> QED BY <1>2, <1>9, <1>10, <1>11, <1>20, OneWorkerSteps

\* The record is dropped, and with it whatever was to be decided on.
LEMMA ForgetPolicy ==
  ASSUME PolicyInv, LeaseInv', NEW w \in Workers, Forget(w) \/ Detach(w)
  PROVE  PolicyInv'
<1>1. /\ Policy(w) /\ PolicyShapes /\ SupervisorShapes
      /\ "request" \in Threads /\ "timer" \in Threads
  BY DEF PolicyInv, LeaseInv, Threads
<1>2. /\ UNCHANGED <<used, blips, unattended, raced, launchFailed, stopped>>
      /\ svc' = [svc EXCEPT ![w] = NewService] /\ run' = Forgotten(w)
  BY DEF Forget, Detach, countVars, histVars
<1>3. /\ svc'[w].desired = "stopped" /\ svc'[w].state = "stopped" /\ svc'[w].fast = 0
      /\ svc'[w].waits = 0 /\ ~svc'[w].timer /\ svc'[w].proc = None
      /\ \A v \in Workers : v # w => svc'[v] = svc[v]
  BY <1>1, <1>2 DEF SupervisorShapes, NewService
<1>4. /\ thread[w]["timer"].pc \notin StartSteps
      /\ thread'[w]["request"].pc = "idle" /\ thread'[w]["timer"] = thread[w]["timer"]
      /\ \A v \in Workers, u \in Threads : v # w => thread'[v][u] = thread[v][u]
  <2>1. CASE Forget(w)
    <3>1. Finish(w, "request") /\ thread[w]["request"].pc = "forget"
      BY <2>1 DEF Forget
    <3> QED BY <1>1, <3>1, ThreadEnds DEF Policy, StopAlone
  <2>2. CASE Detach(w)
    <3>1. thread' = thread /\ thread[w]["timer"].pc = "idle" /\ thread[w]["request"].pc = "idle"
      BY <2>2, <1>1 DEF Detach, Idle
    <3> QED BY <3>1 DEF StartSteps
  <2> QED BY <2>1, <2>2
<1>5. \A id \in RunIds :
        /\ run[id].by # w => run'[id] = run[id]
        /\ run[id].by = w => run'[id].by = w /\ ~run'[id].mine
  <2>1. \A id \in RunIds : run[id] \in RunRecords
    BY <1>1 DEF SupervisorShapes
  <2> QED BY <1>2, <2>1 DEF Forgotten, RunRecords
<1>6. PolicyShapes'
  <2>1. 0 <= RetryBudget
    BY SupervisorAssumption
  <2> QED BY <1>1, <1>2, <1>3, <2>1 DEF PolicyShapes
<1>7. FreshAbove'
  <2>1. \A id \in RunIds : id > used => run[id] = Unborn /\ run[id].by # w
    BY SupervisorAssumption DEF PolicyInv, FreshAbove, Unborn, None
  <2> QED BY <1>2, <1>5, <2>1 DEF FreshAbove
<1>8. \A v \in Workers : v # w => Untouched(v)
  <2>1. \A v \in Workers : v # w => RunsStand(v)
    BY <1>5 DEF RunsStand
  <2> QED BY <1>2, <1>3, <1>4, <2>1 DEF Untouched, HistoryStands
<1>9. ~Open(w)' /\ ~Arming(w)'
  BY <1>3, <1>5 DEF Open, Arming
<1>10. StopAlone(w)' /\ Deliberate(w)' /\ (\A u \in Threads : OwnRun(w, u)') /\ RunsApart(w)'
  BY <1>1, <1>4 DEF Policy, StopAlone, Deliberate, OwnRun, RunsApart, InStart, Claimed,
     StartSteps, StopSteps, Threads
<1>11. ProcSound(w)' /\ SeenTo(w)'
  BY <1>3 DEF ProcSound, SeenTo
<1>12. 0 < GiveUpAfter
  BY SupervisorAssumption
<1>13. TimerAlone(w)'
  BY <1>3, <1>4, <1>9, <1>12 DEF TimerAlone, InStart, Entered, StartSteps
<1>14. RequestFresh(w)' /\ Paid(w)'
  BY <1>1, <1>2, <1>3, <1>4, <1>9 DEF Policy, RequestFresh, Paid, Entered
<1>15. StopHeld(w)'
  BY <1>3, <1>4, <1>5 DEF StopHeld, StartSteps
<1>16. Policy(w)'
  BY <1>10, <1>11, <1>13, <1>14, <1>15 DEF Policy
<1> QED BY <1>2, <1>6, <1>7, <1>8, <1>16, OneWorkerSteps

\* A dead worker owes nothing: its record, threads and history are new.
LEMMA WorkerDiesPolicy ==
  ASSUME PolicyInv, LeaseInv', NEW w \in Workers, WorkerDies(w)
  PROVE  PolicyInv'
<1>1. /\ Policy(w) /\ PolicyShapes /\ SupervisorShapes
      /\ "request" \in Threads /\ "timer" \in Threads
  BY DEF PolicyInv, LeaseInv, Threads
<1>2. /\ UNCHANGED <<used, blips>>
      /\ svc' = [svc EXCEPT ![w] = NewService]
      /\ thread' = [thread EXCEPT ![w] = [t \in Threads |-> Idle]]
  BY DEF WorkerDies
<1>3. /\ svc'[w].desired = "stopped" /\ svc'[w].state = "stopped" /\ svc'[w].fast = 0
      /\ svc'[w].waits = 0 /\ ~svc'[w].timer /\ svc'[w].proc = None
      /\ \A v \in Workers : v # w => svc'[v] = svc[v]
  BY <1>1, <1>2 DEF SupervisorShapes, NewService
<1>4. /\ \A t \in Threads : thread'[w][t].pc = "idle" /\ ~thread'[w][t].manual
      /\ \A v \in Workers, u \in Threads : v # w => thread'[v][u] = thread[v][u]
  BY <1>1, <1>2 DEF SupervisorShapes, Idle
<1>5. /\ unattended' = [unattended EXCEPT ![w] = 0] /\ raced' = [raced EXCEPT ![w] = FALSE]
      /\ launchFailed' = [launchFailed EXCEPT ![w] = FALSE]
      /\ stopped' = [stopped EXCEPT ![w] = FALSE]
  BY DEF WorkerDies
<1>6. \A id \in RunIds :
        /\ run[id].by # w => run'[id] = run[id]
        /\ run[id].by = w => run'[id].by = w /\ ~run'[id].mine
  <2>1. \A id \in RunIds : run[id] \in RunRecords
    BY <1>1 DEF SupervisorShapes
  <2> QED BY <2>1 DEF WorkerDies, RunRecords
<1>7. PolicyShapes'
  <2>1. 0 <= RetryBudget
    BY SupervisorAssumption
  <2> QED BY <1>1, <1>3, <1>5, <2>1 DEF PolicyShapes
<1>8. FreshAbove'
  <2>1. \A id \in RunIds : id > used => run[id] = Unborn /\ run[id].by # w
    BY SupervisorAssumption DEF PolicyInv, FreshAbove, Unborn, None
  <2> QED BY <1>2, <1>6, <2>1 DEF FreshAbove
<1>9. \A v \in Workers : v # w => Untouched(v)
  <2>1. \A v \in Workers : v # w => RunsStand(v)
    BY <1>6 DEF RunsStand
  <2>2. \A v \in Workers : v # w => HistoryStands(v)
    BY <1>1, <1>5 DEF HistoryStands, PolicyShapes
  <2> QED BY <1>3, <1>4, <2>1, <2>2 DEF Untouched
<1>10. ~Open(w)' /\ ~Arming(w)' /\ unattended'[w] = 0
  BY <1>1, <1>3, <1>5, <1>6 DEF Open, Arming, PolicyShapes
<1>11. /\ StopAlone(w)' /\ Deliberate(w)' /\ (\A u \in Threads : OwnRun(w, u)')
       /\ RunsApart(w)' /\ TimerAlone(w)' /\ RequestFresh(w)'
  BY <1>1, <1>4 DEF StopAlone, Deliberate, OwnRun, RunsApart, TimerAlone, RequestFresh,
     InStart, Claimed, Entered, StartSteps, StopSteps
<1>12. ProcSound(w)' /\ SeenTo(w)' /\ Paid(w)'
  BY <1>3, <1>10, SupervisorAssumption DEF ProcSound, SeenTo, Paid
<1>13. StopHeld(w)'
  BY <1>1, <1>5 DEF StopHeld, PolicyShapes
<1>14. Policy(w)'
  BY <1>11, <1>12, <1>13 DEF Policy
<1> QED BY <1>2, <1>7, <1>8, <1>9, <1>14, OneWorkerSteps

-----------------------------------------------------------------------------
(* Requests and the timer *)

\* A record that was just registered starts deliberately, or not at all.
LEMMA InstallPolicy ==
  ASSUME PolicyInv, LeaseInv', NEW w \in Workers, Install(w) \/ Attach(w)
  PROVE  PolicyInv'
<1> DEFINE c == [Idle EXCEPT !.pc = "enter", !.manual = TRUE]
<1>1. /\ Policy(w) /\ PolicyShapes /\ SupervisorShapes /\ "request" \in Threads
  BY DEF PolicyInv, LeaseInv, Threads
<1>2. /\ UNCHANGED <<svc, run, used, blips, unattended, raced, launchFailed, stopped>>
      /\ thread' = thread \/ thread' = [thread EXCEPT ![w]["request"] = c]
  BY DEF Install, Attach, countVars, histVars
<1>3. c.pc = "enter" /\ c.manual
  BY DEF Idle
<1> HIDE DEF c
<1>4. /\ \/ thread'[w]["request"] = thread[w]["request"]
         \/ thread'[w]["request"].pc = "enter" /\ thread'[w]["request"].manual
      /\ \A v \in Workers, u \in Threads :
           v # w \/ u # "request" => thread'[v][u] = thread[v][u]
  BY <1>1, <1>2, <1>3 DEF SupervisorShapes
<1>5. PolicyShapes' /\ FreshAbove'
  BY <1>1, <1>2 DEF PolicyInv, PolicyShapes, FreshAbove
<1>6. \A v \in Workers : RunsStand(v) /\ HistoryStands(v)
  BY <1>2 DEF RunsStand, HistoryStands
<1>7. \A v \in Workers : v # w => Untouched(v)
  BY <1>2, <1>4, <1>6 DEF Untouched
<1>8. (Open(w)' <=> Open(w)) /\ (Arming(w)' <=> Arming(w)) /\ (Watched(w)' <=> Watched(w))
  BY <1>2, <1>6, RunsStandFacts
<1>9. StopAlone(w)' /\ Deliberate(w)'
  BY <1>1, <1>2, <1>4
     DEF Policy, StopAlone, Deliberate, InStart, StartSteps, StopSteps, Threads
<1>10. (\A u \in Threads : OwnRun(w, u)') /\ RunsApart(w)'
  BY <1>1, <1>4, <1>6, OwnRunStands DEF Policy, RunsApart, Claimed, Threads
<1>11. ProcSound(w)'
  BY <1>2, <1>6, ProcStands
<1>12. SeenTo(w)' /\ TimerAlone(w)' /\ RequestFresh(w)' /\ Paid(w)'
  BY <1>1, <1>2, <1>4, <1>8
     DEF Policy, SeenTo, TimerAlone, RequestFresh, Paid, InStart, Entered, Threads
<1>13. StopHeld(w)'
  BY <1>1, <1>2, <1>4 DEF Policy, StopHeld, StartSteps, Attended, Threads
<1>14. Policy(w)'
  BY <1>9, <1>10, <1>11, <1>12, <1>13 DEF Policy
<1> QED BY <1>2, <1>5, <1>7, <1>14, OneWorkerSteps

\* An operator request begins a stop or a deliberate start.
LEMMA RequestPolicy ==
  ASSUME PolicyInv, LeaseInv', ~crossed', NEW w \in Workers,
         NEW what \in {"start", "stop", "restart", "uninstall"}, Request(w, what)
  PROVE  PolicyInv'
<1>1. /\ Policy(w) /\ PolicyShapes /\ SupervisorShapes /\ "request" \in Threads
  BY DEF PolicyInv, LeaseInv, Threads
<1>2. UNCHANGED <<svc, run, used, blips, unattended, raced, launchFailed, stopped>>
  BY DEF Request, histVars
<1>3. /\ thread[w]["request"].pc = "idle"
      /\ \/ thread'[w]["request"].pc = "enter" /\ thread'[w]["request"].manual
         \/ thread'[w]["request"].pc = "halt" /\ thread[w]["timer"].pc \notin StartSteps
      /\ \A v \in Workers, u \in Threads :
           v # w \/ u # "request" => thread'[v][u] = thread[v][u]
  <2> DEFINE c == [pc |-> IF what = "start" THEN "enter" ELSE "halt",
                   manual |-> TRUE, id |-> None,
                   next |-> CASE what = "restart" -> "enter"
                              [] what = "uninstall" -> "forget"
                              [] OTHER -> "idle"]
  <2>1. /\ thread' = [thread EXCEPT ![w]["request"] = c]
        /\ thread[w]["request"] = Idle
        /\ crossed' = (crossed \/ (what # "start" /\ Starting(w)))
    BY DEF Request
  <2>2. c.pc = (IF what = "start" THEN "enter" ELSE "halt") /\ c.manual
    OBVIOUS
  <2> HIDE DEF c
  <2>3. what # "start" => thread[w]["timer"].pc \notin StartSteps
    BY <2>1 DEF Starting, StartSteps, Threads
  <2> QED BY <1>1, <2>1, <2>2, <2>3 DEF SupervisorShapes, Idle
<1>4. PolicyShapes' /\ FreshAbove'
  BY <1>1, <1>2 DEF PolicyInv, PolicyShapes, FreshAbove
<1>5. \A v \in Workers : RunsStand(v) /\ HistoryStands(v)
  BY <1>2 DEF RunsStand, HistoryStands
<1>6. \A v \in Workers : v # w => Untouched(v)
  BY <1>2, <1>3, <1>5 DEF Untouched
<1>7. (Open(w)' <=> Open(w)) /\ (Arming(w)' <=> Arming(w)) /\ (Watched(w)' <=> Watched(w))
  BY <1>2, <1>5, RunsStandFacts
<1>8. StopAlone(w)' /\ Deliberate(w)'
  BY <1>1, <1>2, <1>3
     DEF Policy, StopAlone, Deliberate, InStart, StartSteps, StopSteps, Threads
<1>9. (\A u \in Threads : OwnRun(w, u)') /\ RunsApart(w)'
  BY <1>1, <1>3, <1>5, OwnRunStands DEF Policy, RunsApart, Claimed, Threads
<1>10. ProcSound(w)'
  BY <1>2, <1>5, ProcStands
<1>11. SeenTo(w)' /\ TimerAlone(w)' /\ RequestFresh(w)' /\ Paid(w)'
  BY <1>1, <1>2, <1>3, <1>7
     DEF Policy, SeenTo, TimerAlone, RequestFresh, Paid, InStart, Entered, Threads
<1>12. StopHeld(w)'
  BY <1>1, <1>2, <1>3 DEF Policy, StopHeld, StartSteps, Attended, Threads
<1>13. Policy(w)'
  BY <1>8, <1>9, <1>10, <1>11, <1>12 DEF Policy
<1> QED BY <1>2, <1>4, <1>6, <1>13, OneWorkerSteps

\* A config save pays the bill: nothing has crashed, nothing was started unattended.
LEMMA ConfigSavedPolicy ==
  ASSUME PolicyInv, LeaseInv', NEW w \in Workers, ConfigSaved(w)
  PROVE  PolicyInv'
<1> DEFINE s == [svc[w] EXCEPT !.fast = 0, !.state = IF @ = "gave_up" THEN "stopped" ELSE @]
<1>1. /\ Policy(w) /\ PolicyShapes /\ SupervisorShapes /\ svc[w] \in ServiceRecords
  BY DEF PolicyInv, LeaseInv, SupervisorShapes
<1>2. /\ UNCHANGED <<thread, run, used, blips, raced, launchFailed, stopped>>
      /\ svc' = [svc EXCEPT ![w] = s] /\ unattended' = [unattended EXCEPT ![w] = 0]
  BY <1>1 DEF ConfigSaved, SupervisorShapes
<1>3. /\ s.desired = svc[w].desired /\ s.fast = 0 /\ s.timer = svc[w].timer
      /\ s.proc = svc[w].proc /\ s.waits = svc[w].waits
      /\ s.state # "gave_up"
      /\ s.state \in {"running", "backing_off"} => s.state = svc[w].state
  BY <1>1 DEF ServiceRecords
<1> HIDE DEF s
<1>4. /\ svc'[w] = s /\ (\A v \in Workers : v # w => svc'[v] = svc[v])
      /\ unattended'[w] = 0 /\ (\A v \in Workers : v # w => unattended'[v] = unattended[v])
  BY <1>1, <1>2 DEF SupervisorShapes, PolicyShapes
<1>5. PolicyShapes' /\ FreshAbove'
  BY <1>1, <1>2, <1>3, <1>4 DEF PolicyInv, PolicyShapes, FreshAbove
<1>6. \A v \in Workers : RunsStand(v)
  BY <1>2 DEF RunsStand
<1>7. \A v \in Workers : v # w => Untouched(v)
  BY <1>2, <1>4, <1>6 DEF Untouched, HistoryStands
<1>8. (Open(w)' <=> Open(w)) /\ (Arming(w)' <=> Arming(w)) /\ (Watched(w)' <=> Watched(w))
  BY <1>3, <1>4, <1>6, RunsStandFacts
<1>9. StopAlone(w)' /\ Deliberate(w)'
  BY <1>1, <1>2, <1>3, <1>4 DEF Policy, StopAlone, Deliberate
<1>10. (\A u \in Threads : OwnRun(w, u)') /\ RunsApart(w)'
  BY <1>1, <1>2, <1>6, OwnRunStands DEF Policy, RunsApart
<1>11. ProcSound(w)'
  BY <1>3, <1>4, <1>6, ProcStands
<1>12. SeenTo(w)'
  BY <1>1, <1>2, <1>3, <1>4, <1>8 DEF Policy, SeenTo
<1>13. GiveUpAfter \in Nat /\ 0 < GiveUpAfter
  BY SupervisorAssumption
<1>14. TimerAlone(w)' /\ RequestFresh(w)' /\ Paid(w)'
  BY <1>1, <1>2, <1>3, <1>4, <1>8, <1>13 DEF Policy, TimerAlone, RequestFresh, Paid
<1>15. StopHeld(w)'
  BY <1>1, <1>2, <1>3, <1>4 DEF Policy, StopHeld, Attended
<1>16. Policy(w)'
  BY <1>9, <1>10, <1>11, <1>12, <1>14, <1>15 DEF Policy
<1> QED BY <1>2, <1>5, <1>7, <1>16, OneWorkerSteps

\* The timer starts a worker that is neither stopped, given up nor alive.
LEMMA TimerFiresPolicy ==
  ASSUME PolicyInv, LeaseInv', ~crossed', NEW w \in Workers, TimerFires(w)
  PROVE  PolicyInv'
<1> DEFINE go == svc[w].desired = "running" /\ svc[w].state # "gave_up" /\ ~Alive(svc[w].proc)
           s == [svc[w] EXCEPT !.timer = FALSE]
<1>1. /\ Policy(w) /\ PolicyShapes /\ SupervisorShapes /\ svc[w] \in ServiceRecords
      /\ "timer" \in Threads /\ thread[w]["timer"].pc = "idle" /\ svc[w].timer
      /\ ~thread[w]["timer"].manual
  BY DEF PolicyInv, LeaseInv, SupervisorShapes, TimerFires, Threads, Idle
<1>2. /\ UNCHANGED <<run, used, blips, unattended, launchFailed, stopped>>
      /\ svc' = [svc EXCEPT ![w] = s]
      /\ go => ~Stopping(w) /\ Goto(w, "timer", "enter")
      /\ ~go => thread' = thread
      /\ raced' = [raced EXCEPT ![w] = @ \/ (go /\ Racing(w, "timer"))]
  <2>1. thread[w]["timer"] = Idle /\ svc' = [svc EXCEPT ![w] = s]
    BY <1>1 DEF TimerFires, SupervisorShapes
  <2> HIDE DEF s
  <2>2. /\ UNCHANGED <<run, used, blips, unattended, launchFailed, stopped>>
        /\ crossed' = (crossed \/ (go /\ Stopping(w)))
        /\ thread' = IF go THEN [thread EXCEPT ![w]["timer"].pc = "enter"] ELSE thread
        /\ raced' = [raced EXCEPT ![w] = @ \/ (go /\ Racing(w, "timer"))]
    BY DEF TimerFires
  <2> HIDE DEF go
  <2> QED BY <2>1, <2>2 DEF Goto
<1>3. /\ s.desired = svc[w].desired /\ s.fast = svc[w].fast /\ ~s.timer
      /\ s.proc = svc[w].proc /\ s.waits = svc[w].waits /\ s.state = svc[w].state
  BY <1>1 DEF ServiceRecords
<1> HIDE DEF s, go
<1>4. /\ svc'[w] = s /\ (\A v \in Workers : v # w => svc'[v] = svc[v])
      /\ raced'[w] <=> (raced[w] \/ (go /\ Racing(w, "timer")))
      /\ \A v \in Workers : v # w => raced'[v] = raced[v]
  BY <1>1, <1>2 DEF SupervisorShapes, PolicyShapes
<1>5. /\ thread'[w]["timer"].pc = IF go THEN "enter" ELSE "idle"
      /\ ~thread'[w]["timer"].manual
      /\ \A v \in Workers, u \in Threads :
           v # w \/ u # "timer" => thread'[v][u] = thread[v][u]
  <2>1. CASE go
    BY <1>1, <1>2, <2>1, ThreadGoes DEF Pcs, StartSteps
  <2>2. CASE ~go
    BY <1>1, <1>2, <2>2
  <2> QED BY <2>1, <2>2
<1>6. PolicyShapes' /\ FreshAbove'
  BY <1>1, <1>2, <1>3, <1>4 DEF PolicyInv, PolicyShapes, FreshAbove
<1>7. \A v \in Workers : RunsStand(v)
  BY <1>2 DEF RunsStand
<1>8. \A v \in Workers : v # w => Untouched(v)
  BY <1>2, <1>4, <1>5, <1>7 DEF Untouched, HistoryStands
<1>9. (Open(w)' <=> Open(w)) /\ (Arming(w)' <=> Arming(w)) /\ (Watched(w)' <=> Watched(w))
  BY <1>3, <1>4, <1>7, RunsStandFacts
<1>10. go => /\ svc[w].desired = "running" /\ svc[w].state # "gave_up"
             /\ thread[w]["request"].pc \notin StopSteps \union {"forget"}
  BY <1>1, <1>2 DEF go, Stopping, StopSteps, Policy, StopAlone, Threads
<1>11. ~go /\ svc[w].desired = "running" /\ svc[w].state # "gave_up" => Watched(w)
  BY <1>1 DEF go, Alive, Policy, ProcSound, Watched, ServiceRecords
<1>12. go /\ ~raced'[w] => ~Arming(w) /\ ~Open(w) /\ thread[w]["request"].pc \notin InStart
  <2>1. go /\ ~raced'[w] => ~Unsettled(w) /\ thread[w]["request"].pc \notin InStart
    BY <1>4 DEF Racing, InStart, Threads
  <2>2. ~Unsettled(w) => ~Arming(w)
    BY DEF Unsettled, Arming
  <2>3. go /\ ~Unsettled(w) => ~Open(w)
    BY <1>1 DEF go, Alive, Unsettled, Open, Policy, ProcSound, ServiceRecords
  <2> QED BY <2>1, <2>2, <2>3
<1>13. StopAlone(w)' /\ Deliberate(w)'
  BY <1>1, <1>3, <1>4, <1>5, <1>10
     DEF Policy, StopAlone, Deliberate, InStart, StartSteps, StopSteps, Threads
<1>14. (\A u \in Threads : OwnRun(w, u)') /\ RunsApart(w)'
  BY <1>1, <1>5, <1>7, OwnRunStands DEF Policy, RunsApart, Claimed, Threads
<1>15. ProcSound(w)'
  BY <1>3, <1>4, <1>7, ProcStands
<1>16. SeenTo(w)'
  BY <1>1, <1>3, <1>4, <1>5, <1>9, <1>11 DEF SeenTo, InStart
<1>17. TimerAlone(w)'
  BY <1>1, <1>2, <1>3, <1>4, <1>5, <1>9, <1>10, <1>12
     DEF Policy, Paid, TimerAlone, InStart, Entered, Threads
<1>18. RequestFresh(w)' /\ Paid(w)'
  BY <1>1, <1>2, <1>3, <1>4, <1>5, <1>9
     DEF Policy, RequestFresh, Paid, Entered, Threads
<1>19. StopHeld(w)'
  BY <1>1, <1>2, <1>3, <1>4, <1>5, <1>10 DEF Policy, StopHeld, StartSteps, Attended, Threads
<1>20. Policy(w)'
  BY <1>13, <1>14, <1>15, <1>16, <1>17, <1>18, <1>19 DEF Policy
<1> QED BY <1>2, <1>6, <1>8, <1>20, OneWorkerSteps

-----------------------------------------------------------------------------
(* Processes and their reader threads *)

\* A step of one run that moves no thread and writes no record; a process that
\* ends, or closes its output, is let go of.
LEMMA ProcessSteps ==
  ASSUME PolicyInv, LeaseInv', NEW id \in RunIds, NEW r \in RunRecords,
         run' = [run EXCEPT ![id] = r],
         UNCHANGED <<svc, thread, used, blips, unattended, raced, launchFailed, stopped>>,
         run[id].st \in {"alive", "quiet"}, r.st \in {"quiet", "dead"},
         r.st = "quiet" => r.closed, run[id].closed => r.closed,
         r.by = run[id].by, r.mine = run[id].mine, r.orphan = run[id].orphan,
         r.pump = IF run[id].pump = "reading" THEN "release" ELSE run[id].pump
  PROVE  PolicyInv'
<1>1. /\ PolicyShapes /\ SupervisorShapes /\ run[id] \in RunRecords
      /\ \A w \in Workers : Policy(w) /\ svc[w].proc \in RunIds \union {None}
  BY DEF PolicyInv, LeaseInv, SupervisorShapes, ServiceRecords
<1>2. run'[id] = r /\ \A i \in RunIds : i # id => run'[i] = run[i]
  BY <1>1 DEF SupervisorShapes
<1>3. PolicyShapes'
  BY <1>1 DEF PolicyShapes
<1>4. FreshAbove'
  <2>1. ~(id > used)
    BY DEF PolicyInv, FreshAbove, Unborn
  <2> QED BY <1>2, <2>1 DEF PolicyInv, FreshAbove
<1>5. ASSUME NEW w \in Workers PROVE Policy(w)'
  <2>1. Policy(w)
    BY <1>1
  <2>2. (Arming(w)' <=> Arming(w)) /\ (Open(w)' <=> Open(w)) /\ (Watched(w) => Watched(w)')
    BY <1>1, <1>2 DEF Arming, Open, Watched
  <2>3. StopAlone(w)' /\ Deliberate(w)' /\ RunsApart(w)'
    BY <2>1 DEF Policy, StopAlone, Deliberate, RunsApart
  <2>4. \A t \in Threads : OwnRun(w, t)'
    BY <1>2, <2>1 DEF Policy, OwnRun
  <2>5. ProcSound(w)'
    BY <1>1, <1>2, <2>1, <2>2 DEF Policy, ProcSound
  <2>6. SeenTo(w)' /\ TimerAlone(w)' /\ RequestFresh(w)' /\ Paid(w)'
    BY <2>1, <2>2 DEF Policy, SeenTo, TimerAlone, RequestFresh, Paid
  <2>7. StopHeld(w)'
    BY <1>2, <2>1 DEF Policy, StopHeld, Attended
  <2> QED BY <2>3, <2>4, <2>5, <2>6, <2>7 DEF Policy
<1> QED BY <1>3, <1>4, <1>5 DEF PolicyInv

\* A process ends or closes its output: there is something to decide on.
LEMMA ExitsPolicy ==
  ASSUME PolicyInv, LeaseInv', NEW id \in RunIds, Exits(id) \/ ClosesOutput(id)
  PROVE  PolicyInv'
<1>1. UNCHANGED <<svc, thread, used, blips, unattended, raced, launchFailed, stopped>>
  BY DEF Exits, ClosesOutput, histVars
<1>2. run \in [RunIds -> RunRecords] /\ run[id] \in RunRecords
  BY DEF PolicyInv, LeaseInv, SupervisorShapes
<1>3. CASE Exits(id)
  <2> DEFINE r == [run[id] EXCEPT !.st = "dead",
                                  !.pump = IF @ = "reading" THEN "release" ELSE @]
  <2>1. run' = [run EXCEPT ![id] = r] /\ run[id].st \in {"alive", "quiet"}
    BY <1>2, <1>3 DEF Exits, Alive
  <2>2. /\ r \in RunRecords /\ r.st = "dead" /\ r.closed = run[id].closed
        /\ r.by = run[id].by /\ r.mine = run[id].mine /\ r.orphan = run[id].orphan
        /\ r.pump = IF run[id].pump = "reading" THEN "release" ELSE run[id].pump
    BY <1>2 DEF RunRecords
  <2> HIDE DEF r
  <2> QED BY <1>1, <2>1, <2>2, ProcessSteps
<1>4. CASE ClosesOutput(id)
  <2> DEFINE r == [run[id] EXCEPT !.st = "quiet", !.closed = TRUE, !.pump = "release"]
  <2>1. /\ run' = [run EXCEPT ![id] = r]
        /\ run[id].st = "alive" /\ run[id].pump = "reading"
    BY <1>2, <1>4 DEF ClosesOutput
  <2>2. /\ r \in RunRecords /\ r.st = "quiet" /\ r.closed
        /\ r.by = run[id].by /\ r.mine = run[id].mine /\ r.orphan = run[id].orphan
        /\ r.pump = "release"
    BY <1>2 DEF RunRecords
  <2> HIDE DEF r
  <2> QED BY <1>1, <2>1, <2>2, ProcessSteps
<1> QED BY <1>3, <1>4

\* A lease that is let go of changes nothing the policy goes by.
LEMMA PumpReleasesPolicy ==
  ASSUME PolicyInv, LeaseInv', NEW id \in RunIds, PumpReleases(id)
  PROVE  PolicyInv'
<1> DEFINE r == [run[id] EXCEPT !.owned = FALSE, !.beats = FALSE, !.pump = "decide"]
<1>1. /\ PolicyShapes /\ SupervisorShapes /\ run[id] \in RunRecords
      /\ \A w \in Workers : Policy(w) /\ svc[w] \in ServiceRecords
  BY DEF PolicyInv, LeaseInv, SupervisorShapes
<1>2. /\ UNCHANGED <<thread, used, blips, unattended, raced, launchFailed, stopped>>
      /\ run[id].pump = "release"
      /\ svc' = svc \/ svc' = [svc EXCEPT ![run[id].by].lease = None]
  BY DEF PumpReleases, histVars, countVars
<1>3. run' = [run EXCEPT ![id] = r]
  BY <1>1 DEF PumpReleases, ReleaseOf, SupervisorShapes
<1>4. /\ r.pump = "decide" /\ r.by = run[id].by /\ r.mine = run[id].mine
      /\ r.orphan = run[id].orphan /\ r.closed = run[id].closed /\ r.st = run[id].st
  BY <1>1 DEF RunRecords
<1> HIDE DEF r
<1>5. run'[id] = r /\ \A i \in RunIds : i # id => run'[i] = run[i]
  BY <1>1, <1>3 DEF SupervisorShapes
<1>6. \A w \in Workers :
        /\ svc'[w].desired = svc[w].desired /\ svc'[w].fast = svc[w].fast
        /\ svc'[w].timer = svc[w].timer /\ svc'[w].proc = svc[w].proc
        /\ svc'[w].waits = svc[w].waits /\ svc'[w].state = svc[w].state
  <2>1. ASSUME NEW w \in Workers
        PROVE  svc'[w] = svc[w] \/ svc'[w] = [svc[w] EXCEPT !.lease = None]
    BY <1>1, <1>2 DEF SupervisorShapes
  <2> QED BY <1>1, <2>1 DEF ServiceRecords
<1>7. PolicyShapes'
  BY <1>1, <1>2, <1>6 DEF PolicyShapes
<1>8. FreshAbove'
  <2>1. ~(id > used)
    BY <1>2 DEF PolicyInv, FreshAbove, Unborn
  <2> QED BY <1>2, <1>5, <2>1 DEF PolicyInv, FreshAbove
<1>9. ASSUME NEW w \in Workers PROVE Policy(w)'
  <2>1. Policy(w) /\ svc[w].proc \in RunIds \union {None}
    BY <1>1 DEF ServiceRecords
  <2>2. (Arming(w)' <=> Arming(w)) /\ (Open(w)' <=> Open(w)) /\ (Watched(w) => Watched(w)')
    BY <1>2, <1>4, <1>5, <1>6, <2>1 DEF Arming, Open, Watched
  <2>3. StopAlone(w)' /\ Deliberate(w)' /\ RunsApart(w)'
    BY <1>2, <1>6, <2>1 DEF Policy, StopAlone, Deliberate, RunsApart
  <2>4. \A t \in Threads : OwnRun(w, t)'
    BY <1>2, <1>4, <1>5, <2>1 DEF Policy, OwnRun
  <2>5. ProcSound(w)'
    BY <1>2, <1>4, <1>5, <1>6, <2>1, <2>2 DEF Policy, ProcSound
  <2>6. SeenTo(w)' /\ TimerAlone(w)' /\ RequestFresh(w)' /\ Paid(w)'
    BY <1>2, <1>6, <2>1, <2>2 DEF Policy, SeenTo, TimerAlone, RequestFresh, Paid
  <2>7. StopHeld(w)'
    BY <1>2, <1>4, <1>5, <1>6, <2>1 DEF Policy, StopHeld, Attended
  <2> QED BY <2>3, <2>4, <2>5, <2>6, <2>7 DEF Policy
<1> QED BY <1>7, <1>8, <1>9 DEF PolicyInv

\* What a reader thread does to its own run after the release.
LEMMA PumpGoesOn ==
  ASSUME PolicyInv, NEW id \in RunIds, NEW p \in {"done", "schedule", "record"},
         run' = [run EXCEPT ![id].pump = p]
  PROVE  /\ run'[id].pump = p /\ run'[id].by = run[id].by /\ run'[id].mine = run[id].mine
         /\ run'[id].orphan = run[id].orphan /\ run'[id].closed = run[id].closed
         /\ run'[id].st = run[id].st
         /\ \A i \in RunIds : i # id => run'[i] = run[i]
<1>1. run \in [RunIds -> RunRecords] /\ run[id] \in RunRecords
  BY DEF PolicyInv, LeaseInv, SupervisorShapes
<1> QED BY <1>1 DEF RunRecords

\* What is left of the invariant when no thread moves, no process ends, and one
\* reader thread has gone on.
LEMMA PumpSteps ==
  ASSUME PolicyInv, LeaseInv', NEW id \in RunIds, NEW p \in {"done", "schedule", "record"},
         run' = [run EXCEPT ![id].pump = p], run[id].pump \in {"decide", "schedule", "record"},
         UNCHANGED <<thread, used, blips, raced, launchFailed, stopped>>,
         unattended' \in [Workers -> Nat],
         \A w \in Workers : /\ svc'[w].desired = svc[w].desired /\ svc'[w].proc = svc[w].proc
                            /\ svc'[w].waits = svc[w].waits
                            /\ w # run[id].by =>
                                 svc'[w] = svc[w] /\ unattended'[w] = unattended[w],
         NEW w \in Workers, run[id].by = w,
         ProcSound(w)', SeenTo(w)', TimerAlone(w)', RequestFresh(w)', Paid(w)'
  PROVE  PolicyInv'
<1>1. /\ run'[id].pump = p /\ run'[id].by = run[id].by /\ run'[id].mine = run[id].mine
      /\ run'[id].orphan = run[id].orphan /\ run'[id].closed = run[id].closed
      /\ run'[id].st = run[id].st
      /\ \A i \in RunIds : i # id => run'[i] = run[i]
  BY PumpGoesOn
<1>2. Policy(w) /\ PolicyShapes /\ SupervisorShapes
  BY DEF PolicyInv, LeaseInv
<1>3. PolicyShapes'
  BY <1>2 DEF PolicyShapes
<1>4. FreshAbove'
  <2>1. ~(id > used)
    BY DEF PolicyInv, FreshAbove, Unborn
  <2> QED BY <1>1, <2>1 DEF PolicyInv, FreshAbove
<1>5. \A v \in Workers : v # w => Untouched(v)
  BY <1>1 DEF Untouched, RunsStand, HistoryStands
<1>6. StopAlone(w)' /\ Deliberate(w)' /\ RunsApart(w)'
  BY <1>2 DEF Policy, StopAlone, Deliberate, RunsApart
<1>7. \A t \in Threads : OwnRun(w, t)'
  BY <1>1, <1>2 DEF Policy, OwnRun
<1>8. StopHeld(w)'
  BY <1>1, <1>2 DEF Policy, StopHeld, Attended
<1>9. Policy(w)'
  BY <1>6, <1>7, <1>8 DEF Policy
<1> QED BY <1>3, <1>4, <1>5, <1>9, OneWorkerSteps

\* A reader thread of no worker decides about nobody.
LEMMA NobodysPump ==
  ASSUME PolicyInv, LeaseInv', NEW id \in RunIds, NEW p \in {"done", "schedule", "record"},
         run' = [run EXCEPT ![id].pump = p], run[id].pump \in {"decide", "schedule", "record"},
         UNCHANGED <<svc, thread, used, blips, unattended, raced, launchFailed, stopped>>,
         run[id].by \notin Workers
  PROVE  PolicyInv'
<1>1. /\ run'[id].by = run[id].by
      /\ \A i \in RunIds : i # id => run'[i] = run[i]
  BY PumpGoesOn
<1>2. PolicyShapes'
  BY DEF PolicyInv, PolicyShapes
<1>3. FreshAbove'
  <2>1. ~(id > used)
    BY DEF PolicyInv, FreshAbove, Unborn
  <2> QED BY <1>1, <2>1 DEF PolicyInv, FreshAbove
<1>4. \A v \in Workers : Untouched(v)
  BY <1>1 DEF Untouched, RunsStand, HistoryStands
<1> QED BY <1>2, <1>3, <1>4, NobodySteps

\* A straggler, a process that still runs, or the end a stop has asked for.
LEMMA PumpStandsBackPolicy ==
  ASSUME PolicyInv, LeaseInv', NEW id \in RunIds, PumpStandsBack(id)
  PROVE  PolicyInv'
<1> DEFINE straggler == ~run[id].mine \/ svc[run[id].by].proc # id
<1>1. /\ UNCHANGED <<thread, used, blips, unattended, raced, launchFailed, stopped>>
      /\ run[id].pump = "decide" /\ run' = [run EXCEPT ![id].pump = "done"]
      /\ \/ straggler /\ svc' = svc
         \/ /\ ~straggler /\ run[id].st = "quiet"
            /\ svc' = [svc EXCEPT ![run[id].by].state = "running"]
         \/ /\ ~straggler /\ run[id].st = "dead" /\ svc[run[id].by].desired # "running"
            /\ svc' = [svc EXCEPT ![run[id].by].state = "stopped"]
  BY DEF PumpStandsBack, histVars, countVars
<1>2. /\ PolicyShapes /\ SupervisorShapes
      /\ svc \in [Workers -> ServiceRecords]
  BY DEF PolicyInv, LeaseInv, SupervisorShapes
<1>3. CASE run[id].by \notin Workers
  <2>1. svc' = svc
    BY <1>1, <1>2, <1>3
  <2> HIDE DEF straggler
  <2> QED BY <1>1, <1>3, <2>1, NobodysPump
<1>4. ASSUME NEW w \in Workers, run[id].by = w PROVE PolicyInv'
  <2>1. /\ Policy(w) /\ svc[w] \in ServiceRecords /\ svc[w].proc \in RunIds \union {None}
    BY <1>2, <1>4 DEF PolicyInv, ServiceRecords
  <2>2. /\ svc'[w].desired = svc[w].desired /\ svc'[w].fast = svc[w].fast
        /\ svc'[w].timer = svc[w].timer /\ svc'[w].proc = svc[w].proc
        /\ svc'[w].waits = svc[w].waits
        /\ \/ straggler /\ svc'[w].state = svc[w].state
           \/ ~straggler /\ run[id].st = "quiet" /\ svc'[w].state = "running"
           \/ /\ ~straggler /\ svc[w].desired # "running" /\ svc'[w].state = "stopped"
        /\ \A v \in Workers : v # w => svc'[v] = svc[v]
    <3>1. CASE straggler /\ svc' = svc
      BY <3>1
    <3>2. CASE ~straggler /\ run[id].st = "quiet" /\ svc' = [svc EXCEPT ![w].state = "running"]
      BY <1>2, <1>4, <2>1, <3>2 DEF ServiceRecords
    <3>3. CASE /\ ~straggler /\ svc[w].desired # "running"
               /\ svc' = [svc EXCEPT ![w].state = "stopped"]
      BY <1>2, <1>4, <2>1, <3>3 DEF ServiceRecords
    <3>4. \/ straggler /\ svc' = svc
          \/ ~straggler /\ run[id].st = "quiet" /\ svc' = [svc EXCEPT ![w].state = "running"]
          \/ /\ ~straggler /\ svc[w].desired # "running"
             /\ svc' = [svc EXCEPT ![w].state = "stopped"]
      BY <1>1, <1>4
    <3> HIDE DEF straggler
    <3> QED BY <3>1, <3>2, <3>3, <3>4
  <2>3. /\ run'[id].pump = "done" /\ run'[id].by = run[id].by /\ run'[id].mine = run[id].mine
        /\ run'[id].orphan = run[id].orphan /\ run'[id].closed = run[id].closed
        /\ run'[id].st = run[id].st
        /\ \A i \in RunIds : i # id => run'[i] = run[i]
    BY <1>1, PumpGoesOn
  <2>4. /\ straggler => svc[w].proc # id
        /\ ~straggler => svc[w].proc = id /\ id # None /\ Open(w) /\ svc[w].state # "gave_up"
    <3>1. id # None
      BY DEF RunIds, None
    <3>2. svc[w].proc = id => run[id].mine /\ (Open(w) => svc[w].state # "gave_up")
      BY <2>1, <3>1 DEF Policy, ProcSound
    <3>3. straggler <=> ~run[id].mine \/ svc[w].proc # id
      BY <1>4
    <3>4. svc[w].proc = id => Open(w)
      BY <1>1, <3>1 DEF Open
    <3> HIDE DEF straggler
    <3> QED BY <3>1, <3>2, <3>3, <3>4
  <2> HIDE DEF straggler
  <2>5. /\ Arming(w)' <=> Arming(w)
        /\ Open(w)' <=> (straggler /\ Open(w))
        /\ straggler => (Watched(w)' <=> Watched(w))
        /\ ~straggler /\ run[id].closed => Watched(w)'
    BY <1>1, <2>1, <2>2, <2>3, <2>4 DEF Arming, Open, Watched
  <2>6. ProcSound(w)'
    BY <1>1, <2>1, <2>2, <2>3, <2>4, <2>5 DEF Policy, ProcSound
  <2>7. SeenTo(w)'
    <3>1. CASE straggler
      BY <1>1, <2>1, <2>2, <2>5, <3>1 DEF Policy, SeenTo
    <3>2. CASE ~straggler /\ run[id].st = "quiet"
      BY <2>1, <2>4, <2>5, <3>2 DEF Policy, ProcSound, SeenTo
    <3>3. CASE ~straggler /\ svc[w].desired # "running"
      BY <2>2, <3>3 DEF SeenTo
    <3> QED BY <2>2, <3>1, <3>2, <3>3
  <2>8. TimerAlone(w)' /\ RequestFresh(w)' /\ Paid(w)'
    <3>1. CASE straggler
      BY <1>1, <2>1, <2>2, <2>4, <2>5, <3>1 DEF Policy, TimerAlone, RequestFresh, Paid
    <3>2. CASE ~straggler
      BY <1>1, <2>1, <2>2, <2>4, <2>5, <3>2 DEF Policy, TimerAlone, RequestFresh, Paid
    <3> QED BY <3>1, <3>2
  <2>9. \A v \in Workers : /\ svc'[v].desired = svc[v].desired /\ svc'[v].proc = svc[v].proc
                           /\ svc'[v].waits = svc[v].waits
                           /\ v # w => svc'[v] = svc[v] /\ unattended'[v] = unattended[v]
    BY <1>1, <2>2
  <2>10. unattended' \in [Workers -> Nat]
    BY <1>1, <1>2 DEF PolicyShapes
  <2> QED BY <1>1, <1>4, <2>6, <2>7, <2>8, <2>9, <2>10, PumpSteps
<1> QED BY <1>3, <1>4

\* A crash is counted before the respawn it calls for; at the limit there is none.
LEMMA PumpDecidesPolicy ==
  ASSUME PolicyInv, LeaseInv', NEW id \in RunIds, PumpDecides(id)
  PROVE  PolicyInv'
<1>1. /\ PolicyShapes /\ SupervisorShapes
      /\ svc \in [Workers -> ServiceRecords]
  BY DEF PolicyInv, LeaseInv, SupervisorShapes
<1>2. /\ UNCHANGED <<thread, used, blips, raced, launchFailed, stopped>>
      /\ run[id].pump = "decide" /\ run[id].mine /\ run[id].st = "dead"
      /\ svc[run[id].by].proc = id /\ svc[run[id].by].desired = "running"
  BY DEF PumpDecides, countVars
<1>3. PICK ending \in {"healthy", "early", "collision"} :
        LET before == IF ending = "healthy" THEN 0 ELSE svc[run[id].by].fast
            after == IF ending = "healthy" THEN 0 ELSE before + 1
            gaveUp == ending = "collision" \/ (ending = "early" /\ after >= GiveUpAfter)
        IN  /\ svc' = [svc EXCEPT ![run[id].by].fast = after,
                                  ![run[id].by].state = IF gaveUp THEN "gave_up" ELSE "backing_off"]
            /\ run' = [run EXCEPT ![id].pump = IF gaveUp THEN "record" ELSE "schedule"]
            /\ unattended' = [unattended EXCEPT ![run[id].by] = IF ending = "healthy" THEN 0 ELSE @]
  BY DEF PumpDecides
<1> DEFINE after == IF ending = "healthy" THEN 0 ELSE svc[run[id].by].fast + 1
           gaveUp == ending = "collision" \/ (ending = "early" /\ after >= GiveUpAfter)
           p == IF gaveUp THEN "record" ELSE "schedule"
           st == IF gaveUp THEN "gave_up" ELSE "backing_off"
<1>4. /\ svc' = [svc EXCEPT ![run[id].by].fast = after, ![run[id].by].state = st]
      /\ run' = [run EXCEPT ![id].pump = p]
      /\ unattended' = [unattended EXCEPT ![run[id].by] = IF ending = "healthy" THEN 0 ELSE @]
  BY <1>3
<1>5. /\ p \in {"record", "schedule"} /\ st = (IF gaveUp THEN "gave_up" ELSE "backing_off")
      /\ p = "schedule" <=> ~gaveUp
  OBVIOUS
<1>6. CASE run[id].by \notin Workers
  <2> HIDE DEF p, st, gaveUp, after
  <2>1. svc' = svc /\ unattended' = unattended
    BY <1>1, <1>4, <1>6 DEF PolicyShapes
  <2> QED BY <1>2, <1>4, <1>5, <1>6, <2>1, NobodysPump
<1>7. ASSUME NEW w \in Workers, run[id].by = w PROVE PolicyInv'
  <2>1. /\ Policy(w) /\ svc[w] \in ServiceRecords /\ svc[w].fast \in Nat
        /\ unattended[w] \in Nat /\ GiveUpAfter \in Nat /\ 0 < GiveUpAfter
    BY <1>1, <1>7, SupervisorAssumption DEF PolicyInv, ServiceRecords, PolicyShapes
  <2>2. /\ after \in Nat
        /\ ending = "healthy" => after = 0
        /\ ending # "healthy" => after = svc[w].fast + 1
        /\ ~gaveUp => after < GiveUpAfter
    <3>1. after = IF ending = "healthy" THEN 0 ELSE svc[w].fast + 1
      BY <1>7
    <3>2. ~gaveUp => ending = "healthy" \/ (ending = "early" /\ ~(after >= GiveUpAfter))
      OBVIOUS
    <3> HIDE DEF gaveUp, after
    <3>3. CASE ending = "healthy"
      BY <2>1, <3>1, <3>3
    <3>4. CASE ending # "healthy"
      BY <2>1, <3>1, <3>2, <3>4
    <3> QED BY <3>3, <3>4
  <2> HIDE DEF after, gaveUp, p, st
  <2>3. /\ svc'[w].desired = "running" /\ svc'[w].fast = after /\ svc'[w].state = st
        /\ svc'[w].timer = svc[w].timer /\ svc'[w].proc = id
        /\ svc'[w].waits = svc[w].waits
        /\ \A v \in Workers : v # w => svc'[v] = svc[v]
    BY <1>1, <1>2, <1>4, <1>7, <2>1 DEF ServiceRecords
  <2>4. /\ unattended'[w] = IF ending = "healthy" THEN 0 ELSE unattended[w]
        /\ unattended' \in [Workers -> Nat]
        /\ \A v \in Workers : v # w => unattended'[v] = unattended[v]
    BY <1>1, <1>4, <1>7, <2>1 DEF PolicyShapes
  <2>5. /\ run'[id].pump = p /\ run'[id].by = run[id].by /\ run'[id].mine = run[id].mine
        /\ run'[id].orphan = run[id].orphan /\ run'[id].closed = run[id].closed
        /\ run'[id].st = run[id].st
        /\ \A i \in RunIds : i # id => run'[i] = run[i]
    BY <1>4, <1>5, PumpGoesOn
  <2>6. svc[w].proc = id /\ svc[w].desired = "running" /\ id # None /\ Open(w)
        /\ svc[w].state # "gave_up"
    <3>1. id # None /\ svc[w].proc = id /\ svc[w].desired = "running"
      BY <1>2, <1>7 DEF RunIds, None
    <3>2. Open(w)
      BY <1>2, <3>1 DEF Open
    <3> QED BY <2>1, <3>1, <3>2 DEF Policy, ProcSound
  <2>7. /\ ~Open(w)'
        /\ gaveUp => (Arming(w)' <=> Arming(w))
        /\ ~gaveUp => Watched(w)'
    <3>1. ~Open(w)'
      BY <1>5, <2>3, <2>5 DEF Open
    <3>2. gaveUp => p # "schedule"
      BY <1>5
    <3>3. gaveUp => (Arming(w)' <=> Arming(w))
      BY <1>2, <2>5, <3>2 DEF Arming
    <3>4. ~gaveUp => Watched(w)'
      BY <1>5, <2>3, <2>5, <2>6 DEF Watched
    <3> QED BY <3>1, <3>3, <3>4
  <2>8. ProcSound(w)'
    BY <1>2, <1>5, <2>1, <2>3, <2>5, <2>6, <2>7 DEF Policy, ProcSound
  <2>9. SeenTo(w)'
    BY <1>5, <2>3, <2>7 DEF SeenTo
  <2>10. TimerAlone(w)'
    BY <1>2, <2>1, <2>6 DEF Policy, TimerAlone
  <2>11. RequestFresh(w)'
    <3>1. ~raced[w] /\ thread[w]["request"].pc \in Entered =>
            unattended[w] = 0 /\ ~svc[w].timer /\ ~Arming(w)
      BY <2>1, <2>6 DEF Policy, RequestFresh
    <3>2. /\ unattended[w] = 0 => unattended'[w] = 0
          /\ gaveUp <=> st = "gave_up"
      BY <1>5, <2>4
    <3>3. gaveUp => (Arming(w)' <=> Arming(w))
      BY <2>7
    <3>4. svc'[w].state # "gave_up" => svc'[w].fast < GiveUpAfter
      BY <2>2, <2>3, <3>2
    <3>5. ~raced'[w] /\ thread'[w]["request"].pc \in Entered =>
            ~raced[w] /\ thread[w]["request"].pc \in Entered
      BY <1>2
    <3> QED BY <2>3, <2>7, <3>1, <3>2, <3>3, <3>4, <3>5 DEF RequestFresh
  <2>12. Paid(w)'
    <3>1. ~raced[w] => unattended[w] <= GiveUpAfter /\ unattended[w] <= svc[w].fast + 1
      BY <2>1, <2>6 DEF Policy, Paid
    <3>2. ~raced[w] => /\ unattended'[w] <= GiveUpAfter /\ unattended'[w] <= after
                       /\ unattended'[w] <= after + 1
      <4>1. CASE ending = "healthy"
        BY <2>1, <2>2, <2>4, <4>1
      <4>2. CASE ending # "healthy"
        BY <2>1, <2>2, <2>4, <3>1, <4>2
      <4> QED BY <4>1, <4>2
    <3>3. svc'[w].state = "gave_up" \/ svc'[w].fast < GiveUpAfter
      BY <1>5, <2>2, <2>3
    <3>4. raced'[w] = raced[w] /\ svc'[w].fast = after
      BY <1>2, <2>3
    <3> QED BY <3>2, <3>3, <3>4 DEF Paid
  <2>13. \A v \in Workers : /\ svc'[v].desired = svc[v].desired /\ svc'[v].proc = svc[v].proc
                            /\ svc'[v].waits = svc[v].waits
                            /\ v # w => svc'[v] = svc[v] /\ unattended'[v] = unattended[v]
    BY <2>3, <2>4, <2>6
  <2> QED BY <1>2, <1>4, <1>5, <1>7, <2>4, <2>8, <2>9, <2>10, <2>11, <2>12, <2>13, PumpSteps
<1> QED BY <1>6, <1>7

\* The decision that was made is carried out: the timer, if it is still wanted.
LEMMA PumpActsPolicy ==
  ASSUME PolicyInv, LeaseInv', NEW id \in RunIds, PumpActs(id)
  PROVE  PolicyInv'
<1> DEFINE arms == /\ run[id].pump = "schedule" /\ run[id].mine
                   /\ svc[run[id].by].desired = "running" /\ svc[run[id].by].state # "gave_up"
<1>1. /\ PolicyShapes /\ SupervisorShapes
      /\ svc \in [Workers -> ServiceRecords]
  BY DEF PolicyInv, LeaseInv, SupervisorShapes
<1>2. /\ UNCHANGED <<thread, used, blips, unattended, raced, launchFailed, stopped>>
      /\ run[id].pump \in {"record", "schedule"}
      /\ run' = [run EXCEPT ![id].pump = "done"]
  BY DEF PumpActs, histVars, countVars
<1>3. CASE run[id].by \notin Workers
  <2>1. svc' = svc
    BY <1>1, <1>3 DEF PumpActs
  <2> QED BY <1>2, <1>3, <2>1, NobodysPump
<1>4. ASSUME NEW w \in Workers, run[id].by = w PROVE PolicyInv'
  <2>1. Policy(w) /\ svc[w] \in ServiceRecords
    BY <1>1, <1>4 DEF PolicyInv
  <2>2. /\ svc'[w].desired = svc[w].desired /\ svc'[w].fast = svc[w].fast
        /\ svc'[w].proc = svc[w].proc /\ svc'[w].state = svc[w].state
        /\ svc'[w].waits = svc[w].waits
        /\ svc'[w].timer <=> arms \/ svc[w].timer
        /\ \A v \in Workers : v # w => svc'[v] = svc[v]
    <3>1. svc' = svc \/ svc' = [svc EXCEPT ![w] = [svc[w] EXCEPT !.timer = TRUE]]
      BY <1>1, <1>4 DEF PumpActs, Armed
    <3>2. arms => svc' = [svc EXCEPT ![w] = [svc[w] EXCEPT !.timer = TRUE]]
      BY <1>1, <1>4 DEF PumpActs, Armed
    <3>3. ~arms => svc' = svc
      BY <1>1, <1>4 DEF PumpActs, Armed
    <3> HIDE DEF arms
    <3> QED BY <1>1, <1>4, <2>1, <3>1, <3>2, <3>3 DEF ServiceRecords
  <2>3. /\ run'[id].pump = "done" /\ run'[id].by = run[id].by /\ run'[id].mine = run[id].mine
        /\ run'[id].orphan = run[id].orphan /\ run'[id].closed = run[id].closed
        /\ run'[id].st = run[id].st
        /\ \A i \in RunIds : i # id => run'[i] = run[i]
    BY <1>2, PumpGoesOn
  <2>4. arms => Arming(w)
    BY <1>4 DEF Arming
  <2>5. /\ Arming(w)' => Arming(w)
        /\ Open(w)' <=> Open(w)
        /\ Watched(w) /\ ~Watched(w)' => run[id].pump = "schedule" /\ svc[w].proc = id
    BY <1>2, <2>1, <2>2, <2>3 DEF Arming, Open, Watched, ServiceRecords
  <2>6. ProcSound(w)'
    BY <1>2, <2>1, <2>2, <2>3, <2>5 DEF Policy, ProcSound, ServiceRecords
  <2>7. SeenTo(w)'
    <3>3. arms \/ run[id].pump # "schedule" \/ ~run[id].mine
            \/ svc[w].desired # "running" \/ svc[w].state = "gave_up"
      BY <1>4
    <3> HIDE DEF arms
    <3>1. CASE arms
      BY <2>2, <3>1 DEF SeenTo
    <3>2. CASE ~arms
      <4>2. svc[w].proc = id => run[id].mine
        BY <2>1 DEF Policy, ProcSound, RunIds, None
      <4>1. Watched(w) /\ svc[w].desired = "running" /\ svc[w].state # "gave_up" => Watched(w)'
        BY <2>5, <3>2, <3>3, <4>2
      <4> QED BY <1>2, <2>1, <2>2, <3>2, <4>1 DEF Policy, SeenTo
    <3> QED BY <3>1, <3>2
  <2>8. arms => svc[w].state # "gave_up"
    BY <1>4
  <2> HIDE DEF arms
  <2>9. TimerAlone(w)' /\ RequestFresh(w)' /\ Paid(w)'
    BY <1>2, <2>1, <2>2, <2>4, <2>5, <2>8 DEF Policy, TimerAlone, RequestFresh, Paid
  <2>10. \A v \in Workers : /\ svc'[v].desired = svc[v].desired /\ svc'[v].proc = svc[v].proc
                            /\ svc'[v].waits = svc[v].waits
                            /\ v # w => svc'[v] = svc[v] /\ unattended'[v] = unattended[v]
    BY <1>2, <2>2
  <2>11. unattended' \in [Workers -> Nat]
    BY <1>1, <1>2 DEF PolicyShapes
  <2> QED BY <1>2, <1>4, <2>6, <2>7, <2>9, <2>10, <2>11, PumpSteps
<1> QED BY <1>3, <1>4

-----------------------------------------------------------------------------
(* Redis, and the rest *)

\* A heartbeat learns that the key is gone; the policy does not go by leases.
LEMMA HeartbeatLostPolicy ==
  ASSUME PolicyInv, LeaseInv', NEW id \in RunIds, HeartbeatLost(id)
  PROVE  PolicyInv'
<1> DEFINE r == [run[id] EXCEPT !.owned = FALSE, !.beats = FALSE]
<1>1. /\ PolicyShapes /\ FreshAbove /\ run[id] \in RunRecords
      /\ run \in [RunIds -> RunRecords]
  BY DEF PolicyInv, LeaseInv, SupervisorShapes
<1>2. /\ UNCHANGED <<svc, thread, used, blips, unattended, raced, launchFailed, stopped>>
      /\ run[id].beats /\ run' = [run EXCEPT ![id] = r]
  BY <1>1 DEF HeartbeatLost, histVars, countVars
<1>3. /\ r.by = run[id].by /\ r.mine = run[id].mine /\ r.pump = run[id].pump
      /\ r.closed = run[id].closed /\ r.orphan = run[id].orphan /\ r.st = run[id].st
  BY <1>1 DEF RunRecords
<1> HIDE DEF r
<1>4. run'[id] = r /\ \A i \in RunIds : i # id => run'[i] = run[i]
  BY <1>1, <1>2
<1>5. PolicyShapes'
  BY <1>1, <1>2 DEF PolicyShapes
<1>6. FreshAbove'
  <2>1. ~(id > used)
    BY <1>1, <1>2 DEF FreshAbove, Unborn
  <2> QED BY <1>1, <1>2, <1>4, <2>1 DEF FreshAbove
<1>7. \A v \in Workers : Untouched(v)
  BY <1>2, <1>3, <1>4 DEF Untouched, RunsStand, HistoryStands
<1> QED BY <1>2, <1>5, <1>6, <1>7, NobodySteps

\* Redis and the worker's own switches are not what the policy goes by either.
LEMMA AsidePolicy ==
  ASSUME PolicyInv, LeaseInv',
         \/ KeyExpires \/ RedisGoes \/ RedisReturns \/ UNCHANGED vars
         \/ \E w \in Workers : WorkerReturns(w)
  PROVE  PolicyInv'
<1>1. /\ UNCHANGED <<svc, thread, run, used, unattended, raced, launchFailed, stopped>>
      /\ blips' = blips \/ blips' = blips + 1
  BY DEF KeyExpires, RedisGoes, RedisReturns, WorkerReturns, vars, histVars, countVars
<1>2. blips \in Nat /\ PolicyShapes /\ FreshAbove
  BY DEF PolicyInv, LeaseInv, SupervisorShapes
<1>3. blips' = 0 => blips = 0
  BY <1>1, <1>2
<1>4. PolicyShapes' /\ FreshAbove'
  BY <1>1, <1>2 DEF PolicyShapes, FreshAbove
<1>5. \A v \in Workers : Untouched(v)
  BY <1>1 DEF Untouched, RunsStand, HistoryStands
<1> QED BY <1>3, <1>4, <1>5, NobodySteps

-----------------------------------------------------------------------------
(* The theorems *)

\* At the start nothing runs, nothing is armed and nothing is owed.
LEMMA InitPolicy == Init => PolicyInv
<1> SUFFICES ASSUME Init PROVE PolicyInv
  OBVIOUS
<1>1. LeaseInv
  BY InitSupervisor DEF SupervisorInv, LeaseInv, Smooth, Init
<1>2. /\ \A w \in Workers : svc[w] = NewService
      /\ \A w \in Workers, t \in Threads : thread[w][t] = Idle
      /\ \A id \in RunIds : run[id] = Unborn
      /\ "request" \in Threads /\ "timer" \in Threads
  BY DEF Init, Threads
<1>3. PolicyShapes
  <2>1. RetryBudget \in Nat
    BY SupervisorAssumption
  <2> QED BY <1>2, <2>1 DEF PolicyShapes, Init, NewService
<1>4. FreshAbove
  BY <1>2 DEF FreshAbove
<1>5. ASSUME NEW w \in Workers PROVE Policy(w)
  <2>1. /\ svc[w] = NewService /\ unattended[w] = 0 /\ ~raced[w] /\ ~stopped[w]
        /\ thread[w]["request"].pc = "idle" /\ thread[w]["timer"].pc = "idle"
        /\ ~thread[w]["timer"].manual
        /\ \A t \in Threads : thread[w][t].pc = "idle"
    BY <1>2 DEF Init, Idle
  <2>2. \A id \in RunIds : run[id].by # w
    BY <1>2, SupervisorAssumption DEF Unborn, None
  <2>3. GiveUpAfter \in Nat
    BY SupervisorAssumption
  <2>4. StopAlone(w) /\ Deliberate(w) /\ RunsApart(w) /\ (\A t \in Threads : OwnRun(w, t))
    BY <2>1 DEF StopAlone, StopSteps, Deliberate, InStart, RunsApart, OwnRun, Claimed
  <2>5. ProcSound(w) /\ SeenTo(w) /\ StopHeld(w)
    BY <2>1 DEF ProcSound, SeenTo, StopHeld, NewService
  <2>6. TimerAlone(w) /\ RequestFresh(w)
    BY <2>1 DEF TimerAlone, RequestFresh, InStart, Entered
  <2>7. Paid(w)
    BY <2>1, <2>2, <2>3 DEF Paid, NewService, Arming
  <2> QED BY <2>4, <2>5, <2>6, <2>7 DEF Policy
<1> QED BY <1>1, <1>3, <1>4, <1>5 DEF PolicyInv

\* Every step keeps the policy, one action at a time.
LEMMA StepPolicy ==
  ASSUME PolicyInv, LeaseInv', ~crossed', [Next]_vars
  PROVE  PolicyInv'
<1>1. ASSUME NEW w \in Workers, NEW t \in Threads, StartStep(w, t) \/ SpawnFails(w, t)
      PROVE  PolicyInv'
  BY <1>1, EnterPolicy, CheckPolicy, ClaimWonPolicy, ClaimDeclinedPolicy, DeferPolicy,
     ReapPolicy, SpawnPolicy, SpawnFailsPolicy DEF StartStep
<1>2. ASSUME NEW w \in Workers, StopStep(w) \/ Detach(w) PROVE PolicyInv'
  BY <1>2, HaltPolicy, SignalPolicy, DropPolicy, ForgetPolicy DEF StopStep
<1>3. ASSUME NEW w \in Workers,
             \/ TimerFires(w) \/ Install(w) \/ Attach(w) \/ ConfigSaved(w)
             \/ WorkerDies(w) \/ WorkerReturns(w)
      PROVE  PolicyInv'
  BY <1>3, TimerFiresPolicy, InstallPolicy, ConfigSavedPolicy, WorkerDiesPolicy, AsidePolicy
<1>4. ASSUME NEW w \in Workers, NEW what \in {"start", "stop", "restart", "uninstall"},
             Request(w, what)
      PROVE  PolicyInv'
  BY <1>4, RequestPolicy
<1>5. ASSUME NEW id \in RunIds, PumpStep(id) PROVE PolicyInv'
  BY <1>5, PumpReleasesPolicy, PumpStandsBackPolicy, PumpDecidesPolicy, PumpActsPolicy
     DEF PumpStep
<1>6. ASSUME NEW id \in RunIds, Exits(id) \/ ClosesOutput(id) \/ HeartbeatLost(id)
      PROVE  PolicyInv'
  BY <1>6, ExitsPolicy, HeartbeatLostPolicy
<1>7. CASE KeyExpires \/ RedisGoes \/ RedisReturns \/ UNCHANGED vars
  BY <1>7, AsidePolicy
<1> QED BY <1>1, <1>2, <1>3, <1>4, <1>5, <1>6, <1>7 DEF Next

\* A stop that has crossed a start has crossed it for good.
LEMMA StaysCrossed == [Next]_vars /\ crossed => crossed'
<1> SUFFICES ASSUME [Next]_vars, crossed PROVE crossed'
  OBVIOUS
<1>1. ASSUME NEW w \in Workers, NEW t \in Threads, StartStep(w, t) \/ SpawnFails(w, t)
      PROVE  crossed'
  BY <1>1 DEF StartStep, SpawnFails, Enter, Check, ClaimWon, ClaimDeclined, Defer, Reap, Spawn,
     countVars
<1>2. ASSUME NEW w \in Workers, StopStep(w) \/ Detach(w) PROVE crossed'
  BY <1>2 DEF StopStep, Halt, Signal, Drop, Forget, Detach, countVars
<1>3. ASSUME NEW w \in Workers,
             \/ TimerFires(w) \/ Install(w) \/ Attach(w) \/ ConfigSaved(w)
             \/ WorkerDies(w) \/ WorkerReturns(w)
      PROVE  crossed'
  BY <1>3 DEF TimerFires, Install, Attach, ConfigSaved, WorkerDies, WorkerReturns, countVars
<1>4. ASSUME NEW w \in Workers, NEW what \in {"start", "stop", "restart", "uninstall"},
             Request(w, what)
      PROVE  crossed'
  BY <1>4 DEF Request
<1>5. ASSUME NEW id \in RunIds,
             PumpStep(id) \/ Exits(id) \/ ClosesOutput(id) \/ HeartbeatLost(id)
      PROVE  crossed'
  BY <1>5 DEF PumpStep, PumpReleases, PumpStandsBack, PumpDecides, PumpActs, Exits,
     ClosesOutput, HeartbeatLost, countVars
<1>6. CASE KeyExpires \/ RedisGoes \/ RedisReturns \/ UNCHANGED vars
  BY <1>6 DEF KeyExpires, RedisGoes, RedisReturns, vars, countVars
<1> QED BY <1>1, <1>2, <1>3, <1>4, <1>5, <1>6 DEF Next

\* Every respawn has been paid for by a crash that was counted, every start that is
\* wanted has somebody to see to it, and a stop leaves nobody who would undo it, while
\* no stop crosses a start.
THEOREM PolicyCorrect == Spec => [](~crossed => PolicyInv)
<1>1. Init => (~crossed => PolicyInv)
  BY InitPolicy
<1>2. SupervisorInv' /\ ~crossed' => LeaseInv'
  BY DEF SupervisorInv, LeaseInv, Smooth
<1>3. (~crossed => PolicyInv) /\ SupervisorInv' /\ [Next]_vars => (~crossed => PolicyInv)'
  BY <1>2, StepPolicy, StaysCrossed
<1> QED BY <1>1, <1>3, SupervisorCorrect, PTL DEF Spec

\* What the rest of TypeOK is about: the switches no proof goes by.
Switches ==
  /\ installed \in BOOLEAN /\ marker \in BOOLEAN
  /\ up \in [Workers -> BOOLEAN]
  /\ reg \in [Workers -> BOOLEAN]

\* The declined claims stay within their budget, whatever crosses.
LEMMA StepShapes ==
  ASSUME SupervisorInv, PolicyShapes, [Next]_vars
  PROVE  PolicyShapes'
<1>1. /\ svc \in [Workers -> ServiceRecords]
      /\ \A w \in Workers : svc[w] \in ServiceRecords /\ svc[w].waits \in Nat
      /\ RetryBudget \in Nat
  BY SupervisorAssumption DEF SupervisorInv, SupervisorShapes, ServiceRecords
<1> USE <1>1 DEF PolicyShapes
<1>2. ASSUME NEW w \in Workers, NEW t \in Threads, StartStep(w, t) \/ SpawnFails(w, t)
      PROVE  PolicyShapes'
  <2>1. CASE Enter(w, t)
    BY <2>1 DEF Enter, ServiceRecords
  <2>2. CASE Check(w, t)
    BY <2>2 DEF Check, histVars
  <2>3. CASE ClaimWon(w, t)
    BY <2>3 DEF ClaimWon, histVars, ServiceRecords
  <2>4. CASE ClaimDeclined(w, t)
    BY <2>4 DEF ClaimDeclined, histVars, ServiceRecords
  <2>5. CASE Defer(w, t)
    BY <2>5 DEF Defer, Armed, histVars, ServiceRecords
  <2>6. CASE Reap(w, t)
    BY <2>6 DEF Reap, histVars, ServiceRecords
  <2>7. CASE Spawn(w, t)
    BY <2>7 DEF Spawn, ServiceRecords
  <2>8. CASE SpawnFails(w, t)
    BY <2>8 DEF SpawnFails, ServiceRecords
  <2> QED BY <1>2, <2>1, <2>2, <2>3, <2>4, <2>5, <2>6, <2>7, <2>8 DEF StartStep
<1>3. ASSUME NEW w \in Workers, StopStep(w) \/ Detach(w) PROVE PolicyShapes'
  <2>1. CASE Halt(w)
    BY <2>1 DEF Halt, histVars, ServiceRecords
  <2>2. CASE Signal(w)
    BY <2>2 DEF Signal, histVars
  <2>3. CASE Drop(w)
    BY <2>3 DEF Drop, ServiceRecords
  <2>4. CASE Forget(w) \/ Detach(w)
    BY <2>4 DEF Forget, Detach, Forgotten, histVars, NewService
  <2> QED BY <1>3, <2>1, <2>2, <2>3, <2>4 DEF StopStep
<1>4. ASSUME NEW w \in Workers, TimerFires(w) \/ ConfigSaved(w) \/ WorkerDies(w)
      PROVE  PolicyShapes'
  <2>1. CASE TimerFires(w)
    BY <2>1 DEF TimerFires, ServiceRecords
  <2>2. CASE ConfigSaved(w)
    BY <2>2 DEF ConfigSaved, ServiceRecords
  <2>3. CASE WorkerDies(w)
    <3>1. NewService.waits <= RetryBudget
      BY SupervisorAssumption DEF NewService
    <3>2. svc' = [svc EXCEPT ![w] = NewService]
      BY <2>3 DEF WorkerDies
    <3>3. \A v \in Workers : svc'[v].waits <= RetryBudget
      BY <3>1, <3>2
    <3> QED BY <2>3, <3>3 DEF WorkerDies
  <2> QED BY <1>4, <2>1, <2>2, <2>3
<1>5. ASSUME NEW w \in Workers, Install(w) \/ Attach(w) \/ WorkerReturns(w)
      PROVE  PolicyShapes'
  BY <1>5 DEF Install, Attach, WorkerReturns, histVars
<1>6. ASSUME NEW w \in Workers, NEW what \in {"start", "stop", "restart", "uninstall"},
             Request(w, what)
      PROVE  PolicyShapes'
  BY <1>6 DEF Request, histVars
<1>7. ASSUME NEW id \in RunIds, PumpStep(id) PROVE PolicyShapes'
  <2>1. CASE PumpReleases(id)
    BY <2>1 DEF PumpReleases, histVars, ServiceRecords
  <2>2. CASE PumpStandsBack(id)
    <3>1. ASSUME NEW st PROVE \A v \in Workers :
            [svc EXCEPT ![run[id].by].state = st][v].waits = svc[v].waits
      BY DEF ServiceRecords
    <3>2. \/ svc' = svc
          \/ svc' = [svc EXCEPT ![run[id].by].state = "running"]
          \/ svc' = [svc EXCEPT ![run[id].by].state = "stopped"]
      BY <2>2 DEF PumpStandsBack
    <3>3. \A v \in Workers : svc'[v].waits = svc[v].waits
      <4>1. CASE svc' = svc
        BY <4>1
      <4>2. CASE svc' = [svc EXCEPT ![run[id].by].state = "running"]
        BY <3>1, <4>2
      <4>3. CASE svc' = [svc EXCEPT ![run[id].by].state = "stopped"]
        BY <3>1, <4>3
      <4> QED BY <3>2, <4>1, <4>2, <4>3
    <3> QED BY <2>2, <3>3 DEF PumpStandsBack, histVars
  <2>3. CASE PumpDecides(id)
    <3>1. ASSUME NEW n, NEW st PROVE \A v \in Workers :
            [svc EXCEPT ![run[id].by].fast = n, ![run[id].by].state = st][v].waits = svc[v].waits
      BY DEF ServiceRecords
    <3>2. \A v \in Workers : svc'[v].waits = svc[v].waits
      BY <2>3, <3>1 DEF PumpDecides
    <3>3. unattended' \in [Workers -> Nat]
      <4>1. PICK ending \in {"healthy", "early", "collision"} :
              unattended' = [unattended EXCEPT
                ![run[id].by] = IF ending = "healthy" THEN 0 ELSE unattended[run[id].by]]
        BY <2>3 DEF PumpDecides
      <4>2. CASE ending = "healthy"
        BY <4>1, <4>2
      <4>3. CASE ending # "healthy"
        <5>1. unattended' = [unattended EXCEPT ![run[id].by] = unattended[run[id].by]]
          BY <4>1, <4>3
        <5> QED BY <5>1
      <4> QED BY <4>2, <4>3
    <3>4. UNCHANGED <<raced, launchFailed, stopped>>
      BY <2>3 DEF PumpDecides
    <3> QED BY <3>2, <3>3, <3>4
  <2>4. CASE PumpActs(id)
    <3>1. \A v \in Workers :
            [svc EXCEPT ![run[id].by] = [@ EXCEPT !.timer = TRUE]][v].waits = svc[v].waits
      BY DEF ServiceRecords
    <3>2. svc' = svc \/ svc' = [svc EXCEPT ![run[id].by] = [@ EXCEPT !.timer = TRUE]]
      BY <2>4 DEF PumpActs, Armed
    <3>3. \A v \in Workers : svc'[v].waits = svc[v].waits
      BY <3>1, <3>2
    <3> QED BY <2>4, <3>3 DEF PumpActs, histVars
  <2> QED BY <1>7, <2>1, <2>2, <2>3, <2>4 DEF PumpStep
<1>8. ASSUME NEW id \in RunIds, Exits(id) \/ ClosesOutput(id) \/ HeartbeatLost(id)
      PROVE  PolicyShapes'
  BY <1>8 DEF Exits, ClosesOutput, HeartbeatLost, histVars
<1>9. CASE KeyExpires \/ RedisGoes \/ RedisReturns \/ UNCHANGED vars
  BY <1>9 DEF KeyExpires, RedisGoes, RedisReturns, vars, histVars
<1> QED BY <1>2, <1>3, <1>4, <1>5, <1>6, <1>7, <1>8, <1>9 DEF Next

\* Every variable keeps to its type; the count of declined claims to its budget.
THEOREM SupervisorTypeCorrect == Spec => []TypeOK
<1>1. Init => Switches
  BY DEF Init, Switches
<1>2. Switches /\ [Next]_vars => Switches'
  <2> SUFFICES ASSUME Switches, [Next]_vars PROVE Switches'
    OBVIOUS
  <2> USE DEF Switches
  <2>1. ASSUME NEW w \in Workers, NEW t \in Threads, StartStep(w, t) \/ SpawnFails(w, t)
        PROVE  Switches'
    BY <2>1 DEF StartStep, SpawnFails, Enter, Check, ClaimWon, ClaimDeclined, Defer, Reap, Spawn,
       coordVars
  <2>2. ASSUME NEW w \in Workers,
               \/ StopStep(w) \/ TimerFires(w) \/ Install(w) \/ Attach(w) \/ Detach(w)
               \/ ConfigSaved(w) \/ WorkerDies(w) \/ WorkerReturns(w)
        PROVE  Switches'
    BY <2>2 DEF StopStep, Halt, Signal, Drop, Forget, TimerFires, Install, Attach, Detach,
       ConfigSaved, WorkerDies, WorkerReturns, coordVars
  <2>3. ASSUME NEW w \in Workers, NEW what \in {"start", "stop", "restart", "uninstall"},
               Request(w, what)
        PROVE  Switches'
    BY <2>3 DEF Request, coordVars
  <2>4. ASSUME NEW id \in RunIds,
               PumpStep(id) \/ Exits(id) \/ ClosesOutput(id) \/ HeartbeatLost(id)
        PROVE  Switches'
    BY <2>4 DEF PumpStep, PumpReleases, PumpStandsBack, PumpDecides, PumpActs, Exits,
       ClosesOutput, HeartbeatLost, coordVars
  <2>5. CASE KeyExpires \/ RedisGoes \/ RedisReturns \/ UNCHANGED vars
    BY <2>5 DEF KeyExpires, RedisGoes, RedisReturns, vars, coordVars
  <2> QED BY <2>1, <2>2, <2>3, <2>4, <2>5 DEF Next
<1>4. SupervisorInv /\ PolicyShapes /\ Switches => TypeOK
  <2> SUFFICES ASSUME SupervisorInv, PolicyShapes, Switches PROVE TypeOK
    OBVIOUS
  <2>1. SupervisorShapes /\ PolicyShapes /\ RetryBudget \in Nat
    BY SupervisorAssumption DEF SupervisorInv
  <2>2. svc \in [Workers -> [desired : {"running", "stopped"},
                             state : {"running", "backing_off", "gave_up", "stopped"},
                             fast : Nat, waits : 0 .. RetryBudget, timer : BOOLEAN,
                             proc : RunIds \union {None}, lease : RunIds \union {None}]]
    BY <2>1 DEF SupervisorShapes, PolicyShapes, ServiceRecords
  <2>3. /\ thread \in [Workers -> [Threads ->
             [pc : {"idle", "enter", "check", "claim", "defer", "reap", "spawn",
                    "halt", "signal", "drop", "forget"},
              manual : BOOLEAN, id : RunIds \union {None},
              next : {"idle", "enter", "forget"}]]]
        /\ run \in [RunIds ->
             [st : {"unborn", "alive", "quiet", "dead"}, by : Workers \union {None},
              owned : BOOLEAN, beats : BOOLEAN, mine : BOOLEAN, orphan : BOOLEAN,
              closed : BOOLEAN,
              pump : {"none", "reading", "release", "decide", "schedule", "record", "done"}]]
    <3>1. Pcs = {"idle", "enter", "check", "claim", "defer", "reap", "spawn",
                 "halt", "signal", "drop", "forget"}
      BY DEF Pcs, StartSteps, StopSteps
    <3> QED BY <2>1, <3>1 DEF SupervisorShapes, ThreadRecords, RunRecords
  <2> QED BY <2>1, <2>2, <2>3 DEF TypeOK, SupervisorShapes, PolicyShapes, Switches
<1>5. Init => PolicyShapes
  BY InitPolicy DEF PolicyInv
<1>6. SupervisorInv /\ PolicyShapes /\ [Next]_vars => PolicyShapes'
  BY StepShapes
<1> QED BY <1>1, <1>2, <1>4, <1>5, <1>6, SupervisorCorrect, PTL DEF Spec

\* An orphan is a dead worker's: no record of a living one is about it.
Disowned == \A id \in RunIds : run[id].orphan => ~run[id].mine

\* Only a worker's death makes orphans, and it disowns them.
LEMMA StepDisowned ==
  ASSUME SupervisorInv, Disowned, [Next]_vars
  PROVE  Disowned'
<1>1. /\ run \in [RunIds -> RunRecords]
      /\ \A id \in RunIds : run[id] \in RunRecords
  BY DEF SupervisorInv, SupervisorShapes
<1> USE <1>1 DEF Disowned, RunRecords
<1>2. ASSUME NEW w \in Workers, NEW t \in Threads, StartStep(w, t) \/ SpawnFails(w, t)
      PROVE  Disowned'
  <2>1. CASE Enter(w, t) \/ Check(w, t) \/ ClaimDeclined(w, t) \/ Defer(w, t)
    BY <2>1 DEF Enter, Check, ClaimDeclined, Defer
  <2>2. CASE ClaimWon(w, t)
    <3>1. ~Unborn.orphan
      BY DEF Unborn
    <3> QED BY <2>2, <3>1 DEF ClaimWon
  <2>3. CASE Reap(w, t)
    BY <2>3 DEF Reap
  <2>4. CASE Spawn(w, t) \/ SpawnFails(w, t)
    <3> DEFINE id == thread[w][t].id
    <3>1. \/ run' = [run EXCEPT ![id].st = "dead"]
          \/ run' = [run EXCEPT ![id].st = "alive", ![id].pump = "reading",
                                ![id].beats = run[id].owned]
      BY <2>4 DEF Spawn, SpawnFails
    <3> HIDE DEF id
    <3>2. CASE run' = [run EXCEPT ![id].st = "dead"]
      BY <3>2
    <3>3. CASE run' = [run EXCEPT ![id].st = "alive", ![id].pump = "reading",
                                  ![id].beats = run[id].owned]
      BY <3>3
    <3> QED BY <3>1, <3>2, <3>3
  <2> QED BY <1>2, <2>1, <2>2, <2>3, <2>4 DEF StartStep
<1>3. ASSUME NEW w \in Workers, StopStep(w) \/ Detach(w) PROVE Disowned'
  <2>1. CASE Halt(w)
    BY <2>1 DEF Halt
  <2>2. CASE Signal(w)
    BY <2>2 DEF Signal
  <2>3. CASE Drop(w)
    BY <2>3 DEF Drop, ReleaseOf
  <2>4. CASE Forget(w) \/ Detach(w)
    BY <2>4 DEF Forget, Detach, Forgotten
  <2> QED BY <1>3, <2>1, <2>2, <2>3, <2>4 DEF StopStep
<1>4. ASSUME NEW w \in Workers, WorkerDies(w) PROVE Disowned'
  BY <1>4 DEF WorkerDies
<1>5. ASSUME NEW w \in Workers,
             \/ TimerFires(w) \/ Install(w) \/ Attach(w) \/ ConfigSaved(w) \/ WorkerReturns(w)
      PROVE  Disowned'
  BY <1>5 DEF TimerFires, Install, Attach, ConfigSaved, WorkerReturns
<1>6. ASSUME NEW w \in Workers, NEW what \in {"start", "stop", "restart", "uninstall"},
             Request(w, what)
      PROVE  Disowned'
  BY <1>6 DEF Request
<1>7. ASSUME NEW id \in RunIds, PumpStep(id) PROVE Disowned'
  <2>1. CASE PumpReleases(id)
    BY <2>1 DEF PumpReleases, ReleaseOf
  <2>2. CASE PumpStandsBack(id) \/ PumpDecides(id) \/ PumpActs(id)
    <3>1. \E p \in {"done", "record", "schedule"} : run' = [run EXCEPT ![id].pump = p]
      BY <2>2 DEF PumpStandsBack, PumpDecides, PumpActs
    <3> QED BY <3>1
  <2> QED BY <1>7, <2>1, <2>2 DEF PumpStep
<1>8. ASSUME NEW id \in RunIds, Exits(id) \/ ClosesOutput(id) \/ HeartbeatLost(id)
      PROVE  Disowned'
  <2>1. CASE Exits(id)
    BY <2>1 DEF Exits
  <2>2. CASE ClosesOutput(id) \/ HeartbeatLost(id)
    BY <2>2 DEF ClosesOutput, HeartbeatLost
  <2> QED BY <1>8, <2>1, <2>2
<1>9. CASE KeyExpires \/ RedisGoes \/ RedisReturns \/ UNCHANGED vars
  BY <1>9 DEF KeyExpires, RedisGoes, RedisReturns, vars
<1> QED BY <1>2, <1>3, <1>4, <1>5, <1>6, <1>7, <1>8, <1>9 DEF Next

\* While Redis has answered throughout, a stop that was answered stays a stop: no
\* pump, timer or respawn brings the service back (stop(), _after_exit, _respawn).
THEOREM StopHolds == Spec => []DeliberateStopHolds
<1>1. Init => Disowned
  BY DEF Init, Disowned, Unborn
<1>2. SupervisorInv /\ Disowned /\ [Next]_vars => Disowned'
  BY StepDisowned
<1>3. (~crossed => PolicyInv) /\ Disowned => DeliberateStopHolds
  BY DEF PolicyInv, Policy, StopHeld, Attended, Disowned, DeliberateStopHolds, NoneAfterStop,
     Smooth
<1> QED BY <1>1, <1>2, <1>3, SupervisorCorrect, PolicyCorrect, PTL DEF Spec

\* A start that was declined, or crashed, is deferred and never lost: the process,
\* the timer or, once it closed its output, nobody by the code's own choice.
THEOREM NothingStranded == Spec => []NoSilentStranding
<1>1. (~crossed => PolicyInv) => NoSilentStranding
  <2> SUFFICES ASSUME PolicyInv, NEW w \in Workers, Quiet(w), svc[w].desired = "running",
                      ~launchFailed[w], svc[w].state \in {"running", "backing_off"},
                      ~svc[w].timer, ~Alive(svc[w].proc)
               PROVE  svc[w].proc # None /\ run[svc[w].proc].closed
    BY DEF NoSilentStranding
  <2>1. /\ ProcSound(w) /\ SeenTo(w) /\ svc[w].proc \in RunIds \union {None}
    BY DEF PolicyInv, Policy, LeaseInv, SupervisorShapes, ServiceRecords
  <2>2. \A t \in Threads : thread[w][t].pc \notin InStart
    BY DEF Quiet, Idle, InStart
  <2>3. Watched(w)
    BY <2>1, <2>2 DEF SeenTo
  <2>4. svc[w].proc # None => run[svc[w].proc].pump \in {"none", "reading", "done"}
    BY <2>1 DEF ProcSound, Quiet
  <2> QED BY <2>1, <2>3, <2>4 DEF Watched, ProcSound, Alive
<1> QED BY <1>1, PolicyCorrect, PTL

\* Between two deliberate re-arms a worker starts a crashing service GiveUpAfter
\* times by itself, unless starts of it raced (_after_exit counts, _respawn checks).
THEOREM CrashLoopIsBounded == Spec => []CrashLoopBounded
<1>1. (~crossed => PolicyInv) => CrashLoopBounded
  BY DEF PolicyInv, Policy, Paid, CrashLoopBounded
<1> QED BY <1>1, PolicyCorrect, PTL
=============================================================================

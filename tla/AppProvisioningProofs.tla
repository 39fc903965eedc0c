----------------------- MODULE AppProvisioningProofs -----------------------
(* Proofs about AppProvisioning, for any number of workers, apps, requests,
   passes and faults, and any overlap of a worker's request with its pass.
   ProvInv is the inductive invariant of the locks: the types, LockInv, which says
   who has which lock from where every task is, and RowsLoaded.  Where a task rode
   on the locks of another (Riding), less is known of both.  FleetInv, inductive
   beside it, is that of the fan-out: somebody owes the fleet an announcement, or
   every live worker follows the mirror. *)
EXTENDS AppProvisioning, TLAPS

\* Between the entry to _provisioning and its exit.
Locked == Inside \union {"leave"}

\* A dead process has no tasks, no locks and no handler.
DeadIsEmpty ==
  \A w \in Workers : ~up[w] =>
    /\ depth[w] = 0 /\ local[w] = "free" /\ w \notin file /\ conv[w] = NoConverge
    /\ \A t \in Tasks : task[w][t] = NoTask

\* Who took the locks is inside; who is inside took them, unless one rode.
Riding ==
  \A w \in Workers, t \in Tasks :
    /\ task[w][t].outer => task[w][t].pc \in Locked
    /\ "rode" \notin lapses /\ task[w][t].pc \in Locked => task[w][t].outer

\* _provision_depth is the number of a worker's tasks between entry and exit.
Counts(w, t) == IF task[w][t].pc \in Locked THEN 1 ELSE 0
DepthCounts == \A w \in Workers : depth[w] = Counts(w, "request") + Counts(w, "pass")

\* The in-process lock is held by the one who has taken it.
Has(w, t) == task[w][t].pc = "lock" \/ task[w][t].outer
LocalOwner ==
  \A w \in Workers :
    /\ conv[w].pc = "run" <=> local[w] = "converge"
    /\ \A t \in Tasks : Has(w, t) <=> local[w] = t

\* Who took the locks has the file lock, unless one gave up waiting for it; and has
\* it alone.
FileOwner ==
  \A w \in Workers, t \in Tasks :
    /\ task[w][t].outer /\ "forced" \notin lapses => task[w][t].held
    /\ task[w][t].held => file = {w} /\ task[w][t].outer

LockInv == DeadIsEmpty /\ Riding /\ DepthCounts /\ LocalOwner /\ FileOwner

\* A task that has an app between its load and its row is at work, and the app is
\* loaded unless one rode.
RowsLoaded ==
  \A w \in Workers, t \in Tasks, a \in Apps :
    task[w][t].todo[a] = "row" =>
      Working(w, t) /\ ("rode" \notin lapses => a \in loaded[w])

ProvInv == TypeOK /\ LockInv /\ RowsLoaded

-----------------------------------------------------------------------------
(* One task's record changes *)

Places == {"idle", "enter", "queue", "lock", "leave", "announce"} \union Inside

TaskRecords ==
  [pc : Places, op : {"none", "install", "uninstall", "pass"}, todo : [Apps -> Stages],
   wanted : SUBSET Apps, outer : BOOLEAN, held : BOOLEAN, changed : BOOLEAN]

\* A task's record is one of TaskRecords.
LEMMA TaskTyped ==
  ASSUME TypeOK, NEW w \in Workers, NEW t \in Tasks
  PROVE  task[w][t] \in TaskRecords
  BY DEF TypeOK, TaskRecords, Places

\* NoTask is one of them.
LEMMA NoTaskTyped == NoTask \in TaskRecords
  BY DEF NoTask, TaskRecords, Places, Nothing, Stages

\* Writing one task's record changes that one and keeps the type.
LEMMA OneTask ==
  ASSUME TypeOK, NEW w \in Workers, NEW t \in Tasks, NEW r \in TaskRecords,
         task' = [task EXCEPT ![w][t] = r]
  PROVE  /\ task' \in [Workers -> [Tasks -> TaskRecords]]
         /\ \A v \in Workers, u \in Tasks :
              task'[v][u] = IF v = w /\ u = t THEN r ELSE task[v][u]
  BY DEF TypeOK, TaskRecords, Places

\* A task in flight is a live worker's.
LEMMA Awake ==
  ASSUME ProvInv, NEW w \in Workers, NEW t \in Tasks, task[w][t].pc # "idle"
  PROVE  up[w]
  BY DEF ProvInv, LockInv, DeadIsEmpty, NoTask

\* The one who has the in-process lock is alone in having it.
LEMMA OneHas ==
  ASSUME LockInv, NEW w \in Workers, NEW t \in Tasks, NEW u \in Tasks, Has(w, t), Has(w, u)
  PROVE  t = u
  BY DEF LockInv, LocalOwner

\* While no task rides, a worker has one task inside at most.
LEMMA OneInside ==
  ASSUME LockInv, "rode" \notin lapses, NEW w \in Workers, NEW t \in Tasks, NEW u \in Tasks,
         task[w][t].pc \in Locked, task[w][u].pc \in Locked
  PROVE  t = u
  BY OneHas DEF LockInv, Riding, Has

\* A worker's depth leaves room for a task that is not inside ...
LEMMA DepthBelow ==
  ASSUME LockInv, NEW w \in Workers, NEW t \in Tasks, task[w][t].pc \notin Locked
  PROVE  depth[w] \in 0 .. 1
<1>1. depth[w] = Counts(w, "request") + Counts(w, "pass")
    BY DEF LockInv, DepthCounts
<1>2. Counts(w, t) = 0 /\ t \in {"request", "pass"}
    BY DEF Counts, Tasks
<1>3. Counts(w, "request") \in 0 .. 1 /\ Counts(w, "pass") \in 0 .. 1
    BY DEF Counts
<1>4. QED
    BY <1>1, <1>2, <1>3

\* ... and counts one that is.
LEMMA DepthAbove ==
  ASSUME LockInv, NEW w \in Workers, NEW t \in Tasks, task[w][t].pc \in Locked
  PROVE  depth[w] \in 1 .. 2
<1>1. depth[w] = Counts(w, "request") + Counts(w, "pass")
    BY DEF LockInv, DepthCounts
<1>2. Counts(w, t) = 1 /\ t \in {"request", "pass"}
    BY DEF Counts, Tasks
<1>3. Counts(w, "request") \in 0 .. 1 /\ Counts(w, "pass") \in 0 .. 1
    BY DEF Counts
<1>4. QED
    BY <1>1, <1>2, <1>3

\* The depth follows the one task that moves.
LEMMA DepthFollows ==
  ASSUME LockInv, NEW w \in Workers, NEW t \in Tasks, NEW r,
         \A v \in Workers, u \in Tasks :
           task'[v][u] = IF v = w /\ u = t THEN r ELSE task[v][u],
         \A v \in Workers : v # w => depth'[v] = depth[v],
         depth[w] \in Nat =>
           depth'[w] = depth[w] + (IF r.pc \in Locked THEN 1 ELSE 0) - Counts(w, t)
  PROVE  DepthCounts'
<1>1. \A v \in Workers : /\ depth[v] = Counts(v, "request") + Counts(v, "pass")
                         /\ Counts(v, "request") \in 0 .. 1 /\ Counts(v, "pass") \in 0 .. 1
    BY DEF LockInv, DepthCounts, Counts
<1>2. \A v \in Workers, u \in Tasks : v # w \/ u # t => Counts(v, u)' = Counts(v, u)
    BY DEF Counts
<1>3. Counts(w, t)' = IF r.pc \in Locked THEN 1 ELSE 0
    BY DEF Counts
<1>4. "request" \in Tasks /\ "pass" \in Tasks /\ t \in {"request", "pass"}
    BY DEF Tasks
<1>5. ASSUME NEW v \in Workers, v # w
      PROVE  depth'[v] = Counts(v, "request")' + Counts(v, "pass")'
    BY <1>1, <1>2, <1>4, <1>5
<1>6. depth'[w] = Counts(w, "request")' + Counts(w, "pass")'
    BY <1>1, <1>2, <1>3, <1>4
<1>7. QED
    BY <1>5, <1>6 DEF DepthCounts

\* A task that stays on its side of every lock keeps LockInv.
LEMMA SamePlace ==
  ASSUME TypeOK, LockInv, NEW w \in Workers, NEW t \in Tasks, NEW r \in TaskRecords,
         task' = [task EXCEPT ![w][t] = r],
         UNCHANGED <<up, depth, local, file, conv>>, lapses \subseteq lapses',
         task[w][t].pc # "idle", r.pc # "idle",
         r.pc \in Locked <=> task[w][t].pc \in Locked,
         r.pc = "lock" <=> task[w][t].pc = "lock",
         r.outer = task[w][t].outer, r.held = task[w][t].held
  PROVE  LockInv'
<1>1. \A v \in Workers, u \in Tasks :
        task'[v][u] = IF v = w /\ u = t THEN r ELSE task[v][u]
    BY OneTask
<1>2. up[w]
    BY DEF LockInv, DeadIsEmpty, NoTask
<1>3. DeadIsEmpty'
    BY <1>1, <1>2 DEF LockInv, DeadIsEmpty
<1>4. Riding'
    BY <1>1 DEF LockInv, Riding
<1>5. DepthCounts'
  <2>1. \A v \in Workers, u \in Tasks : Counts(v, u)' = Counts(v, u)
      BY <1>1 DEF Counts
  <2>2. QED
      BY <2>1 DEF LockInv, DepthCounts, Tasks
<1>6. LocalOwner'
    BY <1>1 DEF LockInv, LocalOwner, Has
<1>7. FileOwner'
    BY <1>1 DEF LockInv, FileOwner
<1>8. QED
    BY <1>3, <1>4, <1>5, <1>6, <1>7 DEF LockInv

-----------------------------------------------------------------------------
(* The steps *)

\* At the start every lock is free and no task is under way.
LEMMA InitProvInv == Init => ProvInv
<1> SUFFICES ASSUME Init PROVE ProvInv
    OBVIOUS
<1>1. \A w \in Workers, t \in Tasks : task[w][t] = NoTask
    BY DEF Init
<1>2. task \in [Workers -> [Tasks -> TaskRecords]]
    BY NoTaskTyped DEF Init
<1>3. TypeOK
    BY <1>2 DEF Init, TypeOK, TaskRecords, Places, NoConverge
<1>4. LockInv
    BY <1>1 DEF Init, LockInv, DeadIsEmpty, Riding, DepthCounts, Counts, LocalOwner, Has, FileOwner,
       NoTask, NoConverge, Locked, Inside, Tasks
<1>5. RowsLoaded
    BY <1>1 DEF RowsLoaded, NoTask, Nothing
<1>6. QED
    BY <1>3, <1>4, <1>5 DEF ProvInv

\* A task finds nobody of its worker inside and queues, or rides and is remembered.
LEMMA EnterKeeps ==
  ASSUME ProvInv, NEW w \in Workers, NEW t \in Tasks, Enter(w, t)
  PROVE  ProvInv'
<1> DEFINE r == [task[w][t] EXCEPT !.pc = IF depth[w] > 0 THEN FirstStep(t) ELSE "queue"]
<1>1. task[w][t] \in TaskRecords /\ t \in {"request", "pass"}
    BY TaskTyped DEF ProvInv, Tasks
<1>2. /\ r \in TaskRecords /\ r.todo = task[w][t].todo
      /\ r.outer = task[w][t].outer /\ r.held = task[w][t].held
      /\ depth[w] > 0 => r.pc \in {"plan", "work"}
      /\ ~(depth[w] > 0) => r.pc = "queue"
    BY <1>1 DEF TaskRecords, Places, Stages, FirstStep, Inside
<1>3. task' = [task EXCEPT ![w][t] = r]
    BY DEF Enter, Goto
<1> HIDE DEF r
<1>4. /\ task' \in [Workers -> [Tasks -> TaskRecords]]
      /\ \A v \in Workers, u \in Tasks :
           task'[v][u] = IF v = w /\ u = t THEN r ELSE task[v][u]
    BY <1>2, <1>3, OneTask DEF ProvInv
<1>5. /\ task[w][t].pc = "enter"
      /\ UNCHANGED <<rows, disk, up, loaded, local, file, pending, conv, inbox>>
      /\ depth[w] > 0 => /\ depth' = [depth EXCEPT ![w] = @ + 1]
                         /\ lapses' = lapses \union {"rode"}
      /\ ~(depth[w] > 0) => depth' = depth /\ lapses' = lapses
    BY DEF Enter
<1>6. /\ TypeOK /\ LockInv /\ depth \in [Workers -> 0 .. 2] /\ lapses \subseteq Lapses
      /\ "rode" \in Lapses
    BY DEF ProvInv, TypeOK, Lapses
<1>7. task[w][t].pc \notin Locked
    BY <1>5 DEF Locked, Inside
<1>8. depth[w] \in 0 .. 1
    BY <1>6, <1>7, DepthBelow
<1>9. depth' \in [Workers -> 0 .. 2] /\ lapses' \subseteq Lapses /\ lapses \subseteq lapses'
    BY <1>5, <1>6, <1>8
<1>10. TypeOK'
    BY <1>4, <1>5, <1>9 DEF ProvInv, TypeOK, TaskRecords, Places
<1>11. CASE ~(depth[w] > 0)
  <2>1. LockInv'
      BY <1>2, <1>3, <1>5, <1>6, <1>11, SamePlace DEF Locked, Inside
  <2>2. RowsLoaded'
      BY <1>2, <1>4, <1>5, <1>11 DEF ProvInv, RowsLoaded, Working
  <2>3. QED
      BY <1>10, <2>1, <2>2 DEF ProvInv
<1>12. CASE depth[w] > 0
  <2>1. up[w]
      BY <1>5, Awake
  <2>2. DeadIsEmpty'
      BY <1>4, <1>5, <1>6, <1>12, <2>1 DEF LockInv, DeadIsEmpty
  <2>3. Riding'
      BY <1>2, <1>4, <1>5, <1>7, <1>12 DEF ProvInv, LockInv, Riding, Locked, Inside
  <2>4. DepthCounts'
    <3>1. r.pc \in Locked /\ Counts(w, t) = 0
        BY <1>2, <1>7, <1>12 DEF Locked, Inside, Counts
    <3>2. \A v \in Workers : v # w => depth'[v] = depth[v]
        BY <1>5, <1>6, <1>12
    <3>3. depth'[w] = depth[w] + 1
        BY <1>5, <1>6, <1>12
    <3>4. depth'[w] = depth[w] + (IF r.pc \in Locked THEN 1 ELSE 0) - Counts(w, t)
        BY <1>8, <3>1, <3>3
    <3>5. QED
        BY <1>4, <1>6, <3>2, <3>4, DepthFollows
  <2>5. LocalOwner'
      BY <1>2, <1>4, <1>5, <1>12 DEF ProvInv, LockInv, LocalOwner, Has
  <2>6. FileOwner'
      BY <1>2, <1>4, <1>5, <1>12 DEF ProvInv, LockInv, FileOwner
  <2>7. RowsLoaded'
      BY <1>2, <1>4, <1>5, <1>12 DEF ProvInv, RowsLoaded, Working
  <2>8. QED
      BY <1>10, <2>2, <2>3, <2>4, <2>5, <2>6, <2>7 DEF ProvInv, LockInv
<1>13. QED
    BY <1>11, <1>12
\* The in-process lock was free: nobody of this worker is inside.
LEMMA TakeLocalKeeps ==
  ASSUME ProvInv, NEW w \in Workers, NEW t \in Tasks, TakeLocal(w, t)
  PROVE  ProvInv'
<1> DEFINE r == [task[w][t] EXCEPT !.pc = "lock"]
<1>1. task[w][t] \in TaskRecords
    BY TaskTyped DEF ProvInv, Tasks
<1>2. /\ r \in TaskRecords
      /\ r.pc = "lock" /\ r.todo = task[w][t].todo
      /\ r.outer = task[w][t].outer /\ r.held = task[w][t].held
    BY <1>1 DEF TaskRecords, Places, Stages
<1>3. task' = [task EXCEPT ![w][t] = r]
    BY DEF TakeLocal, Goto
<1> HIDE DEF r
<1>4. /\ task' \in [Workers -> [Tasks -> TaskRecords]]
      /\ \A v \in Workers, u \in Tasks :
           task'[v][u] = IF v = w /\ u = t THEN r ELSE task[v][u]
    BY <1>2, <1>3, OneTask DEF ProvInv
<1>5. /\ task[w][t].pc = "queue" /\ local[w] = "free"
      /\ local' = [local EXCEPT ![w] = t] /\ t \in {"request", "pass"}
      /\ UNCHANGED <<rows, disk, up, loaded, file, depth, pending, conv, inbox, lapses>>
    BY DEF ProvInv, TypeOK, TakeLocal, Tasks
<1>6. TypeOK'
    BY <1>4, <1>5 DEF ProvInv, TypeOK, TaskRecords, Places
<1>7. up[w]
    BY <1>5, Awake
<1>8. LockInv'
  <2>1. DeadIsEmpty'
      BY <1>4, <1>5, <1>7 DEF ProvInv, LockInv, DeadIsEmpty, TypeOK
  <2>2. Riding'
      BY <1>2, <1>4, <1>5 DEF ProvInv, LockInv, Riding, Locked, Inside
  <2>3. DepthCounts'
    <3>1. \A v \in Workers, u \in Tasks : Counts(v, u)' = Counts(v, u)
        BY <1>2, <1>4, <1>5 DEF Counts, Locked, Inside
    <3>2. QED
        BY <1>2, <1>4, <1>5, <3>1 DEF ProvInv, LockInv, DepthCounts, Counts, Tasks
  <2>4. LocalOwner'
      BY <1>2, <1>4, <1>5 DEF ProvInv, LockInv, LocalOwner, Has, TypeOK, Tasks, Locked, Inside
  <2>5. FileOwner'
      BY <1>2, <1>4, <1>5 DEF ProvInv, LockInv, FileOwner, Locked, Inside
  <2>6. QED
      BY <2>1, <2>2, <2>3, <2>4, <2>5 DEF LockInv
<1>9. RowsLoaded'
    BY <1>2, <1>4, <1>5 DEF ProvInv, RowsLoaded, Working
<1>10. QED
    BY <1>6, <1>8, <1>9 DEF ProvInv

\* The file lock was free: no task anywhere has it.
LEMMA TakeFileKeeps ==
  ASSUME ProvInv, NEW w \in Workers, NEW t \in Tasks, TakeFile(w, t)
  PROVE  ProvInv'
<1> DEFINE r == [task[w][t] EXCEPT !.pc = FirstStep(t), !.outer = TRUE, !.held = TRUE]
<1>1. task[w][t] \in TaskRecords
    BY TaskTyped DEF ProvInv, Tasks
<1>2. /\ r \in TaskRecords
      /\ r.pc \in {"plan", "work"} /\ r.outer /\ r.held /\ r.todo = task[w][t].todo
    BY <1>1 DEF TaskRecords, Places, Stages, FirstStep, Inside
<1>3. task' = [task EXCEPT ![w][t] = r]
    BY DEF TakeFile
<1> HIDE DEF r
<1>4. /\ task' \in [Workers -> [Tasks -> TaskRecords]]
      /\ \A v \in Workers, u \in Tasks :
           task'[v][u] = IF v = w /\ u = t THEN r ELSE task[v][u]
    BY <1>2, <1>3, OneTask DEF ProvInv
<1>5. /\ task[w][t].pc = "lock" /\ file = {} /\ file' = {w}
      /\ depth' = [depth EXCEPT ![w] = @ + 1]
      /\ UNCHANGED <<rows, disk, up, loaded, local, pending, conv, inbox, lapses>>
    BY DEF ProvInv, TypeOK, TakeFile
<1>6. TypeOK'
  <2>1. task[w][t].pc \notin Locked /\ LockInv
      BY <1>5 DEF ProvInv, Locked, Inside
  <2>2. depth[w] \in 0 .. 1
      BY <2>1, DepthBelow
  <2>3. depth' \in [Workers -> 0 .. 2]
      BY <1>5, <2>2 DEF ProvInv, TypeOK
  <2>4. QED
      BY <1>4, <1>5, <2>3 DEF ProvInv, TypeOK, TaskRecords, Places
<1>7. up[w]
    BY <1>5, Awake
<1>8. LockInv'
  <2>1. DeadIsEmpty'
      BY <1>4, <1>5, <1>7 DEF ProvInv, LockInv, DeadIsEmpty, TypeOK
  <2>2. Riding'
      BY <1>2, <1>4, <1>5 DEF ProvInv, LockInv, Riding, Locked, Inside
  <2>3. DepthCounts'
    <3>1. r.pc \in Locked /\ Counts(w, t) = 0
        BY <1>2, <1>5 DEF Locked, Inside, Counts
    <3>2. \A v \in Workers : v # w => depth'[v] = depth[v]
        BY <1>5 DEF ProvInv, TypeOK
    <3>3. depth'[w] = depth[w] + 1 /\ depth[w] \in 0 .. 2 /\ LockInv
        BY <1>5 DEF ProvInv, TypeOK
    <3>4. depth'[w] = depth[w] + (IF r.pc \in Locked THEN 1 ELSE 0) - Counts(w, t)
        BY <3>1, <3>3
    <3>5. LockInv
        BY <3>3
    <3>6. QED
        BY <1>4, <3>2, <3>4, <3>5, DepthFollows
  <2>4. LocalOwner'
      BY <1>2, <1>4, <1>5 DEF ProvInv, LockInv, LocalOwner, Has, Riding, Locked, Inside
  <2>5. FileOwner'
      BY <1>2, <1>4, <1>5 DEF ProvInv, LockInv, FileOwner, Riding, Locked, Inside
  <2>6. QED
      BY <2>1, <2>2, <2>3, <2>4, <2>5 DEF LockInv
<1>9. RowsLoaded'
    BY <1>2, <1>4, <1>5 DEF ProvInv, RowsLoaded, Working
<1>10. QED
    BY <1>6, <1>8, <1>9 DEF ProvInv

\* Going on without the file lock is remembered in lapses.
LEMMA GiveUpWaitingKeeps ==
  ASSUME ProvInv, NEW w \in Workers, NEW t \in Tasks, GiveUpWaiting(w, t)
  PROVE  ProvInv'
<1> DEFINE r == [task[w][t] EXCEPT !.pc = FirstStep(t), !.outer = TRUE]
<1>1. task[w][t] \in TaskRecords
    BY TaskTyped DEF ProvInv, Tasks
<1>2. /\ r \in TaskRecords
      /\ r.pc \in {"plan", "work"} /\ r.outer /\ r.held = task[w][t].held
      /\ r.todo = task[w][t].todo
    BY <1>1 DEF TaskRecords, Places, Stages, FirstStep, Inside
<1>3. task' = [task EXCEPT ![w][t] = r]
    BY DEF GiveUpWaiting
<1> HIDE DEF r
<1>4. /\ task' \in [Workers -> [Tasks -> TaskRecords]]
      /\ \A v \in Workers, u \in Tasks :
           task'[v][u] = IF v = w /\ u = t THEN r ELSE task[v][u]
    BY <1>2, <1>3, OneTask DEF ProvInv
<1>5. /\ task[w][t].pc = "lock" /\ lapses' = lapses \union {"forced"}
      /\ "forced" \in Lapses
      /\ depth' = [depth EXCEPT ![w] = @ + 1]
      /\ UNCHANGED <<rows, disk, up, loaded, local, file, pending, conv, inbox>>
    BY DEF ProvInv, TypeOK, GiveUpWaiting, Lapses
<1>6. TypeOK'
  <2>1. task[w][t].pc \notin Locked /\ LockInv
      BY <1>5 DEF ProvInv, Locked, Inside
  <2>2. depth[w] \in 0 .. 1
      BY <2>1, DepthBelow
  <2>3. depth' \in [Workers -> 0 .. 2]
      BY <1>5, <2>2 DEF ProvInv, TypeOK
  <2>4. QED
      BY <1>4, <1>5, <2>3 DEF ProvInv, TypeOK, TaskRecords, Places
<1>7. up[w]
    BY <1>5, Awake
<1>8. LockInv'
  <2>1. DeadIsEmpty'
      BY <1>4, <1>5, <1>7 DEF ProvInv, LockInv, DeadIsEmpty, TypeOK
  <2>2. Riding'
      BY <1>2, <1>4, <1>5 DEF ProvInv, LockInv, Riding, Locked, Inside
  <2>3. DepthCounts'
    <3>1. r.pc \in Locked /\ Counts(w, t) = 0
        BY <1>2, <1>5 DEF Locked, Inside, Counts
    <3>2. \A v \in Workers : v # w => depth'[v] = depth[v]
        BY <1>5 DEF ProvInv, TypeOK
    <3>3. depth'[w] = depth[w] + 1 /\ depth[w] \in 0 .. 2 /\ LockInv
        BY <1>5 DEF ProvInv, TypeOK
    <3>4. depth'[w] = depth[w] + (IF r.pc \in Locked THEN 1 ELSE 0) - Counts(w, t)
        BY <3>1, <3>3
    <3>5. LockInv
        BY <3>3
    <3>6. QED
        BY <1>4, <3>2, <3>4, <3>5, DepthFollows
  <2>4. LocalOwner'
      BY <1>2, <1>4, <1>5 DEF ProvInv, LockInv, LocalOwner, Has, Riding, Locked, Inside
  <2>5. FileOwner'
      BY <1>2, <1>4, <1>5 DEF ProvInv, LockInv, FileOwner, Riding, Locked, Inside
  <2>6. QED
      BY <2>1, <2>2, <2>3, <2>4, <2>5 DEF LockInv
<1>9. RowsLoaded'
    BY <1>2, <1>4, <1>5 DEF ProvInv, RowsLoaded, Working
<1>10. QED
    BY <1>6, <1>8, <1>9 DEF ProvInv

\* The task that leaves gives back what it took.
LEMMA LeaveKeeps ==
  ASSUME ProvInv, NEW w \in Workers, NEW t \in Tasks, Leave(w, t)
  PROVE  ProvInv'
<1> DEFINE r == IF task[w][t].changed
                THEN [NoTask EXCEPT !.pc = "announce", !.changed = TRUE]
                ELSE NoTask
<1>1. task[w][t] \in TaskRecords
    BY TaskTyped DEF ProvInv, Tasks
<1>2. /\ task[w][t].pc = "leave"
      /\ depth \in [Workers -> 0 .. 2]
      /\ local \in [Workers -> {"free", "request", "pass", "converge"}]
    BY DEF ProvInv, TypeOK, Leave
<1>3. LockInv /\ task[w][t].pc \in Locked /\ depth[w] \in 1 .. 2
  <2>1. LockInv /\ task[w][t].pc \in Locked
      BY <1>2 DEF ProvInv, Locked, Inside
  <2>2. QED
      BY <2>1, DepthAbove DEF Tasks
<1>4. /\ \A u \in Tasks : u # t /\ task[w][t].outer => ~Has(w, u) /\ ~task[w][u].held
      /\ \A v \in Workers, u \in Tasks :
           task[w][t].held /\ task[v][u].held => v = w /\ u = t
      /\ task[w][t].held => task[w][t].outer
  <2>1. task[w][t].pc # "lock" /\ t \in Tasks
      BY <1>2 DEF Inside, Tasks
  <2>2. \A u \in Tasks : u # t /\ task[w][t].outer => ~Has(w, u)
      BY <1>3, <2>1, OneHas DEF Has
  <2>3. \A u \in Tasks : task[w][u].held => Has(w, u)
      BY <1>3 DEF LockInv, FileOwner, Has
  <2>4. \A v \in Workers, u \in Tasks : task[v][u].held => file = {v} /\ task[v][u].outer
      BY <1>3 DEF LockInv, FileOwner
  <2>5. QED
      BY <2>1, <2>2, <2>3, <2>4
<1>5. /\ r \in TaskRecords
      /\ r.pc \in {"idle", "announce"} /\ ~r.held /\ ~r.outer /\ r.todo = Nothing
    BY <1>1, NoTaskTyped DEF TaskRecords, Places, Stages, NoTask
<1>6. task' = [task EXCEPT ![w][t] = r]
    BY DEF Leave
<1> HIDE DEF r
<1>7. /\ task' \in [Workers -> [Tasks -> TaskRecords]]
      /\ \A v \in Workers, u \in Tasks :
           task'[v][u] = IF v = w /\ u = t THEN r ELSE task[v][u]
    BY <1>5, <1>6, OneTask DEF ProvInv
<1>8. /\ task[w][t].pc = "leave"
      /\ \A v \in Workers : depth'[v] = IF v = w THEN depth[w] - 1 ELSE depth[v]
      /\ depth' \in [Workers -> 0 .. 2]
      /\ \A v \in Workers :
           local'[v] = IF v = w /\ task[w][t].outer THEN "free" ELSE local[v]
      /\ local' \in [Workers -> {"free", "request", "pass", "converge"}]
      /\ file' = IF task[w][t].held THEN file \ {w} ELSE file
      /\ UNCHANGED <<rows, disk, up, loaded, pending, conv, inbox, lapses>>
    BY <1>2, <1>3 DEF Leave, LocalReturned, FileReturned
<1>9. TypeOK'
    BY <1>7, <1>8 DEF ProvInv, TypeOK, TaskRecords, Places
<1>10. up[w]
    BY <1>8, Awake
<1>11. LockInv'
  <2>1. DeadIsEmpty'
      BY <1>7, <1>8, <1>10 DEF ProvInv, LockInv, DeadIsEmpty, TypeOK
  <2>2. Riding'
      BY <1>5, <1>7, <1>8 DEF ProvInv, LockInv, Riding, Locked, Inside
  <2>3. DepthCounts'
    <3>1. r.pc \notin Locked /\ Counts(w, t) = 1
        BY <1>3, <1>5 DEF Locked, Inside, Counts
    <3>2. /\ \A v \in Workers : v # w => depth'[v] = depth[v]
          /\ depth'[w] = depth[w] - 1
        BY <1>8
    <3>3. depth[w] \in Nat =>
            depth'[w] = depth[w] + (IF r.pc \in Locked THEN 1 ELSE 0) - Counts(w, t)
        BY <3>1, <3>2
    <3>4. t \in Tasks
        BY DEF Tasks
    <3>5. QED
        BY <1>3, <1>7, <3>2, <3>3, <3>4, DepthFollows
  <2>4. LocalOwner'
    <3>1. task[w][t].pc # "lock" /\ t \in Tasks /\ t \in {"request", "pass"}
        BY <1>2 DEF Inside, Tasks
    <3>2. ~Has(w, t)'
        BY <1>5, <1>7, <3>1 DEF Has
    <3>3. \A v \in Workers, u \in Tasks :
            v # w \/ u # t => (Has(v, u)' <=> Has(v, u))
        BY <1>7 DEF Has
    <3>4. CASE ~task[w][t].outer
      <4>1. ~Has(w, t)
          BY <3>1, <3>4 DEF Has
      <4>2. QED
          BY <1>3, <1>8, <3>2, <3>3, <3>4, <4>1 DEF LockInv, LocalOwner, Has
    <3>5. CASE task[w][t].outer
      <4>1. local[w] = t /\ conv[w].pc # "run"
          BY <1>3, <3>1, <3>5 DEF LockInv, LocalOwner, Has
      <4>2. local'[w] = "free" /\ \A v \in Workers : v # w => local'[v] = local[v]
          BY <1>8, <3>5
      <4>3. \A u \in Tasks : ~Has(w, u)' /\ u # "free"
          BY <1>4, <3>2, <3>3, <3>5 DEF Tasks
      <4>4. QED
          BY <1>3, <1>8, <3>3, <4>1, <4>2, <4>3 DEF LockInv, LocalOwner, Has
    <3>6. QED
        BY <3>4, <3>5
  <2>5. FileOwner'
    <3>1. \A v \in Workers, u \in Tasks : task'[v][u].held => file' = {v}
        BY <1>3, <1>4, <1>5, <1>7, <1>8 DEF LockInv, FileOwner
    <3>2. \A v \in Workers, u \in Tasks : task'[v][u].held => task'[v][u].outer
        BY <1>3, <1>5, <1>7 DEF LockInv, FileOwner
    <3>3. \A v \in Workers, u \in Tasks :
            task'[v][u].outer /\ "forced" \notin lapses' => task'[v][u].held
        BY <1>3, <1>5, <1>7, <1>8 DEF LockInv, FileOwner
    <3>4. QED
        BY <3>1, <3>2, <3>3 DEF FileOwner
  <2>6. QED
      BY <2>1, <2>2, <2>3, <2>4, <2>5 DEF LockInv
<1>12. RowsLoaded'
    BY <1>5, <1>7, <1>8 DEF ProvInv, RowsLoaded, Working, Nothing
<1>13. QED
    BY <1>9, <1>11, <1>12 DEF ProvInv

\* The broadcast after a request holds no lock.
LEMMA AnnounceKeeps ==
  ASSUME ProvInv, NEW w \in Workers, NEW t \in Tasks, Announce(w, t)
  PROVE  ProvInv'
<1> DEFINE r == NoTask
<1>1. task[w][t] \in TaskRecords
    BY TaskTyped DEF ProvInv, Tasks
<1>2. /\ r \in TaskRecords
      /\ r.pc = "idle" /\ ~r.held /\ ~r.outer /\ r.todo = Nothing
    BY <1>1, NoTaskTyped DEF TaskRecords, Places, Stages, NoTask
<1>3. task' = [task EXCEPT ![w][t] = r]
    BY DEF Announce
<1> HIDE DEF r
<1>4. /\ task' \in [Workers -> [Tasks -> TaskRecords]]
      /\ \A v \in Workers, u \in Tasks :
           task'[v][u] = IF v = w /\ u = t THEN r ELSE task[v][u]
    BY <1>2, <1>3, OneTask DEF ProvInv
<1>5. /\ task[w][t].pc = "announce"
      /\ pending' \in [Workers -> {"off", "clean", "due"}] /\ inbox' \in [Workers -> BOOLEAN]
      /\ UNCHANGED <<rows, disk, up, loaded, local, file, depth, conv, lapses>>
    BY DEF ProvInv, TypeOK, Announce, Marked, Published
<1>6. TypeOK'
    BY <1>4, <1>5 DEF ProvInv, TypeOK, TaskRecords, Places
<1>7. up[w]
    BY <1>5, Awake
<1>8. LockInv'
  <2>1. DeadIsEmpty'
      BY <1>4, <1>5, <1>7 DEF ProvInv, LockInv, DeadIsEmpty
  <2>2. Riding'
      BY <1>2, <1>4, <1>5 DEF ProvInv, LockInv, Riding, Locked, Inside
  <2>3. DepthCounts'
    <3>1. \A v \in Workers, u \in Tasks : Counts(v, u)' = Counts(v, u)
        BY <1>2, <1>4, <1>5 DEF Counts, Locked, Inside
    <3>2. QED
        BY <1>2, <1>4, <1>5, <3>1 DEF ProvInv, LockInv, DepthCounts, Counts, Tasks
  <2>4. LocalOwner'
      BY <1>2, <1>4, <1>5 DEF ProvInv, LockInv, LocalOwner, Has, Riding, Locked, Inside
  <2>5. FileOwner'
      BY <1>2, <1>4, <1>5 DEF ProvInv, LockInv, FileOwner, Locked, Inside
  <2>6. QED
      BY <2>1, <2>2, <2>3, <2>4, <2>5 DEF LockInv
<1>9. RowsLoaded'
    BY <1>2, <1>4, <1>5 DEF ProvInv, RowsLoaded, Working, Nothing
<1>10. QED
    BY <1>6, <1>8, <1>9 DEF ProvInv

\* Nothing is left to do when the work ends, so no app waits for its row.
LEMMA WorkDoneKeeps ==
  ASSUME ProvInv, NEW w \in Workers, NEW t \in Tasks, WorkDone(w, t)
  PROVE  ProvInv'
<1> DEFINE r == [task[w][t] EXCEPT !.pc = CASE t = "request" -> "leave"
                                      [] t = "pass" /\ task[w][t].pc = "work" -> "prune"
                                      [] OTHER -> "flush"]
<1>1. task[w][t] \in TaskRecords
    BY TaskTyped DEF ProvInv, Tasks
<1>2. /\ r \in TaskRecords
      /\ r.pc \in {"leave", "prune", "flush"} /\ r.todo = task[w][t].todo
      /\ r.outer = task[w][t].outer /\ r.held = task[w][t].held
    BY <1>1 DEF TaskRecords, Places, Stages, Inside
<1>3. task' = [task EXCEPT ![w][t] = r]
    BY DEF WorkDone, Goto
<1> HIDE DEF r
<1>4. /\ task' \in [Workers -> [Tasks -> TaskRecords]]
      /\ \A v \in Workers, u \in Tasks :
           task'[v][u] = IF v = w /\ u = t THEN r ELSE task[v][u]
    BY <1>2, <1>3, OneTask DEF ProvInv
<1>5. /\ task[w][t].pc \in {"work", "trim"}
      /\ task[w][t].todo = Nothing
      /\ UNCHANGED <<rows, disk, up, loaded, local, file, depth, pending, conv, inbox, lapses>>
    BY DEF ProvInv, TypeOK, WorkDone, Working
<1>6. TypeOK'
    BY <1>4, <1>5 DEF ProvInv, TypeOK, TaskRecords, Places
<1>7. LockInv'
    BY <1>2, <1>3, <1>5, SamePlace DEF ProvInv, Tasks, Locked, Inside
<1>8. RowsLoaded'
    BY <1>2, <1>4, <1>5 DEF ProvInv, RowsLoaded, Working, Nothing
<1>9. QED
    BY <1>6, <1>7, <1>8 DEF ProvInv

\* What is staged for its row has just been loaded.
LEMMA LoadKeeps ==
  ASSUME ProvInv, NEW w \in Workers, NEW t \in Tasks, NEW a \in Apps, Load(w, t, a)
  PROVE  ProvInv'
<1> DEFINE r == [task[w][t] EXCEPT !.todo[a] = IF a \in BrokenApps THEN "none" ELSE "row"]
<1>1. task[w][t] \in TaskRecords
    BY TaskTyped DEF ProvInv, Tasks
<1>2. loaded \in [Workers -> SUBSET Apps] /\ disk \subseteq Apps
    BY DEF ProvInv, TypeOK
<1>3. /\ r \in TaskRecords
      /\ r.todo \in [Apps -> Stages]
      /\ r.todo[a] = IF a \in BrokenApps THEN "none" ELSE "row"
      /\ \A b \in Apps \ {a} : r.todo[b] = task[w][t].todo[b]
      /\ r.pc = task[w][t].pc
      /\ r.outer = task[w][t].outer /\ r.held = task[w][t].held
    BY <1>1 DEF TaskRecords, Places, Stages
<1>4. task' = [task EXCEPT ![w][t] = r]
    BY DEF Load, Stage
<1> HIDE DEF r
<1>5. /\ task' \in [Workers -> [Tasks -> TaskRecords]]
      /\ \A v \in Workers, u \in Tasks :
           task'[v][u] = IF v = w /\ u = t THEN r ELSE task[v][u]
    BY <1>3, <1>4, OneTask DEF ProvInv
<1>6. /\ task[w][t].pc \in {"work", "trim"}
      /\ \A v \in Workers :
           loaded'[v] = IF v = w /\ a \notin BrokenApps THEN loaded[v] \union {a} ELSE loaded[v]
      /\ loaded' \in [Workers -> SUBSET Apps]
      /\ a \in BrokenApps \/ a \in loaded'[w]
      /\ disk' \subseteq Apps
      /\ UNCHANGED <<rows, up, local, file, depth, pending, conv, inbox, lapses>>
    BY <1>2 DEF Load, Working
<1>7. TypeOK'
    BY <1>5, <1>6 DEF ProvInv, TypeOK, TaskRecords, Places
<1>8. LockInv'
    BY <1>3, <1>4, <1>6, SamePlace DEF ProvInv, Tasks, Locked, Inside
<1>9. RowsLoaded'
    BY <1>3, <1>5, <1>6 DEF ProvInv, RowsLoaded, Working
<1>10. QED
    BY <1>7, <1>8, <1>9 DEF ProvInv

\* An app another task has between load and row is not torn down: AppBusy.
LEMMA LoadRefusedKeeps ==
  ASSUME ProvInv, NEW w \in Workers, NEW t \in Tasks, NEW a \in Apps, LoadRefused(w, t, a)
  PROVE  ProvInv'
<1> DEFINE r == [task[w][t] EXCEPT !.todo[a] = "none"]
<1>1. task[w][t] \in TaskRecords
    BY TaskTyped DEF ProvInv, Tasks
<1>2. /\ r \in TaskRecords
      /\ r.todo \in [Apps -> Stages]
      /\ r.todo[a] = "none"
      /\ \A b \in Apps \ {a} : r.todo[b] = task[w][t].todo[b]
      /\ r.pc = task[w][t].pc
      /\ r.outer = task[w][t].outer /\ r.held = task[w][t].held
    BY <1>1 DEF TaskRecords, Places, Stages
<1>3. task' = [task EXCEPT ![w][t] = r]
    BY DEF LoadRefused, Stage
<1> HIDE DEF r
<1>4. /\ task' \in [Workers -> [Tasks -> TaskRecords]]
      /\ \A v \in Workers, u \in Tasks :
           task'[v][u] = IF v = w /\ u = t THEN r ELSE task[v][u]
    BY <1>2, <1>3, OneTask DEF ProvInv
<1>5. /\ task[w][t].pc \in {"work", "trim"}
      /\ loaded' \in [Workers -> SUBSET Apps]
      /\ \A v \in Workers : loaded[v] \subseteq loaded'[v] \union (IF v = w THEN {a} ELSE {})
      /\ \A u \in Tasks \ {t} : task[w][u].todo[a] # "row"
      /\ lapses \subseteq lapses' /\ lapses' \subseteq Lapses
      /\ UNCHANGED <<rows, disk, up, local, file, depth, pending, conv, inbox>>
    BY DEF ProvInv, TypeOK, LoadRefused, Working, AppBusy, With, Lapses
<1>6. TypeOK'
    BY <1>4, <1>5 DEF ProvInv, TypeOK, TaskRecords, Places
<1>7. LockInv'
    BY <1>2, <1>3, <1>5, SamePlace DEF ProvInv, Tasks, Locked, Inside
<1>8. RowsLoaded'
    BY <1>2, <1>4, <1>5 DEF ProvInv, RowsLoaded, Working
<1>9. QED
    BY <1>6, <1>7, <1>8 DEF ProvInv

\* With its row written the app leaves the window.
LEMMA RecordKeeps ==
  ASSUME ProvInv, NEW w \in Workers, NEW t \in Tasks, NEW a \in Apps, Record(w, t, a)
  PROVE  ProvInv'
<1> DEFINE r == [task[w][t] EXCEPT !.todo[a] = "none", !.changed = (t = "request")]
<1>1. task[w][t] \in TaskRecords
    BY TaskTyped DEF ProvInv, Tasks
<1>2. /\ r \in TaskRecords
      /\ r.todo \in [Apps -> Stages]
      /\ r.todo[a] = "none"
      /\ \A b \in Apps \ {a} : r.todo[b] = task[w][t].todo[b]
      /\ r.pc = task[w][t].pc
      /\ r.outer = task[w][t].outer /\ r.held = task[w][t].held
    BY <1>1 DEF TaskRecords, Places, Stages
<1>3. task' = [task EXCEPT ![w][t] = r]
    BY DEF Record, Stage
<1> HIDE DEF r
<1>4. /\ task' \in [Workers -> [Tasks -> TaskRecords]]
      /\ \A v \in Workers, u \in Tasks :
           task'[v][u] = IF v = w /\ u = t THEN r ELSE task[v][u]
    BY <1>2, <1>3, OneTask DEF ProvInv
<1>5. /\ task[w][t].pc \in {"work", "trim"}
      /\ rows' \subseteq Apps
      /\ pending' \in [Workers -> {"off", "clean", "due"}]
      /\ UNCHANGED <<disk, up, loaded, local, file, depth, conv, inbox, lapses>>
    BY DEF ProvInv, TypeOK, Record, Working, Marked
<1>6. TypeOK'
    BY <1>4, <1>5 DEF ProvInv, TypeOK, TaskRecords, Places
<1>7. LockInv'
    BY <1>2, <1>3, <1>5, SamePlace DEF ProvInv, Tasks, Locked, Inside
<1>8. RowsLoaded'
  <2>1. \A v \in Workers, u \in Tasks, b \in Apps :
          task'[v][u].todo[b] = "row" =>
            task[v][u].todo[b] = "row" /\ task'[v][u].pc = task[v][u].pc
      BY <1>2, <1>4
  <2>2. QED
      BY <1>5, <2>1 DEF ProvInv, RowsLoaded, Working
<1>9. QED
    BY <1>6, <1>7, <1>8 DEF ProvInv

\* The app being removed is not one being installed here, unless one of the two rides.
LEMMA UnloadKeeps ==
  ASSUME ProvInv, NEW w \in Workers, NEW t \in Tasks, NEW a \in Apps, Unload(w, t, a)
  PROVE  ProvInv'
<1> DEFINE r == [task[w][t] EXCEPT !.todo[a] = "forget"]
<1>1. task[w][t] \in TaskRecords
    BY TaskTyped DEF ProvInv, Tasks
<1>2. /\ r \in TaskRecords
      /\ r.todo \in [Apps -> Stages]
      /\ r.todo[a] = "forget"
      /\ \A b \in Apps \ {a} : r.todo[b] = task[w][t].todo[b]
      /\ r.pc = task[w][t].pc
      /\ r.outer = task[w][t].outer /\ r.held = task[w][t].held
    BY <1>1 DEF TaskRecords, Places, Stages
<1>3. task' = [task EXCEPT ![w][t] = r]
    BY DEF Unload, Stage
<1> HIDE DEF r
<1>4. /\ task' \in [Workers -> [Tasks -> TaskRecords]]
      /\ \A v \in Workers, u \in Tasks :
           task'[v][u] = IF v = w /\ u = t THEN r ELSE task[v][u]
    BY <1>2, <1>3, OneTask DEF ProvInv
<1>5. /\ task[w][t].pc \in {"work", "trim"}
      /\ loaded' = [loaded EXCEPT ![w] = @ \ {a}]
      /\ UNCHANGED <<rows, disk, up, local, file, depth, pending, conv, inbox, lapses>>
    BY DEF ProvInv, TypeOK, Unload, Working
<1>6. TypeOK'
    BY <1>4, <1>5 DEF ProvInv, TypeOK, TaskRecords, Places
<1>7. LockInv'
    BY <1>2, <1>3, <1>5, SamePlace DEF ProvInv, Tasks, Locked, Inside
<1>8. RowsLoaded'
  <2>1. \A u \in Tasks :
          u # t /\ "rode" \notin lapses => task[w][u].pc \notin {"work", "trim"}
      BY <1>5, OneInside DEF ProvInv, Locked, Inside
  <2>2. QED
      BY <1>2, <1>4, <1>5, <2>1 DEF ProvInv, RowsLoaded, Working, TypeOK
<1>9. QED
    BY <1>6, <1>7, <1>8 DEF ProvInv

\* Dropping the row and the directory touches no lock.
LEMMA ForgetKeeps ==
  ASSUME ProvInv, NEW w \in Workers, NEW t \in Tasks, NEW a \in Apps, Forget(w, t, a)
  PROVE  ProvInv'
<1> DEFINE r == [task[w][t] EXCEPT !.todo[a] = "none", !.changed = (t = "request")]
<1>1. task[w][t] \in TaskRecords
    BY TaskTyped DEF ProvInv, Tasks
<1>2. /\ r \in TaskRecords
      /\ r.todo \in [Apps -> Stages]
      /\ r.todo[a] = "none"
      /\ \A b \in Apps \ {a} : r.todo[b] = task[w][t].todo[b]
      /\ r.pc = task[w][t].pc
      /\ r.outer = task[w][t].outer /\ r.held = task[w][t].held
    BY <1>1 DEF TaskRecords, Places, Stages
<1>3. task' = [task EXCEPT ![w][t] = r]
    BY DEF Forget, Stage
<1> HIDE DEF r
<1>4. /\ task' \in [Workers -> [Tasks -> TaskRecords]]
      /\ \A v \in Workers, u \in Tasks :
           task'[v][u] = IF v = w /\ u = t THEN r ELSE task[v][u]
    BY <1>2, <1>3, OneTask DEF ProvInv
<1>5. /\ task[w][t].pc \in {"work", "trim"}
      /\ rows' \subseteq Apps /\ disk' \subseteq Apps
      /\ pending' \in [Workers -> {"off", "clean", "due"}]
      /\ UNCHANGED <<up, loaded, local, file, depth, conv, inbox, lapses>>
    BY DEF ProvInv, TypeOK, Forget, Working, Marked
<1>6. TypeOK'
    BY <1>4, <1>5 DEF ProvInv, TypeOK, TaskRecords, Places
<1>7. LockInv'
    BY <1>2, <1>3, <1>5, SamePlace DEF ProvInv, Tasks, Locked, Inside
<1>8. RowsLoaded'
    BY <1>2, <1>4, <1>5 DEF ProvInv, RowsLoaded, Working
<1>9. QED
    BY <1>6, <1>7, <1>8 DEF ProvInv

\* A request comes to a live worker with no other request in flight.
LEMMA AskKeeps ==
  ASSUME ProvInv, NEW w \in Workers,
         NEW op \in {"install", "uninstall"}, NEW a \in Apps, Ask(w, op, a)
  PROVE  ProvInv'
<1> DEFINE r == [NoTask EXCEPT !.pc = "enter", !.op = op,
         !.todo[a] = IF op = "install" THEN "load" ELSE "unload"]
<1>1. task[w]["request"] \in TaskRecords
    BY TaskTyped DEF ProvInv, Tasks
<1>2. /\ r \in TaskRecords
      /\ r.pc = "enter" /\ ~r.outer /\ ~r.held
      /\ \A b \in Apps : r.todo[b] # "row"
    BY <1>1, NoTaskTyped DEF TaskRecords, Places, Stages, NoTask, Nothing
<1>3. task' = [task EXCEPT ![w]["request"] = r]
    BY DEF Ask
<1> HIDE DEF r
<1>4. /\ task' \in [Workers -> [Tasks -> TaskRecords]]
      /\ \A v \in Workers, u \in Tasks :
           task'[v][u] = IF v = w /\ u = "request" THEN r ELSE task[v][u]
    BY <1>2, <1>3, OneTask DEF ProvInv, Tasks
<1>5. /\ up[w]
      /\ task[w]["request"].pc = "idle" /\ ~task[w]["request"].outer
      /\ UNCHANGED <<rows, disk, up, loaded, local, file, depth, pending, conv, inbox, lapses>>
    BY DEF ProvInv, TypeOK, Ask, LockInv, Riding, Locked, Inside, Tasks
<1>6. TypeOK'
    BY <1>4, <1>5 DEF ProvInv, TypeOK, TaskRecords, Places
<1>7. up[w]
    BY <1>5
<1>8. LockInv'
  <2>1. DeadIsEmpty'
      BY <1>4, <1>5, <1>7 DEF ProvInv, LockInv, DeadIsEmpty
  <2>2. Riding'
      BY <1>2, <1>4, <1>5 DEF ProvInv, LockInv, Riding, Locked, Inside
  <2>3. DepthCounts'
    <3>1. \A v \in Workers, u \in Tasks : Counts(v, u)' = Counts(v, u)
        BY <1>2, <1>4, <1>5 DEF Counts, Locked, Inside
    <3>2. QED
        BY <1>2, <1>4, <1>5, <3>1 DEF ProvInv, LockInv, DepthCounts, Counts, Tasks
  <2>4. LocalOwner'
      BY <1>2, <1>4, <1>5 DEF ProvInv, LockInv, LocalOwner, Has, Locked, Inside
  <2>5. FileOwner'
      BY <1>2, <1>4, <1>5 DEF ProvInv, LockInv, FileOwner, Locked, Inside
  <2>6. QED
      BY <2>1, <2>2, <2>3, <2>4, <2>5 DEF LockInv
<1>9. RowsLoaded'
    BY <1>2, <1>4, <1>5 DEF ProvInv, RowsLoaded, Working
<1>10. QED
    BY <1>6, <1>8, <1>9 DEF ProvInv

\* A pass starts on a live worker with no other pass in flight.
LEMMA BeginPassKeeps ==
  ASSUME ProvInv, NEW w \in Workers, BeginPass(w)
  PROVE  ProvInv'
<1> DEFINE r == [NoTask EXCEPT !.pc = "enter", !.op = "pass"]
<1>1. task[w]["pass"] \in TaskRecords
    BY TaskTyped DEF ProvInv, Tasks
<1>2. /\ r \in TaskRecords
      /\ r.pc = "enter" /\ ~r.outer /\ ~r.held /\ r.todo = Nothing
    BY <1>1, NoTaskTyped DEF TaskRecords, Places, Stages, NoTask
<1>3. task' = [task EXCEPT ![w]["pass"] = r]
    BY DEF BeginPass
<1> HIDE DEF r
<1>4. /\ task' \in [Workers -> [Tasks -> TaskRecords]]
      /\ \A v \in Workers, u \in Tasks :
           task'[v][u] = IF v = w /\ u = "pass" THEN r ELSE task[v][u]
    BY <1>2, <1>3, OneTask DEF ProvInv, Tasks
<1>5. /\ up[w]
      /\ task[w]["pass"].pc = "idle" /\ ~task[w]["pass"].outer
      /\ UNCHANGED <<rows, disk, up, loaded, local, file, depth, pending, conv, inbox, lapses>>
    BY DEF ProvInv, TypeOK, BeginPass, LockInv, Riding, Locked, Inside, Tasks
<1>6. TypeOK'
    BY <1>4, <1>5 DEF ProvInv, TypeOK, TaskRecords, Places
<1>7. up[w]
    BY <1>5
<1>8. LockInv'
  <2>1. DeadIsEmpty'
      BY <1>4, <1>5, <1>7 DEF ProvInv, LockInv, DeadIsEmpty
  <2>2. Riding'
      BY <1>2, <1>4, <1>5 DEF ProvInv, LockInv, Riding, Locked, Inside
  <2>3. DepthCounts'
    <3>1. \A v \in Workers, u \in Tasks : Counts(v, u)' = Counts(v, u)
        BY <1>2, <1>4, <1>5 DEF Counts, Locked, Inside
    <3>2. QED
        BY <1>2, <1>4, <1>5, <3>1 DEF ProvInv, LockInv, DepthCounts, Counts, Tasks
  <2>4. LocalOwner'
      BY <1>2, <1>4, <1>5 DEF ProvInv, LockInv, LocalOwner, Has, Locked, Inside
  <2>5. FileOwner'
      BY <1>2, <1>4, <1>5 DEF ProvInv, LockInv, FileOwner, Locked, Inside
  <2>6. QED
      BY <2>1, <2>2, <2>3, <2>4, <2>5 DEF LockInv
<1>9. RowsLoaded'
    BY <1>2, <1>4, <1>5 DEF ProvInv, RowsLoaded, Working, Nothing
<1>10. QED
    BY <1>6, <1>8, <1>9 DEF ProvInv

\* The plan reads nothing that a lock depends on and stages no app for its row.
LEMMA PlanKeeps ==
  ASSUME ProvInv, NEW w \in Workers, Plan(w)
  PROVE  ProvInv'
<1>1. PICK wanted \in SUBSET Apps :
        /\ lapses' = With("stray", ~(rows \ loaded[w] \subseteq wanted))
        /\ task' = [task EXCEPT ![w]["pass"].pc = "work", ![w]["pass"].wanted = wanted,
             ![w]["pass"].todo =
               [a \in Apps |-> IF a \in wanted \ loaded[w] THEN "load" ELSE "none"]]
    BY DEF Plan
<1> DEFINE r == [task[w]["pass"] EXCEPT !.pc = "work", !.wanted = wanted,
         !.todo = [a \in Apps |-> IF a \in wanted \ loaded[w] THEN "load" ELSE "none"]]
<1>2. task[w]["pass"] \in TaskRecords
    BY TaskTyped DEF ProvInv, Tasks
<1>3. /\ r \in TaskRecords
      /\ r.pc = "work" /\ \A b \in Apps : r.todo[b] # "row"
      /\ r.outer = task[w]["pass"].outer /\ r.held = task[w]["pass"].held
    BY <1>2 DEF TaskRecords, Places, Stages, Inside
<1>4. task' = [task EXCEPT ![w]["pass"] = r]
    BY <1>1
<1> HIDE DEF r
<1>5. /\ task' \in [Workers -> [Tasks -> TaskRecords]]
      /\ \A v \in Workers, u \in Tasks :
           task'[v][u] = IF v = w /\ u = "pass" THEN r ELSE task[v][u]
    BY <1>3, <1>4, OneTask DEF ProvInv, Tasks
<1>6. /\ task[w]["pass"].pc = "plan"
      /\ pending' \in [Workers -> {"off", "clean", "due"}]
      /\ lapses \subseteq lapses' /\ lapses' \subseteq Lapses
      /\ UNCHANGED <<rows, disk, up, loaded, local, file, depth, conv, inbox>>
    BY DEF ProvInv, TypeOK, Plan, With, Lapses
<1>7. TypeOK'
    BY <1>5, <1>6 DEF ProvInv, TypeOK, TaskRecords, Places
<1>8. LockInv'
    BY <1>3, <1>4, <1>6, SamePlace DEF ProvInv, Tasks, Locked, Inside
<1>9. RowsLoaded'
    BY <1>3, <1>5, <1>6 DEF ProvInv, RowsLoaded, Working
<1>10. QED
    BY <1>7, <1>8, <1>9 DEF ProvInv

\* Between install and uninstall nothing waits for its row.
LEMMA PruneKeeps ==
  ASSUME ProvInv, NEW w \in Workers, Prune(w)
  PROVE  ProvInv'
<1> DEFINE r == [task[w]["pass"] EXCEPT !.pc = "trim",
         !.todo = [a \in Apps |-> IF a \in loaded[w] \ task[w]["pass"].wanted
                                 THEN "unload" ELSE "none"]]
<1>1. task[w]["pass"] \in TaskRecords
    BY TaskTyped DEF ProvInv, Tasks
<1>2. /\ r \in TaskRecords
      /\ r.pc = "trim" /\ \A b \in Apps : r.todo[b] # "row"
      /\ r.outer = task[w]["pass"].outer /\ r.held = task[w]["pass"].held
    BY <1>1 DEF TaskRecords, Places, Stages, Inside
<1>3. task' = [task EXCEPT ![w]["pass"] = r]
    BY DEF Prune
<1> HIDE DEF r
<1>4. /\ task' \in [Workers -> [Tasks -> TaskRecords]]
      /\ \A v \in Workers, u \in Tasks :
           task'[v][u] = IF v = w /\ u = "pass" THEN r ELSE task[v][u]
    BY <1>2, <1>3, OneTask DEF ProvInv, Tasks
<1>5. /\ task[w]["pass"].pc = "prune"
      /\ UNCHANGED <<rows, disk, up, loaded, local, file, depth, pending, conv, inbox, lapses>>
    BY DEF ProvInv, TypeOK, Prune
<1>6. TypeOK'
    BY <1>4, <1>5 DEF ProvInv, TypeOK, TaskRecords, Places
<1>7. LockInv'
    BY <1>2, <1>3, <1>5, SamePlace DEF ProvInv, Tasks, Locked, Inside
<1>8. RowsLoaded'
    BY <1>2, <1>4, <1>5 DEF ProvInv, RowsLoaded, Working
<1>9. QED
    BY <1>6, <1>7, <1>8 DEF ProvInv

\* The pass publishes while it still has its locks.
LEMMA FlushKeeps ==
  ASSUME ProvInv, NEW w \in Workers, Flush(w)
  PROVE  ProvInv'
<1> DEFINE r == [task[w]["pass"] EXCEPT !.pc = "leave"]
<1>1. task[w]["pass"] \in TaskRecords
    BY TaskTyped DEF ProvInv, Tasks
<1>2. /\ r \in TaskRecords
      /\ r.pc = "leave" /\ r.todo = task[w]["pass"].todo
      /\ r.outer = task[w]["pass"].outer /\ r.held = task[w]["pass"].held
    BY <1>1 DEF TaskRecords, Places, Stages
<1>3. task' = [task EXCEPT ![w]["pass"] = r]
    BY DEF Flush, Goto
<1> HIDE DEF r
<1>4. /\ task' \in [Workers -> [Tasks -> TaskRecords]]
      /\ \A v \in Workers, u \in Tasks :
           task'[v][u] = IF v = w /\ u = "pass" THEN r ELSE task[v][u]
    BY <1>2, <1>3, OneTask DEF ProvInv, Tasks
<1>5. /\ task[w]["pass"].pc = "flush"
      /\ pending' \in [Workers -> {"off", "clean", "due"}] /\ inbox' \in [Workers -> BOOLEAN]
      /\ UNCHANGED <<rows, disk, up, loaded, local, file, depth, conv, lapses>>
    BY DEF ProvInv, TypeOK, Flush, Published
<1>6. TypeOK'
    BY <1>4, <1>5 DEF ProvInv, TypeOK, TaskRecords, Places
<1>7. LockInv'
    BY <1>2, <1>3, <1>5, SamePlace DEF ProvInv, Tasks, Locked, Inside
<1>8. RowsLoaded'
    BY <1>2, <1>4, <1>5 DEF ProvInv, RowsLoaded, Working
<1>9. QED
    BY <1>6, <1>7, <1>8 DEF ProvInv

\* A pass that is cut gives back what it took, like one that leaves.
LEMMA CancelPassKeeps ==
  ASSUME ProvInv, NEW w \in Workers, CancelPass(w)
  PROVE  ProvInv'
<1> DEFINE r == NoTask
<1>1. task[w]["pass"] \in TaskRecords
    BY TaskTyped DEF ProvInv, Tasks
<1>2. /\ task[w]["pass"].pc \in Inside
      /\ depth \in [Workers -> 0 .. 2]
      /\ local \in [Workers -> {"free", "request", "pass", "converge"}]
      /\ pending \in [Workers -> {"off", "clean", "due"}]
      /\ lapses \subseteq Lapses
    BY DEF ProvInv, TypeOK, CancelPass
<1>3. LockInv /\ task[w]["pass"].pc \in Locked /\ depth[w] \in 1 .. 2
  <2>1. LockInv /\ task[w]["pass"].pc \in Locked
      BY <1>2 DEF ProvInv, Locked, Inside
  <2>2. QED
      BY <2>1, DepthAbove DEF Tasks
<1>4. /\ \A u \in Tasks : u # "pass" /\ task[w]["pass"].outer => ~Has(w, u) /\ ~task[w][u].held
      /\ \A v \in Workers, u \in Tasks :
           task[w]["pass"].held /\ task[v][u].held => v = w /\ u = "pass"
      /\ task[w]["pass"].held => task[w]["pass"].outer
  <2>1. task[w]["pass"].pc # "lock" /\ "pass" \in Tasks
      BY <1>2 DEF Inside, Tasks
  <2>2. \A u \in Tasks : u # "pass" /\ task[w]["pass"].outer => ~Has(w, u)
      BY <1>3, <2>1, OneHas DEF Has
  <2>3. \A u \in Tasks : task[w][u].held => Has(w, u)
      BY <1>3 DEF LockInv, FileOwner, Has
  <2>4. \A v \in Workers, u \in Tasks : task[v][u].held => file = {v} /\ task[v][u].outer
      BY <1>3 DEF LockInv, FileOwner
  <2>5. QED
      BY <2>1, <2>2, <2>3, <2>4
<1>5. /\ r \in TaskRecords
      /\ r.pc = "idle" /\ ~r.held /\ ~r.outer /\ r.todo = Nothing
    BY <1>1, NoTaskTyped DEF TaskRecords, Places, Stages, NoTask
<1>6. task' = [task EXCEPT ![w]["pass"] = r]
    BY DEF CancelPass
<1> HIDE DEF r
<1>7. /\ task' \in [Workers -> [Tasks -> TaskRecords]]
      /\ \A v \in Workers, u \in Tasks :
           task'[v][u] = IF v = w /\ u = "pass" THEN r ELSE task[v][u]
    BY <1>5, <1>6, OneTask DEF ProvInv, Tasks
<1>8. /\ task[w]["pass"].pc \in Inside
      /\ \A v \in Workers : depth'[v] = IF v = w THEN depth[w] - 1 ELSE depth[v]
      /\ depth' \in [Workers -> 0 .. 2]
      /\ \A v \in Workers :
           local'[v] = IF v = w /\ task[w]["pass"].outer THEN "free" ELSE local[v]
      /\ local' \in [Workers -> {"free", "request", "pass", "converge"}]
      /\ file' = IF task[w]["pass"].held THEN file \ {w} ELSE file
      /\ pending' \in [Workers -> {"off", "clean", "due"}]
      /\ lapses \subseteq lapses' /\ lapses' \subseteq Lapses
      /\ UNCHANGED <<rows, disk, up, loaded, conv, inbox>>
    BY <1>2, <1>3 DEF CancelPass, LocalReturned, FileReturned, With, Lapses
<1>9. TypeOK'
    BY <1>7, <1>8 DEF ProvInv, TypeOK, TaskRecords, Places
<1>10. up[w]
    BY <1>8, Awake DEF Tasks, Inside
<1>11. LockInv'
  <2>1. DeadIsEmpty'
      BY <1>7, <1>8, <1>10 DEF ProvInv, LockInv, DeadIsEmpty, TypeOK
  <2>2. Riding'
      BY <1>5, <1>7, <1>8 DEF ProvInv, LockInv, Riding, Locked, Inside
  <2>3. DepthCounts'
    <3>1. r.pc \notin Locked /\ Counts(w, "pass") = 1
        BY <1>3, <1>5 DEF Locked, Inside, Counts
    <3>2. /\ \A v \in Workers : v # w => depth'[v] = depth[v]
          /\ depth'[w] = depth[w] - 1
        BY <1>8
    <3>3. depth[w] \in Nat =>
            depth'[w] = depth[w] + (IF r.pc \in Locked THEN 1 ELSE 0) - Counts(w, "pass")
        BY <3>1, <3>2
    <3>4. "pass" \in Tasks
        BY DEF Tasks
    <3>5. QED
        BY <1>3, <1>7, <3>2, <3>3, <3>4, DepthFollows
  <2>4. LocalOwner'
    <3>1. task[w]["pass"].pc # "lock" /\ "pass" \in Tasks /\ "pass" \in {"request", "pass"}
        BY <1>2 DEF Inside, Tasks
    <3>2. ~Has(w, "pass")'
        BY <1>5, <1>7, <3>1 DEF Has
    <3>3. \A v \in Workers, u \in Tasks :
            v # w \/ u # "pass" => (Has(v, u)' <=> Has(v, u))
        BY <1>7 DEF Has
    <3>4. CASE ~task[w]["pass"].outer
      <4>1. ~Has(w, "pass")
          BY <3>1, <3>4 DEF Has
      <4>2. QED
          BY <1>3, <1>8, <3>2, <3>3, <3>4, <4>1 DEF LockInv, LocalOwner, Has
    <3>5. CASE task[w]["pass"].outer
      <4>1. local[w] = "pass" /\ conv[w].pc # "run"
          BY <1>3, <3>1, <3>5 DEF LockInv, LocalOwner, Has
      <4>2. local'[w] = "free" /\ \A v \in Workers : v # w => local'[v] = local[v]
          BY <1>8, <3>5
      <4>3. \A u \in Tasks : ~Has(w, u)' /\ u # "free"
          BY <1>4, <3>2, <3>3, <3>5 DEF Tasks
      <4>4. QED
          BY <1>3, <1>8, <3>3, <4>1, <4>2, <4>3 DEF LockInv, LocalOwner, Has
    <3>6. QED
        BY <3>4, <3>5
  <2>5. FileOwner'
    <3>1. \A v \in Workers, u \in Tasks : task'[v][u].held => file' = {v}
      <4>1. ASSUME NEW v \in Workers, NEW u \in Tasks, task'[v][u].held PROVE file' = {v}
        <5>1. task[v][u].held /\ (v # w \/ u # "pass")
            BY <1>5, <1>7, <4>1
        <5>2. file = {v} /\ ~task[w]["pass"].held
            BY <1>3, <1>4, <5>1 DEF LockInv, FileOwner
        <5>3. QED
            BY <1>8, <5>2
      <4>2. QED
          BY <4>1
    <3>2. \A v \in Workers, u \in Tasks : task'[v][u].held => task'[v][u].outer
        BY <1>3, <1>5, <1>7 DEF LockInv, FileOwner
    <3>3. \A v \in Workers, u \in Tasks :
            task'[v][u].outer /\ "forced" \notin lapses' => task'[v][u].held
        BY <1>3, <1>5, <1>7, <1>8 DEF LockInv, FileOwner
    <3>4. QED
        BY <3>1, <3>2, <3>3 DEF FileOwner
  <2>6. QED
      BY <2>1, <2>2, <2>3, <2>4, <2>5 DEF LockInv
<1>12. RowsLoaded'
    BY <1>5, <1>7, <1>8 DEF ProvInv, RowsLoaded, Working, Nothing
<1>13. QED
    BY <1>9, <1>11, <1>12 DEF ProvInv

-----------------------------------------------------------------------------
(* Convergence, deaths and returns *)

\* The handler takes or returns the in-process lock, which no task of its worker has.
LEMMA ConvSteps ==
  ASSUME ProvInv, NEW w \in Workers, NEW c, conv' = [conv EXCEPT ![w] = c],
         c \in [pc : {"idle", "queue", "run"}, rows : SUBSET Apps, todo : SUBSET Apps],
         NEW l \in {"free", "converge"}, local' = [local EXCEPT ![w] = l],
         up[w], local[w] \in {"free", "converge"}, c.pc = "run" <=> l = "converge",
         inbox' \in [Workers -> BOOLEAN],
         UNCHANGED <<rows, disk, up, loaded, file, depth, pending, task, lapses>>
  PROVE  ProvInv'
<1>1. TypeOK'
    BY DEF ProvInv, TypeOK
<1>2. DeadIsEmpty'
    BY DEF ProvInv, LockInv, DeadIsEmpty, TypeOK
<1>3. Riding' /\ DepthCounts' /\ FileOwner'
    BY DEF ProvInv, LockInv, Riding, DepthCounts, Counts, FileOwner
<1>4. LocalOwner'
    BY DEF ProvInv, LockInv, LocalOwner, Has, TypeOK, Tasks
<1>5. RowsLoaded'
    BY DEF ProvInv, RowsLoaded, Working
<1>6. QED
    BY <1>1, <1>2, <1>3, <1>4, <1>5 DEF ProvInv, LockInv

\* A message that is heard only queues the handler.
LEMMA HearKeeps ==
  ASSUME ProvInv, NEW w \in Workers, Hear(w)
  PROVE  ProvInv'
<1> DEFINE c == [conv[w] EXCEPT !.pc = "queue"]
<1>1. conv[w] \in [pc : {"idle", "queue", "run"}, rows : SUBSET Apps, todo : SUBSET Apps]
    BY DEF ProvInv, TypeOK
<1>2. /\ c \in [pc : {"idle", "queue", "run"}, rows : SUBSET Apps, todo : SUBSET Apps]
      /\ c.pc = "queue"
    BY <1>1
<1>3. conv' = [conv EXCEPT ![w] = c]
    BY DEF Hear
<1> HIDE DEF c
<1>4. /\ up[w] /\ conv[w].pc = "idle" /\ inbox' \in [Workers -> BOOLEAN]
      /\ UNCHANGED <<rows, disk, up, loaded, local, file, depth, pending, task, lapses>>
    BY DEF Hear, ProvInv, TypeOK
<1>5. TypeOK'
    BY <1>2, <1>3, <1>4 DEF ProvInv, TypeOK
<1>6. DeadIsEmpty'
    BY <1>2, <1>3, <1>4 DEF ProvInv, LockInv, DeadIsEmpty, TypeOK
<1>7. Riding' /\ DepthCounts' /\ FileOwner'
    BY <1>4 DEF ProvInv, LockInv, Riding, DepthCounts, Counts, FileOwner
<1>8. LocalOwner'
    BY <1>2, <1>3, <1>4 DEF ProvInv, LockInv, LocalOwner, Has, TypeOK
<1>9. RowsLoaded'
    BY <1>4 DEF ProvInv, RowsLoaded, Working
<1>10. QED
    BY <1>5, <1>6, <1>7, <1>8, <1>9 DEF ProvInv, LockInv

\* The handler takes the in-process lock only when no task has it.
LEMMA BeginConvergeKeeps ==
  ASSUME ProvInv, NEW w \in Workers, BeginConverge(w)
  PROVE  ProvInv'
<1> DEFINE c == [pc |-> "run", rows |-> rows, todo |-> rows \ loaded[w]]
<1>1. /\ c \in [pc : {"idle", "queue", "run"}, rows : SUBSET Apps, todo : SUBSET Apps]
      /\ c.pc = "run"
    BY DEF ProvInv, TypeOK
<1>2. conv' = [conv EXCEPT ![w] = c]
    BY DEF BeginConverge
<1>3. conv[w].pc = "queue" /\ local[w] = "free"
    BY DEF BeginConverge
<1>4. up[w]
    BY <1>3 DEF ProvInv, LockInv, DeadIsEmpty, NoConverge
<1> HIDE DEF c
<1>5. /\ local' = [local EXCEPT ![w] = "converge"]
      /\ UNCHANGED <<rows, disk, up, loaded, file, depth, pending, task, inbox, lapses>>
    BY DEF BeginConverge
<1>6. inbox' \in [Workers -> BOOLEAN]
    BY <1>5 DEF ProvInv, TypeOK
<1>7. QED
    BY <1>1, <1>2, <1>3, <1>4, <1>5, <1>6, ConvSteps

\* The handler returns the lock it has.
LEMMA ConvergedKeeps ==
  ASSUME ProvInv, NEW w \in Workers, Converged(w)
  PROVE  ProvInv'
<1>1. /\ NoConverge \in [pc : {"idle", "queue", "run"}, rows : SUBSET Apps, todo : SUBSET Apps]
      /\ NoConverge.pc = "idle"
    BY DEF NoConverge
<1>2. conv[w].pc = "run" /\ local[w] = "converge"
    BY DEF Converged, ProvInv, LockInv, LocalOwner, Has
<1>3. up[w]
    BY <1>2 DEF ProvInv, LockInv, DeadIsEmpty
<1>4. /\ conv' = [conv EXCEPT ![w] = NoConverge]
      /\ local' = [local EXCEPT ![w] = "free"]
      /\ UNCHANGED <<rows, disk, up, loaded, file, depth, pending, task, inbox, lapses>>
    BY DEF Converged
<1>5. inbox' \in [Workers -> BOOLEAN]
    BY <1>4 DEF ProvInv, TypeOK
<1>6. QED
    BY <1>1, <1>2, <1>3, <1>4, <1>5, ConvSteps

\* While the handler runs, this worker has no task at work and so no app between
\* its load and its row, unless one rode.
LEMMA NoRowsWhileConverging ==
  ASSUME ProvInv, "rode" \notin lapses, NEW w \in Workers, conv[w].pc = "run",
         NEW t \in Tasks, NEW a \in Apps
  PROVE  task[w][t].todo[a] # "row"
<1>1. local[w] = "converge" /\ t # "converge"
    BY DEF ProvInv, LockInv, LocalOwner, Has, Tasks
<1>2. ~task[w][t].outer
    BY <1>1 DEF ProvInv, LockInv, LocalOwner, Has
<1>3. task[w][t].pc \notin Locked
    BY <1>2 DEF ProvInv, LockInv, Riding
<1>4. QED
    BY <1>3 DEF ProvInv, RowsLoaded, Working, Locked, Inside

\* A detach is not of an app another task is installing.
LEMMA DetachKeeps ==
  ASSUME ProvInv, NEW w \in Workers, NEW a \in Apps, Detach(w, a)
  PROVE  ProvInv'
<1>1. /\ conv[w].pc = "run" /\ loaded' = [loaded EXCEPT ![w] = @ \ {a}]
      /\ UNCHANGED <<rows, disk, up, local, file, depth, pending, task, conv, inbox, lapses>>
    BY DEF Detach
<1>2. TypeOK'
    BY <1>1 DEF ProvInv, TypeOK
<1>3. LockInv'
    BY <1>1 DEF ProvInv, LockInv, DeadIsEmpty, Riding, DepthCounts, Counts, LocalOwner, Has, FileOwner
<1>4. "rode" \notin lapses => \A t \in Tasks, b \in Apps : task[w][t].todo[b] # "row"
    BY <1>1, NoRowsWhileConverging
<1>5. RowsLoaded'
    BY <1>1, <1>4 DEF ProvInv, TypeOK, RowsLoaded, Working
<1>6. QED
    BY <1>2, <1>3, <1>5 DEF ProvInv

\* An attach only adds to what is loaded.
LEMMA AttachKeeps ==
  ASSUME ProvInv, NEW w \in Workers, NEW a \in Apps, Attach(w, a)
  PROVE  ProvInv'
<1> DEFINE c == [conv[w] EXCEPT !.todo = @ \ {a}]
<1>1. conv[w] \in [pc : {"idle", "queue", "run"}, rows : SUBSET Apps, todo : SUBSET Apps]
    BY DEF ProvInv, TypeOK
<1>2. /\ c \in [pc : {"idle", "queue", "run"}, rows : SUBSET Apps, todo : SUBSET Apps]
      /\ c.pc = conv[w].pc
    BY <1>1
<1>3. conv' = [conv EXCEPT ![w] = c]
    BY DEF Attach
<1> HIDE DEF c
<1>4. loaded \in [Workers -> SUBSET Apps]
    BY DEF ProvInv, TypeOK
<1>5. /\ conv[w].pc = "run" /\ loaded' \in [Workers -> SUBSET Apps]
      /\ \A v \in Workers : loaded[v] \subseteq loaded'[v]
      /\ UNCHANGED <<rows, disk, up, local, file, depth, pending, task, inbox, lapses>>
    BY <1>4 DEF Attach
<1>6. TypeOK'
    BY <1>2, <1>3, <1>5 DEF ProvInv, TypeOK
<1>7. DeadIsEmpty'
  <2>1. up[w]
      BY <1>5 DEF ProvInv, LockInv, DeadIsEmpty, NoConverge
  <2>2. QED
      BY <2>1, <1>3, <1>5 DEF ProvInv, LockInv, DeadIsEmpty, TypeOK
<1>8. Riding' /\ DepthCounts' /\ FileOwner'
    BY <1>5 DEF ProvInv, LockInv, Riding, DepthCounts, Counts, FileOwner
<1>9. LocalOwner'
    BY <1>2, <1>3, <1>5 DEF ProvInv, LockInv, LocalOwner, Has, TypeOK
<1>10. RowsLoaded'
    BY <1>5 DEF ProvInv, RowsLoaded, Working
<1>11. QED
    BY <1>6, <1>7, <1>8, <1>9, <1>10 DEF ProvInv, LockInv

\* The kernel and the event loop take everything a dead worker had.
LEMMA WorkerDiesKeeps ==
  ASSUME ProvInv, NEW w \in Workers, WorkerDies(w)
  PROVE  ProvInv'
<1>1. /\ task' = [task EXCEPT ![w] = [t \in Tasks |-> NoTask]]
      /\ up' = [up EXCEPT ![w] = FALSE]
      /\ loaded' = [loaded EXCEPT ![w] = {}]
      /\ local' = [local EXCEPT ![w] = "free"]
      /\ depth' = [depth EXCEPT ![w] = 0]
      /\ conv' = [conv EXCEPT ![w] = NoConverge]
      /\ file' = file \ {w}
      /\ UNCHANGED <<rows, disk>>
    BY DEF WorkerDies
<1>2. \A v \in Workers, u \in Tasks :
        task'[v][u] = IF v = w THEN NoTask ELSE task[v][u]
    BY <1>1 DEF ProvInv, TypeOK
<1>3. task' \in [Workers -> [Tasks -> TaskRecords]]
    BY <1>1, NoTaskTyped DEF ProvInv, TypeOK, TaskRecords, Places
<1>4. lapses \subseteq lapses' /\ lapses' \subseteq Lapses
    BY DEF WorkerDies, With, Lapses, ProvInv, TypeOK
<1>5. /\ pending' \in [Workers -> {"off", "clean", "due"}]
      /\ inbox' \in [Workers -> BOOLEAN]
    BY DEF WorkerDies, ProvInv, TypeOK
<1>6. NoConverge \in [pc : {"idle", "queue", "run"}, rows : SUBSET Apps, todo : SUBSET Apps]
    BY DEF NoConverge
<1>7. TypeOK'
    BY <1>1, <1>3, <1>4, <1>5, <1>6 DEF ProvInv, TypeOK, TaskRecords, Places
<1>8. DeadIsEmpty'
    BY <1>1, <1>2 DEF ProvInv, TypeOK, LockInv, DeadIsEmpty
<1>9. NoTask.pc = "idle" /\ ~NoTask.held /\ ~NoTask.outer /\ NoTask.todo = Nothing
    BY DEF NoTask
<1>10. Riding'
    BY <1>2, <1>4, <1>9 DEF ProvInv, LockInv, Riding, Locked, Inside
<1>11. DepthCounts'
  <2>1. \A u \in Tasks : Counts(w, u)' = 0
      BY <1>2, <1>9 DEF Counts, Locked, Inside
  <2>2. \A v \in Workers, u \in Tasks : v # w => Counts(v, u)' = Counts(v, u)
      BY <1>2 DEF Counts
  <2>3. depth'[w] = 0 /\ \A v \in Workers : v # w => depth'[v] = depth[v]
      BY <1>1 DEF ProvInv, TypeOK
  <2>4. QED
      BY <2>1, <2>2, <2>3 DEF ProvInv, LockInv, DepthCounts, Counts, Tasks
<1>12. LocalOwner'
    BY <1>1, <1>2, <1>9 DEF ProvInv, TypeOK, LockInv, LocalOwner, Has, Locked, Inside, Tasks,
       NoConverge
<1>13. FileOwner'
  <2>1. ASSUME NEW v \in Workers, NEW u \in Tasks
        PROVE  /\ task'[v][u].outer /\ "forced" \notin lapses' => task'[v][u].held
               /\ task'[v][u].held => file' = {v} /\ task'[v][u].outer
    <3>1. CASE v = w
        BY <1>2, <1>9, <3>1
    <3>2. CASE v # w
        BY <1>1, <1>2, <1>4, <3>2 DEF ProvInv, LockInv, FileOwner
    <3>3. QED
        BY <3>1, <3>2
  <2>2. QED
      BY <2>1 DEF FileOwner
<1>14. RowsLoaded'
  <2>1. \A v \in Workers : v # w => loaded'[v] = loaded[v]
      BY <1>1 DEF ProvInv, TypeOK
  <2>2. \A a \in Apps : NoTask.todo[a] = "none"
      BY <1>9 DEF Nothing
  <2>3. RowsLoaded /\ ("rode" \notin lapses' => "rode" \notin lapses)
      BY <1>4 DEF ProvInv
  <2>4. QED
      BY <1>2, <2>1, <2>2, <2>3 DEF RowsLoaded, Working
<1>15. QED
    BY <1>7, <1>8, <1>10, <1>11, <1>12, <1>13, <1>14 DEF ProvInv, LockInv

\* A new process starts with its handler queued and nothing else.
LEMMA ReturnAttachingKeeps ==
  ASSUME ProvInv, NEW w \in Workers, ReturnAttaching(w)
  PROVE  ProvInv'
<1> DEFINE c == [conv[w] EXCEPT !.pc = "queue"]
<1>1. conv[w] \in [pc : {"idle", "queue", "run"}, rows : SUBSET Apps, todo : SUBSET Apps]
    BY DEF ProvInv, TypeOK
<1>2. /\ c \in [pc : {"idle", "queue", "run"}, rows : SUBSET Apps, todo : SUBSET Apps]
      /\ c.pc = "queue"
    BY <1>1
<1>3. conv' = [conv EXCEPT ![w] = c]
    BY DEF ReturnAttaching
<1> HIDE DEF c
<1>4. /\ ~up[w] /\ up' = [up EXCEPT ![w] = TRUE]
      /\ UNCHANGED <<rows, disk, loaded, local, file, depth, pending, task, inbox, lapses>>
    BY DEF ReturnAttaching
<1>5. local[w] = "free"
    BY <1>4 DEF ProvInv, LockInv, DeadIsEmpty
<1>6. TypeOK'
    BY <1>2, <1>3, <1>4 DEF ProvInv, TypeOK
<1>7. DeadIsEmpty'
    BY <1>3, <1>4 DEF ProvInv, LockInv, DeadIsEmpty, TypeOK
<1>8. Riding' /\ DepthCounts' /\ FileOwner'
    BY <1>4 DEF ProvInv, LockInv, Riding, DepthCounts, Counts, FileOwner
<1>9. LocalOwner'
    BY <1>2, <1>3, <1>4, <1>5 DEF ProvInv, LockInv, LocalOwner, Has, TypeOK
<1>10. RowsLoaded'
    BY <1>4 DEF ProvInv, RowsLoaded, Working
<1>11. QED
    BY <1>6, <1>7, <1>8, <1>9, <1>10 DEF ProvInv, LockInv

\* Or with its pass about to start.
LEMMA ReturnProvisioningKeeps ==
  ASSUME ProvInv, NEW w \in Workers, ReturnProvisioning(w)
  PROVE  ProvInv'
<1> DEFINE r == [NoTask EXCEPT !.pc = "enter", !.op = "pass"]
<1>1. /\ r \in TaskRecords
      /\ r.pc = "enter" /\ ~r.outer /\ ~r.held /\ r.todo = Nothing
    BY NoTaskTyped DEF TaskRecords, Places, NoTask
<1>2. task' = [task EXCEPT ![w]["pass"] = r]
    BY DEF ReturnProvisioning
<1> HIDE DEF r
<1>3. /\ task' \in [Workers -> [Tasks -> TaskRecords]]
      /\ \A v \in Workers, u \in Tasks :
           task'[v][u] = IF v = w /\ u = "pass" THEN r ELSE task[v][u]
    BY <1>1, <1>2, OneTask DEF ProvInv, Tasks
<1>4. /\ ~up[w] /\ up' = [up EXCEPT ![w] = TRUE]
      /\ UNCHANGED <<rows, disk, loaded, local, file, depth, pending, conv, inbox, lapses>>
    BY DEF ReturnProvisioning
<1>5. \A t \in Tasks : task[w][t].pc = "idle" /\ ~task[w][t].outer /\ ~task[w][t].held
    BY <1>4 DEF ProvInv, LockInv, DeadIsEmpty, NoTask
<1>6. TypeOK'
    BY <1>3, <1>4 DEF ProvInv, TypeOK, TaskRecords, Places
<1>7. DeadIsEmpty'
    BY <1>3, <1>4 DEF ProvInv, LockInv, DeadIsEmpty, TypeOK
<1>8. Riding'
    BY <1>1, <1>3, <1>4, <1>5 DEF ProvInv, LockInv, Riding, Locked, Inside
<1>9. DepthCounts'
  <2>1. \A v \in Workers, u \in Tasks : Counts(v, u)' = Counts(v, u)
      BY <1>1, <1>3, <1>5 DEF Counts, Locked, Inside
  <2>2. QED
      BY <1>4, <2>1 DEF ProvInv, LockInv, DepthCounts, Counts, Tasks
<1>10. LocalOwner'
    BY <1>1, <1>3, <1>4, <1>5 DEF ProvInv, LockInv, LocalOwner, Has, Locked, Inside
<1>11. FileOwner'
    BY <1>1, <1>3, <1>4, <1>5 DEF ProvInv, LockInv, FileOwner, Locked, Inside
<1>12. RowsLoaded'
    BY <1>1, <1>3, <1>4 DEF ProvInv, RowsLoaded, Working, Nothing
<1>13. QED
    BY <1>6, <1>7, <1>8, <1>9, <1>10, <1>11, <1>12 DEF ProvInv, LockInv

-----------------------------------------------------------------------------
(* Safety theorems *)

\* Every step keeps the invariant, one case per action.
LEMMA NextProvInv ==
  ASSUME ProvInv, [Next]_vars
  PROVE  ProvInv'
<1>1. CASE UNCHANGED vars
    BY <1>1 DEF vars, ProvInv, TypeOK, LockInv, DeadIsEmpty, Riding, DepthCounts, Counts, LocalOwner, Has,
       FileOwner, RowsLoaded, Working
<1>2. ASSUME NEW w \in Workers, NEW op \in {"install", "uninstall"}, NEW a \in Apps,
             Ask(w, op, a)
      PROVE  ProvInv'
    BY <1>2, AskKeeps
<1>3. ASSUME NEW w \in Workers, NEW t \in Tasks, TaskStep(w, t)
      PROVE  ProvInv'
    BY <1>3, EnterKeeps, TakeLocalKeeps, TakeFileKeeps, GiveUpWaitingKeeps, LeaveKeeps,
       AnnounceKeeps, WorkDoneKeeps DEF TaskStep
<1>4. ASSUME NEW w \in Workers, NEW t \in Tasks, NEW a \in Apps, AppStep(w, t, a)
      PROVE  ProvInv'
    BY <1>4, LoadKeeps, LoadRefusedKeeps, RecordKeeps, UnloadKeeps, ForgetKeeps DEF AppStep
<1>5. ASSUME NEW w \in Workers, NEW a \in Apps, Detach(w, a) \/ Attach(w, a)
      PROVE  ProvInv'
    BY <1>5, DetachKeeps, AttachKeeps
<1>6. ASSUME NEW w \in Workers,
             BeginPass(w) \/ Plan(w) \/ Prune(w) \/ Flush(w) \/ CancelPass(w)
      PROVE  ProvInv'
    BY <1>6, BeginPassKeeps, PlanKeeps, PruneKeeps, FlushKeeps, CancelPassKeeps
<1>7. ASSUME NEW w \in Workers,
             Hear(w) \/ BeginConverge(w) \/ Converged(w)
               \/ WorkerDies(w) \/ ReturnAttaching(w) \/ ReturnProvisioning(w)
      PROVE  ProvInv'
    BY <1>7, HearKeeps, BeginConvergeKeeps, ConvergedKeeps, WorkerDiesKeeps,
       ReturnAttachingKeeps, ReturnProvisioningKeeps
<1>8. QED
    BY <1>1, <1>2, <1>3, <1>4, <1>5, <1>6, <1>7 DEF Next

\* The inductive invariant holds in every reachable state.
THEOREM ProvisioningInvariant ==
  Spec => []ProvInv
<1>1. Init => ProvInv
    BY InitProvInv
<1>2. ProvInv /\ [Next]_vars => ProvInv'
    BY NextProvInv
<1>3. QED
    BY <1>1, <1>2, PTL DEF Spec

\* Type correctness of AppProvisioning: in particular the depth counter of
\* _provisioning never goes below zero, whatever leaves, is cut or dies.
THEOREM ProvisioningTypeCorrect ==
  Spec => []TypeOK
<1>1. ProvInv => TypeOK
    BY DEF ProvInv
<1>2. QED
    BY <1>1, ProvisioningInvariant, PTL

\* _provisioning: two workers are never inside the side-effecting half together,
\* unless a wait for the file lock gave up or a task rode on another's locks.
THEOREM ProvisioningIsExclusive ==
  Spec => []ProvisioningExclusive
<1>1. ProvInv => ProvisioningExclusive
  <2> SUFFICES ASSUME ProvInv, "forced" \notin lapses, "rode" \notin lapses,
                      NEW v \in Workers, NEW w \in Workers, NEW t \in Tasks, NEW u \in Tasks,
                      task[v][t].pc \in Inside, task[w][u].pc \in Inside
               PROVE  v = w
      BY DEF ProvisioningExclusive, OneWorkerInside
  <2>1. task[v][t].outer /\ task[w][u].outer
      BY DEF ProvInv, LockInv, Riding, Locked
  <2>2. file = {v} /\ file = {w}
      BY <2>1 DEF ProvInv, LockInv, FileOwner
  <2>3. QED
      BY <2>2
<1>2. QED
    BY <1>1, ProvisioningInvariant, PTL

\* in_process_exclusive: an install is not undone by a convergence pass, or by another
\* task that has the locks, between its load and its mirror row.
THEOREM InstallWindowIsHeld ==
  Spec => []InstallWindowHeld
<1>1. ProvInv => InstallWindowHeld
    BY DEF ProvInv, RowsLoaded, InstallWindowHeld
<1>2. QED
    BY <1>1, ProvisioningInvariant, PTL

-----------------------------------------------------------------------------
(* The fleet follows the mirror *)

\* A pass that has yet to plan loads what its worker lacks.
Unplanned == {"enter", "queue", "lock", "plan"}

\* _pending_broadcast is armed between the plan of a pass and its flush; what a request
\* has committed it announces.
Announcing ==
  \A w \in Workers :
    /\ pending[w] # "off" <=> task[w]["pass"].pc \in {"work", "prune", "trim", "flush"}
    /\ \A t \in Tasks : task[w][t].changed => t = "request" /\ task[w][t].pc # "idle"

\* What is installed, or about to be, can be loaded.
Loadable == /\ rows \intersect BrokenApps = {}
            /\ \A w \in Workers, t \in Tasks, a \in Apps :
                 task[w][t].todo[a] = "row" => a \notin BrokenApps

\* A dead process serves nothing.
DeadServesNothing == \A w \in Workers : ~up[w] => loaded[w] = {}

\* A convergence pass loads only what the rows it has read list.
ReadRows == \A w \in Workers : conv[w].pc = "run" => conv[w].todo \subseteq conv[w].rows

\* And its package is on disk.
OnDisk == /\ rows \subseteq disk
          /\ \A w \in Workers, t \in Tasks, a \in Apps :
               task[w][t].todo[a] = "row" => a \in disk

\* Somebody has a change to announce.
Owed == \E w \in Workers : pending[w] = "due" \/ \E t \in Tasks : task[w][t].changed

\* Worker w serves app a if the mirror lists it, or a task or its convergence pass is
\* about to see to it.
Settling(w, a) ==
  \/ a \in loaded[w] <=> a \in rows
  \/ \E t \in Tasks : Working(w, t) /\ task[w][t].todo[a] \in {"row", "forget"}
  \/ /\ a \in rows \ loaded[w]
     /\ \/ task[w]["pass"].pc \in Unplanned
        \/ Working(w, "pass") /\ task[w]["pass"].todo[a] = "load"
        \/ conv[w].pc = "run" /\ a \in conv[w].todo
  \/ a \in loaded[w] \ rows /\ conv[w].pc = "run"

\* Worker w has a convergence ahead of it, or is on its way to what the mirror lists.
Following(w) ==
  \/ inbox[w] \/ conv[w].pc = "queue"
  \/ /\ conv[w].pc = "run" => conv[w].rows = rows
     /\ \A a \in Apps : Settling(w, a)

FleetFollows == Owed \/ \A w \in Workers : up[w] => Following(w)

FleetInv ==
  /\ Announcing /\ Loadable /\ ReadRows /\ DeadServesNothing
  /\ lapses = {} => OnDisk /\ FleetFollows

-----------------------------------------------------------------------------
(* Its steps *)

\* The record of task t of worker w is the only one a step writes.
OtherTasks(w, t) ==
  \A v \in Workers, u \in Tasks : v # w \/ u # t => task'[v][u] = task[v][u]

\* Writing one task's record leaves the others alone.
LEMMA PutTask ==
  ASSUME TypeOK, NEW w \in Workers, NEW t \in Tasks, NEW r, task' = [task EXCEPT ![w][t] = r]
  PROVE  task'[w][t] = r /\ OtherTasks(w, t)
BY DEF TypeOK, OtherTasks

\* Whoever follows goes on following while nothing of his changes.
LEMMA FollowingOn ==
  ASSUME NEW v \in Workers, Following(v), rows' = rows, loaded'[v] = loaded[v],
         conv'[v] = conv[v], inbox[v] => inbox'[v],
         \A u \in Tasks : task'[v][u] = task[v][u]
  PROVE  Following(v)'
BY DEF Following, Settling, Working, Tasks

\* What is owed stays owed until every live worker is told; the others follow as long
\* as the mirror stays, and the worker that steps follows too.
LEMMA FleetOn ==
  ASSUME FleetFollows, NEW w \in Workers,
         Owed => Owed' \/ \A v \in Workers : up'[v] => inbox'[v],
         Owed' \/ rows' = rows,
         \A v \in Workers : v # w =>
           /\ up'[v] = up[v] /\ loaded'[v] = loaded[v] /\ conv'[v] = conv[v]
           /\ inbox[v] => inbox'[v]
           /\ \A u \in Tasks : task'[v][u] = task[v][u],
         ~Owed /\ ~Owed' /\ (up[w] => Following(w)) /\ up'[w] => Following(w)'
  PROVE  FleetFollows'
<1>1. CASE Owed'
  BY <1>1 DEF FleetFollows
<1>2. CASE \A v \in Workers : up'[v] => inbox'[v]
  BY <1>2 DEF FleetFollows, Following
<1>3. CASE ~Owed /\ ~Owed'
  BY <1>3, FollowingOn DEF FleetFollows
<1> QED BY <1>1, <1>2, <1>3

\* Enter: a pass that has not planned is still to plan.
LEMMA EnterFollows ==
  ASSUME ProvInv, FleetInv, NEW w \in Workers, NEW t \in Tasks, Enter(w, t)
  PROVE  FleetInv'
<1> DEFINE r == [task[w][t] EXCEPT !.pc = IF depth[w] > 0 THEN FirstStep(t) ELSE "queue"]
<1>1. /\ r.pc = IF depth[w] > 0 THEN FirstStep(t) ELSE "queue"
      /\ r.todo = task[w][t].todo /\ r.changed = task[w][t].changed
  <2>1. task[w][t] \in TaskRecords
    BY TaskTyped DEF ProvInv, Tasks
  <2> QED BY <2>1 DEF TaskRecords, Places
<1>a. task' = [task EXCEPT ![w][t] = r]
  BY DEF Enter, Goto
<1> HIDE DEF r
<1>2. task'[w][t] = r /\ OtherTasks(w, t)
  BY <1>a, PutTask DEF ProvInv, Tasks
<1>3. /\ task[w][t].pc = "enter"
      /\ UNCHANGED <<rows, disk, up, loaded, pending, conv, inbox>>
      /\ lapses' = {} => lapses = {} /\ ~(depth[w] > 0)
  BY DEF Enter
<1>4. Announcing'
  BY <1>1, <1>2, <1>3 DEF FleetInv, Announcing, OtherTasks, Tasks, Inside, Working, FirstStep
<1>5. Loadable' /\ ReadRows'
  BY <1>1, <1>2, <1>3 DEF FleetInv, Loadable, ReadRows, OtherTasks, Working, Nothing
<1>6. DeadServesNothing'
  BY <1>1, <1>2, <1>3 DEF FleetInv, DeadServesNothing
<1>7. ASSUME lapses' = {} PROVE OnDisk' /\ FleetFollows'
  <2>1. lapses = {} /\ OnDisk /\ FleetFollows
    BY <1>1, <1>2, <1>3, <1>7 DEF FleetInv, With
  <2>2. OnDisk'
    BY <1>1, <1>2, <1>3, <2>1 DEF OnDisk, OtherTasks, Nothing, Working
  <2>3. Owed => Owed' \/ \A v \in Workers : up'[v] => inbox'[v]
    BY <1>1, <1>2, <1>3, <1>7 DEF Owed, OtherTasks, Tasks, FleetInv, Announcing, With
  <2>4. Owed' \/ rows' = rows
    BY <1>1, <1>2, <1>3 DEF Owed, FleetInv, Announcing, Working, Tasks
  <2>5. ~Owed /\ ~Owed' /\ (up[w] => Following(w)) /\ up'[w] => Following(w)'
    BY <1>1, <1>2, <1>3, <1>7, <2>1, <2>4 DEF Following, Settling, Working, OtherTasks, Tasks,
       Unplanned, Inside, Nothing, FirstStep, With
  <2>6. \A v \in Workers : v # w =>
          /\ up'[v] = up[v] /\ loaded'[v] = loaded[v] /\ conv'[v] = conv[v]
          /\ inbox[v] => inbox'[v]
          /\ \A u \in Tasks : task'[v][u] = task[v][u]
    BY <1>1, <1>2, <1>3 DEF OtherTasks
  <2> QED BY <2>1, <2>2, <2>3, <2>4, <2>5, <2>6, FleetOn
<1> QED BY <1>4, <1>5, <1>6, <1>7 DEF FleetInv

\* TakeLocal: so is one that has the in-process lock,
LEMMA TakeLocalFollows ==
  ASSUME ProvInv, FleetInv, NEW w \in Workers, NEW t \in Tasks, TakeLocal(w, t)
  PROVE  FleetInv'
<1> DEFINE r == [task[w][t] EXCEPT !.pc = "lock"]
<1>1. /\ r.pc = "lock"
      /\ r.todo = task[w][t].todo /\ r.changed = task[w][t].changed
  <2>1. task[w][t] \in TaskRecords
    BY TaskTyped DEF ProvInv, Tasks
  <2> QED BY <2>1 DEF TaskRecords, Places
<1>a. task' = [task EXCEPT ![w][t] = r]
  BY DEF TakeLocal, Goto
<1> HIDE DEF r
<1>2. task'[w][t] = r /\ OtherTasks(w, t)
  BY <1>a, PutTask DEF ProvInv, Tasks
<1>3. /\ task[w][t].pc = "queue"
      /\ UNCHANGED <<rows, disk, up, loaded, pending, conv, inbox, lapses>>
  BY DEF ProvInv, TypeOK, TakeLocal, Goto
<1>4. Announcing'
  BY <1>1, <1>2, <1>3 DEF FleetInv, Announcing, OtherTasks, Tasks, Inside, Working, FirstStep
<1>5. Loadable' /\ ReadRows'
  BY <1>1, <1>2, <1>3 DEF FleetInv, Loadable, ReadRows, OtherTasks, Working, Nothing
<1>6. DeadServesNothing'
  BY <1>1, <1>2, <1>3 DEF FleetInv, DeadServesNothing
<1>7. ASSUME lapses' = {} PROVE OnDisk' /\ FleetFollows'
  <2>1. lapses = {} /\ OnDisk /\ FleetFollows
    BY <1>1, <1>2, <1>3, <1>7 DEF FleetInv, With
  <2>2. OnDisk'
    BY <1>1, <1>2, <1>3, <2>1 DEF OnDisk, OtherTasks, Nothing, Working
  <2>3. Owed => Owed' \/ \A v \in Workers : up'[v] => inbox'[v]
    BY <1>1, <1>2, <1>3, <1>7 DEF Owed, OtherTasks, Tasks, FleetInv, Announcing, With
  <2>4. Owed' \/ rows' = rows
    BY <1>1, <1>2, <1>3 DEF Owed, FleetInv, Announcing, Working, Tasks
  <2>5. ~Owed /\ ~Owed' /\ (up[w] => Following(w)) /\ up'[w] => Following(w)'
    BY <1>1, <1>2, <1>3, <1>7, <2>1, <2>4 DEF Following, Settling, Working, OtherTasks, Tasks,
       Unplanned, Inside, Nothing, FirstStep, With
  <2>6. \A v \in Workers : v # w =>
          /\ up'[v] = up[v] /\ loaded'[v] = loaded[v] /\ conv'[v] = conv[v]
          /\ inbox[v] => inbox'[v]
          /\ \A u \in Tasks : task'[v][u] = task[v][u]
    BY <1>1, <1>2, <1>3 DEF OtherTasks
  <2> QED BY <2>1, <2>2, <2>3, <2>4, <2>5, <2>6, FleetOn
<1> QED BY <1>4, <1>5, <1>6, <1>7 DEF FleetInv

\* TakeFile: and one that has both.
LEMMA TakeFileFollows ==
  ASSUME ProvInv, FleetInv, NEW w \in Workers, NEW t \in Tasks, TakeFile(w, t)
  PROVE  FleetInv'
<1> DEFINE r == [task[w][t] EXCEPT !.pc = FirstStep(t), !.outer = TRUE, !.held = TRUE]
<1>1. /\ r.pc = FirstStep(t)
      /\ r.todo = task[w][t].todo /\ r.changed = task[w][t].changed
  <2>1. task[w][t] \in TaskRecords
    BY TaskTyped DEF ProvInv, Tasks
  <2> QED BY <2>1 DEF TaskRecords, Places
<1>a. task' = [task EXCEPT ![w][t] = r]
  BY DEF TakeFile
<1> HIDE DEF r
<1>2. task'[w][t] = r /\ OtherTasks(w, t)
  BY <1>a, PutTask DEF ProvInv, Tasks
<1>3. /\ task[w][t].pc = "lock"
      /\ UNCHANGED <<rows, disk, up, loaded, pending, conv, inbox, lapses>>
  BY DEF ProvInv, TypeOK, TakeFile
<1>4. Announcing'
  BY <1>1, <1>2, <1>3 DEF FleetInv, Announcing, OtherTasks, Tasks, Inside, Working, FirstStep
<1>5. Loadable' /\ ReadRows'
  BY <1>1, <1>2, <1>3 DEF FleetInv, Loadable, ReadRows, OtherTasks, Working, Nothing
<1>6. DeadServesNothing'
  BY <1>1, <1>2, <1>3 DEF FleetInv, DeadServesNothing
<1>7. ASSUME lapses' = {} PROVE OnDisk' /\ FleetFollows'
  <2>1. lapses = {} /\ OnDisk /\ FleetFollows
    BY <1>1, <1>2, <1>3, <1>7 DEF FleetInv, With
  <2>2. OnDisk'
    BY <1>1, <1>2, <1>3, <2>1 DEF OnDisk, OtherTasks, Nothing, Working
  <2>3. Owed => Owed' \/ \A v \in Workers : up'[v] => inbox'[v]
    BY <1>1, <1>2, <1>3, <1>7 DEF Owed, OtherTasks, Tasks, FleetInv, Announcing, With
  <2>4. Owed' \/ rows' = rows
    BY <1>1, <1>2, <1>3 DEF Owed, FleetInv, Announcing, Working, Tasks
  <2>5. ~Owed /\ ~Owed' /\ (up[w] => Following(w)) /\ up'[w] => Following(w)'
    BY <1>1, <1>2, <1>3, <1>7, <2>1, <2>4 DEF Following, Settling, Working, OtherTasks, Tasks,
       Unplanned, Inside, Nothing, FirstStep, With
  <2>6. \A v \in Workers : v # w =>
          /\ up'[v] = up[v] /\ loaded'[v] = loaded[v] /\ conv'[v] = conv[v]
          /\ inbox[v] => inbox'[v]
          /\ \A u \in Tasks : task'[v][u] = task[v][u]
    BY <1>1, <1>2, <1>3 DEF OtherTasks
  <2> QED BY <2>1, <2>2, <2>3, <2>4, <2>5, <2>6, FleetOn
<1> QED BY <1>4, <1>5, <1>6, <1>7 DEF FleetInv

\* GiveUpWaiting: a lapse.
LEMMA GiveUpWaitingFollows ==
  ASSUME ProvInv, FleetInv, NEW w \in Workers, NEW t \in Tasks, GiveUpWaiting(w, t)
  PROVE  FleetInv'
<1> DEFINE r == [task[w][t] EXCEPT !.pc = FirstStep(t), !.outer = TRUE]
<1>1. /\ r.pc = FirstStep(t)
      /\ r.todo = task[w][t].todo /\ r.changed = task[w][t].changed
  <2>1. task[w][t] \in TaskRecords
    BY TaskTyped DEF ProvInv, Tasks
  <2> QED BY <2>1 DEF TaskRecords, Places
<1>a. task' = [task EXCEPT ![w][t] = r]
  BY DEF GiveUpWaiting
<1> HIDE DEF r
<1>2. task'[w][t] = r /\ OtherTasks(w, t)
  BY <1>a, PutTask DEF ProvInv, Tasks
<1>3. /\ task[w][t].pc = "lock" /\ lapses' # {}
      /\ UNCHANGED <<rows, disk, up, loaded, pending, conv, inbox>>
  BY DEF ProvInv, TypeOK, GiveUpWaiting
<1>4. Announcing'
  BY <1>1, <1>2, <1>3 DEF FleetInv, Announcing, OtherTasks, Tasks, Inside, Working, FirstStep
<1>5. Loadable' /\ ReadRows'
  BY <1>1, <1>2, <1>3 DEF FleetInv, Loadable, ReadRows, OtherTasks, Working, Nothing
<1>6. DeadServesNothing'
  BY <1>1, <1>2, <1>3 DEF FleetInv, DeadServesNothing
<1>7. ASSUME lapses' = {} PROVE OnDisk' /\ FleetFollows'
  <2>1. lapses = {} /\ OnDisk /\ FleetFollows
    BY <1>1, <1>2, <1>3, <1>7 DEF FleetInv, With
  <2>2. OnDisk'
    BY <1>1, <1>2, <1>3, <2>1 DEF OnDisk, OtherTasks, Nothing, Working
  <2>3. Owed => Owed' \/ \A v \in Workers : up'[v] => inbox'[v]
    BY <1>1, <1>2, <1>3, <1>7 DEF Owed, OtherTasks, Tasks, FleetInv, Announcing, With
  <2>4. Owed' \/ rows' = rows
    BY <1>1, <1>2, <1>3 DEF Owed, FleetInv, Announcing, Working, Tasks
  <2>5. ~Owed /\ ~Owed' /\ (up[w] => Following(w)) /\ up'[w] => Following(w)'
    BY <1>1, <1>2, <1>3, <1>7, <2>1, <2>4 DEF Following, Settling, Working, OtherTasks, Tasks,
       Unplanned, Inside, Nothing, FirstStep, With
  <2>6. \A v \in Workers : v # w =>
          /\ up'[v] = up[v] /\ loaded'[v] = loaded[v] /\ conv'[v] = conv[v]
          /\ inbox[v] => inbox'[v]
          /\ \A u \in Tasks : task'[v][u] = task[v][u]
    BY <1>1, <1>2, <1>3 DEF OtherTasks
  <2> QED BY <2>1, <2>2, <2>3, <2>4, <2>5, <2>6, FleetOn
<1> QED BY <1>4, <1>5, <1>6, <1>7 DEF FleetInv

\* Leave: what a request has committed it takes with it to its announcement.
LEMMA LeaveFollows ==
  ASSUME ProvInv, FleetInv, NEW w \in Workers, NEW t \in Tasks, Leave(w, t)
  PROVE  FleetInv'
<1> DEFINE r == IF task[w][t].changed
                THEN [NoTask EXCEPT !.pc = "announce", !.changed = TRUE]
                ELSE NoTask
<1>1. /\ r.pc = IF task[w][t].changed THEN "announce" ELSE "idle"
      /\ r.changed = task[w][t].changed /\ r.todo = Nothing
  <2>1. task[w][t] \in TaskRecords
    BY TaskTyped DEF ProvInv, Tasks
  <2> QED BY <2>1 DEF TaskRecords, Places, NoTask
<1>a. task' = [task EXCEPT ![w][t] = r]
  BY DEF Leave
<1> HIDE DEF r
<1>2. task'[w][t] = r /\ OtherTasks(w, t)
  BY <1>a, PutTask DEF ProvInv, Tasks
<1>3. /\ task[w][t].pc = "leave"
      /\ UNCHANGED <<rows, disk, up, loaded, pending, conv, inbox, lapses>>
  BY DEF ProvInv, TypeOK, Leave
<1>4. Announcing'
  BY <1>1, <1>2, <1>3 DEF FleetInv, Announcing, OtherTasks, Tasks, Inside, Working, FirstStep
<1>5. Loadable' /\ ReadRows'
  BY <1>1, <1>2, <1>3 DEF FleetInv, Loadable, ReadRows, OtherTasks, Working, Nothing
<1>6. DeadServesNothing'
  BY <1>1, <1>2, <1>3 DEF FleetInv, DeadServesNothing
<1>7. ASSUME lapses' = {} PROVE OnDisk' /\ FleetFollows'
  <2>1. lapses = {} /\ OnDisk /\ FleetFollows
    BY <1>1, <1>2, <1>3, <1>7 DEF FleetInv, With
  <2>2. OnDisk'
    BY <1>1, <1>2, <1>3, <2>1 DEF OnDisk, OtherTasks, Nothing, Working
  <2>3. Owed => Owed' \/ \A v \in Workers : up'[v] => inbox'[v]
    BY <1>1, <1>2, <1>3, <1>7 DEF Owed, OtherTasks, Tasks, FleetInv, Announcing, With
  <2>4. Owed' \/ rows' = rows
    BY <1>1, <1>2, <1>3 DEF Owed, FleetInv, Announcing, Working, Tasks
  <2>5. ~Owed /\ ~Owed' /\ (up[w] => Following(w)) /\ up'[w] => Following(w)'
    BY <1>1, <1>2, <1>3, <1>7, <2>1, <2>4 DEF Following, Settling, Working, OtherTasks, Tasks,
       Unplanned, Inside, Nothing, FirstStep, With
  <2>6. \A v \in Workers : v # w =>
          /\ up'[v] = up[v] /\ loaded'[v] = loaded[v] /\ conv'[v] = conv[v]
          /\ inbox[v] => inbox'[v]
          /\ \A u \in Tasks : task'[v][u] = task[v][u]
    BY <1>1, <1>2, <1>3 DEF OtherTasks
  <2> QED BY <2>1, <2>2, <2>3, <2>4, <2>5, <2>6, FleetOn
<1> QED BY <1>4, <1>5, <1>6, <1>7 DEF FleetInv

\* Announce: everybody is told.
LEMMA AnnounceFollows ==
  ASSUME ProvInv, FleetInv, NEW w \in Workers, NEW t \in Tasks, Announce(w, t)
  PROVE  FleetInv'
<1> DEFINE r == NoTask
<1>1. /\ r.pc = "idle" /\ ~r.changed /\ r.todo = Nothing
  <2>1. task[w][t] \in TaskRecords
    BY TaskTyped DEF ProvInv, Tasks
  <2> QED BY <2>1 DEF TaskRecords, Places, NoTask
<1>a. task' = [task EXCEPT ![w][t] = r]
  BY DEF Announce
<1> HIDE DEF r
<1>2. task'[w][t] = r /\ OtherTasks(w, t)
  BY <1>a, PutTask DEF ProvInv, Tasks
<1>3. /\ task[w][t].pc = "announce"
      /\ \A v \in Workers : inbox[v] => inbox'[v]
      /\ pending[w] = "off" => \A v \in Workers : up[v] => inbox'[v]
      /\ \A v \in Workers : v # w => pending'[v] = pending[v]
      /\ pending'[w] = IF pending[w] = "off" THEN "off" ELSE "due"
      /\ UNCHANGED <<rows, disk, up, loaded, conv, lapses>>
  BY DEF ProvInv, TypeOK, Announce, Marked, Published
<1>4. Announcing'
  BY <1>1, <1>2, <1>3 DEF FleetInv, Announcing, OtherTasks, Tasks, Inside, Working, FirstStep
<1>5. Loadable' /\ ReadRows'
  BY <1>1, <1>2, <1>3 DEF FleetInv, Loadable, ReadRows, OtherTasks, Working, Nothing
<1>6. DeadServesNothing'
  BY <1>1, <1>2, <1>3 DEF FleetInv, DeadServesNothing
<1>7. ASSUME lapses' = {} PROVE OnDisk' /\ FleetFollows'
  <2>1. lapses = {} /\ OnDisk /\ FleetFollows
    BY <1>1, <1>2, <1>3, <1>7 DEF FleetInv, With
  <2>2. OnDisk'
    BY <1>1, <1>2, <1>3, <2>1 DEF OnDisk, OtherTasks, Nothing, Working
  <2>3. Owed => Owed' \/ \A v \in Workers : up'[v] => inbox'[v]
    BY <1>1, <1>2, <1>3, <1>7 DEF Owed, OtherTasks, Tasks, FleetInv, Announcing, With
  <2>4. Owed' \/ rows' = rows
    BY <1>1, <1>2, <1>3 DEF Owed, FleetInv, Announcing, Working, Tasks
  <2>5. ~Owed /\ ~Owed' /\ (up[w] => Following(w)) /\ up'[w] => Following(w)'
    BY <1>1, <1>2, <1>3, <1>7, <2>1, <2>4 DEF Following, Settling, Working, OtherTasks, Tasks,
       Unplanned, Inside, Nothing, FirstStep, With
  <2>6. \A v \in Workers : v # w =>
          /\ up'[v] = up[v] /\ loaded'[v] = loaded[v] /\ conv'[v] = conv[v]
          /\ inbox[v] => inbox'[v]
          /\ \A u \in Tasks : task'[v][u] = task[v][u]
    BY <1>1, <1>2, <1>3 DEF OtherTasks
  <2> QED BY <2>1, <2>2, <2>3, <2>4, <2>5, <2>6, FleetOn
<1> QED BY <1>4, <1>5, <1>6, <1>7 DEF FleetInv

\* WorkDone: nothing that is staged excuses anything.
LEMMA WorkDoneFollows ==
  ASSUME ProvInv, FleetInv, NEW w \in Workers, NEW t \in Tasks, WorkDone(w, t)
  PROVE  FleetInv'
<1> DEFINE p == CASE t = "request" -> "leave"
                  [] t = "pass" /\ task[w][t].pc = "work" -> "prune"
                  [] OTHER -> "flush"
<1>p. /\ t = "request" => p = "leave"
      /\ t = "pass" => p = IF task[w][t].pc = "work" THEN "prune" ELSE "flush"
  <2>1. t = "request" => p = "leave"
    OBVIOUS
  <2>2. t = "pass" => p = IF task[w][t].pc = "work" THEN "prune" ELSE "flush"
    OBVIOUS
  <2> QED BY <2>1, <2>2
<1> DEFINE r == [task[w][t] EXCEPT !.pc = p]
<1>1. /\ t = "request" => r.pc = "leave"
      /\ t = "pass" => r.pc = IF task[w][t].pc = "work" THEN "prune" ELSE "flush"
      /\ r.todo = task[w][t].todo /\ r.changed = task[w][t].changed
  <2>1. task[w][t] \in TaskRecords
    BY TaskTyped DEF ProvInv, Tasks
  <2>2. r.pc = p
    <3> HIDE DEF p
    <3> QED BY <2>1 DEF TaskRecords
  <2> QED BY <1>p, <2>1, <2>2 DEF TaskRecords
<1>a. task' = [task EXCEPT ![w][t] = r]
  BY DEF WorkDone, Goto
<1> HIDE DEF r
<1>2. task'[w][t] = r /\ OtherTasks(w, t)
  BY <1>a, PutTask DEF ProvInv, Tasks
<1>3. /\ Working(w, t) /\ task[w][t].todo = Nothing
      /\ UNCHANGED <<rows, disk, up, loaded, pending, conv, inbox, lapses>>
  BY DEF ProvInv, TypeOK, WorkDone, Goto
<1>4. Announcing'
  BY <1>1, <1>2, <1>3 DEF FleetInv, Announcing, OtherTasks, Tasks, Inside, Working, FirstStep
<1>5. Loadable' /\ ReadRows'
  BY <1>1, <1>2, <1>3 DEF FleetInv, Loadable, ReadRows, OtherTasks, Working, Nothing
<1>6. DeadServesNothing'
  BY <1>1, <1>2, <1>3 DEF FleetInv, DeadServesNothing
<1>7. ASSUME lapses' = {} PROVE OnDisk' /\ FleetFollows'
  <2>1. lapses = {} /\ OnDisk /\ FleetFollows
    BY <1>1, <1>2, <1>3, <1>7 DEF FleetInv, With
  <2>2. OnDisk'
    BY <1>1, <1>2, <1>3, <2>1 DEF OnDisk, OtherTasks, Nothing, Working
  <2>3. Owed => Owed' \/ \A v \in Workers : up'[v] => inbox'[v]
    BY <1>1, <1>2, <1>3, <1>7 DEF Owed, OtherTasks, Tasks, FleetInv, Announcing, With
  <2>4. Owed' \/ rows' = rows
    BY <1>1, <1>2, <1>3 DEF Owed, FleetInv, Announcing, Working, Tasks
  <2>5. ~Owed /\ ~Owed' /\ (up[w] => Following(w)) /\ up'[w] => Following(w)'
    BY <1>1, <1>2, <1>3, <1>7, <2>1, <2>4 DEF Following, Settling, Working, OtherTasks, Tasks,
       Unplanned, Inside, Nothing, FirstStep, With
  <2>6. \A v \in Workers : v # w =>
          /\ up'[v] = up[v] /\ loaded'[v] = loaded[v] /\ conv'[v] = conv[v]
          /\ inbox[v] => inbox'[v]
          /\ \A u \in Tasks : task'[v][u] = task[v][u]
    BY <1>1, <1>2, <1>3 DEF OtherTasks
  <2> QED BY <2>1, <2>2, <2>3, <2>4, <2>5, <2>6, FleetOn
<1> QED BY <1>4, <1>5, <1>6, <1>7 DEF FleetInv

\* Load: an app that is on disk, loads and waits for its row.
LEMMA LoadFollows ==
  ASSUME ProvInv, FleetInv, NEW w \in Workers, NEW t \in Tasks, NEW a \in Apps, Load(w, t, a)
  PROVE  FleetInv'
<1> DEFINE r == [task[w][t] EXCEPT !.todo[a] = IF a \in BrokenApps THEN "none" ELSE "row"]
<1>1. /\ r.pc = task[w][t].pc
      /\ \A b \in Apps : b # a => r.todo[b] = task[w][t].todo[b]
      /\ r.todo[a] = IF a \in BrokenApps THEN "none" ELSE "row"
      /\ r.changed = task[w][t].changed
  <2>1. task[w][t] \in TaskRecords
    BY TaskTyped DEF ProvInv, Tasks
  <2> QED BY <2>1 DEF TaskRecords, Places, Stages
<1>a. task' = [task EXCEPT ![w][t] = r]
  BY DEF Load, Stage
<1> HIDE DEF r
<1>2. task'[w][t] = r /\ OtherTasks(w, t)
  BY <1>a, PutTask DEF ProvInv, Tasks
<1>3. /\ Working(w, t) /\ task[w][t].todo[a] = "load" /\ a \notin loaded[w]
      /\ disk' = disk \union {a}
      /\ loaded'[w] = IF a \in BrokenApps THEN loaded[w] ELSE loaded[w] \union {a}
      /\ \A v \in Workers : v # w => loaded'[v] = loaded[v]
      /\ UNCHANGED <<rows, up, pending, conv, inbox, lapses>>
  BY DEF ProvInv, TypeOK, Load, Stage
<1>u. up[w]
  BY <1>3, Awake DEF Working
<1>4. Announcing'
  BY <1>1, <1>2, <1>3 DEF FleetInv, Announcing, OtherTasks, Tasks, Inside, Working, FirstStep
<1>5. Loadable' /\ ReadRows'
  BY <1>1, <1>2, <1>3 DEF FleetInv, Loadable, ReadRows, OtherTasks, Working, Nothing
<1>6. DeadServesNothing'
  BY <1>1, <1>2, <1>3, <1>u DEF FleetInv, DeadServesNothing
<1>7. ASSUME lapses' = {} PROVE OnDisk' /\ FleetFollows'
  <2>1. lapses = {} /\ OnDisk /\ FleetFollows
    BY <1>1, <1>2, <1>3, <1>7 DEF FleetInv, With
  <2>2. OnDisk'
    BY <1>1, <1>2, <1>3, <2>1 DEF OnDisk, OtherTasks, Nothing, Working
  <2>3. Owed => Owed' \/ \A v \in Workers : up'[v] => inbox'[v]
    BY <1>1, <1>2, <1>3, <1>7 DEF Owed, OtherTasks, Tasks, FleetInv, Announcing, With
  <2>4. Owed' \/ rows' = rows
    BY <1>1, <1>2, <1>3 DEF Owed, FleetInv, Announcing, Working, Tasks
  <2>5. ~Owed /\ ~Owed' /\ (up[w] => Following(w)) /\ up'[w] => Following(w)'
    BY <1>1, <1>2, <1>3, <1>7, <2>1, <2>4 DEF Following, Settling, Working, OtherTasks, Tasks,
       Unplanned, Inside, Nothing, FirstStep, With, FleetInv, Loadable
  <2>6. \A v \in Workers : v # w =>
          /\ up'[v] = up[v] /\ loaded'[v] = loaded[v] /\ conv'[v] = conv[v]
          /\ inbox[v] => inbox'[v]
          /\ \A u \in Tasks : task'[v][u] = task[v][u]
    BY <1>1, <1>2, <1>3 DEF OtherTasks
  <2> QED BY <2>1, <2>2, <2>3, <2>4, <2>5, <2>6, FleetOn
<1> QED BY <1>4, <1>5, <1>6, <1>7 DEF FleetInv

\* LoadRefused: a pass skips what is loaded; a request tears it, a lapse.
LEMMA LoadRefusedFollows ==
  ASSUME ProvInv, FleetInv, NEW w \in Workers, NEW t \in Tasks, NEW a \in Apps, LoadRefused(w, t, a)
  PROVE  FleetInv'
<1> DEFINE r == [task[w][t] EXCEPT !.todo[a] = "none"]
<1>1. /\ r.pc = task[w][t].pc
      /\ \A b \in Apps : b # a => r.todo[b] = task[w][t].todo[b]
      /\ r.todo[a] = "none"
      /\ r.changed = task[w][t].changed
  <2>1. task[w][t] \in TaskRecords
    BY TaskTyped DEF ProvInv, Tasks
  <2> QED BY <2>1 DEF TaskRecords, Places, Stages
<1>a. task' = [task EXCEPT ![w][t] = r]
  BY DEF LoadRefused, Stage
<1> HIDE DEF r
<1>2. task'[w][t] = r /\ OtherTasks(w, t)
  BY <1>a, PutTask DEF ProvInv, Tasks
<1>3. /\ Working(w, t) /\ task[w][t].todo[a] = "load" /\ a \in loaded[w]
      /\ lapses' = With("torn", t = "request") /\ (t = "pass" => loaded' = loaded)
      /\ loaded'[w] \subseteq loaded[w]
      /\ \A v \in Workers : v # w => loaded'[v] = loaded[v]
      /\ UNCHANGED <<rows, disk, up, pending, conv, inbox>>
  BY DEF ProvInv, TypeOK, LoadRefused, Stage
<1>4. Announcing'
  BY <1>1, <1>2, <1>3 DEF FleetInv, Announcing, OtherTasks, Tasks, Inside, Working, FirstStep
<1>5. Loadable' /\ ReadRows'
  BY <1>1, <1>2, <1>3 DEF FleetInv, Loadable, ReadRows, OtherTasks, Working, Nothing
<1>6. DeadServesNothing'
  BY <1>1, <1>2, <1>3 DEF FleetInv, DeadServesNothing
<1>7. ASSUME lapses' = {} PROVE OnDisk' /\ FleetFollows'
  <2>1. lapses = {} /\ OnDisk /\ FleetFollows
    BY <1>1, <1>2, <1>3, <1>7 DEF FleetInv, With
  <2>2. OnDisk'
    BY <1>1, <1>2, <1>3, <2>1 DEF OnDisk, OtherTasks, Nothing, Working
  <2>3. Owed => Owed' \/ \A v \in Workers : up'[v] => inbox'[v]
    BY <1>1, <1>2, <1>3, <1>7 DEF Owed, OtherTasks, Tasks, FleetInv, Announcing, With
  <2>4. Owed' \/ rows' = rows
    BY <1>1, <1>2, <1>3 DEF Owed, FleetInv, Announcing, Working, Tasks
  <2>5. ~Owed /\ ~Owed' /\ (up[w] => Following(w)) /\ up'[w] => Following(w)'
    BY <1>1, <1>2, <1>3, <1>7, <2>1, <2>4 DEF Following, Settling, Working, OtherTasks, Tasks,
       Unplanned, Inside, Nothing, FirstStep, With
  <2>6. \A v \in Workers : v # w =>
          /\ up'[v] = up[v] /\ loaded'[v] = loaded[v] /\ conv'[v] = conv[v]
          /\ inbox[v] => inbox'[v]
          /\ \A u \in Tasks : task'[v][u] = task[v][u]
    BY <1>1, <1>2, <1>3 DEF OtherTasks
  <2> QED BY <2>1, <2>2, <2>3, <2>4, <2>5, <2>6, FleetOn
<1> QED BY <1>4, <1>5, <1>6, <1>7 DEF FleetInv

\* Record: a row of an app on disk, to be announced.
LEMMA RecordFollows ==
  ASSUME ProvInv, FleetInv, NEW w \in Workers, NEW t \in Tasks, NEW a \in Apps, Record(w, t, a)
  PROVE  FleetInv'
<1> DEFINE r == [task[w][t] EXCEPT !.todo[a] = "none", !.changed = (t = "request")]
<1>1. /\ r.pc = task[w][t].pc
      /\ \A b \in Apps : b # a => r.todo[b] = task[w][t].todo[b]
      /\ r.todo[a] = "none"
      /\ r.changed = (t = "request")
  <2>1. task[w][t] \in TaskRecords
    BY TaskTyped DEF ProvInv, Tasks
  <2> QED BY <2>1 DEF TaskRecords, Places, Stages
<1>a. task' = [task EXCEPT ![w][t] = r]
  BY DEF Record, Stage
<1> HIDE DEF r
<1>2. task'[w][t] = r /\ OtherTasks(w, t)
  BY <1>a, PutTask DEF ProvInv, Tasks
<1>3. /\ Working(w, t) /\ task[w][t].todo[a] = "row"
      /\ rows' = rows \union {a}
      /\ t = "pass" /\ pending[w] # "off" => pending'[w] = "due"
      /\ t = "request" \/ pending[w] = "off" => pending'[w] = pending[w]
      /\ \A v \in Workers : v # w => pending'[v] = pending[v]
      /\ UNCHANGED <<disk, up, loaded, conv, inbox, lapses>>
  BY DEF ProvInv, TypeOK, Record, Stage, Marked
<1>o. Owed' /\ (t = "pass" => pending'[w] = "due")
  <2>1. CASE t = "request"
    BY <1>1, <1>2, <2>1 DEF Owed, Tasks
  <2>2. CASE t = "pass"
    BY <1>3, <2>2 DEF Owed, FleetInv, Announcing, Working
  <2> QED BY <2>1, <2>2 DEF Tasks
<1>4. Announcing'
  <2>1. CASE t = "request"
    BY <1>1, <1>2, <1>3, <2>1 DEF FleetInv, Announcing, OtherTasks, Tasks, Working
  <2>2. CASE t = "pass"
    <3>1. ~r.changed /\ task'[w]["pass"] = r /\ r.pc \in {"work", "trim"}
      BY <1>1, <1>2, <1>3, <2>2 DEF Working
    <3>2. \A v \in Workers, u \in Tasks : v # w \/ u # "pass" => task'[v][u] = task[v][u]
      BY <1>2, <2>2 DEF OtherTasks
    <3> QED BY <1>3, <1>o, <2>2, <3>1, <3>2 DEF FleetInv, Announcing, Tasks
  <2> QED BY <2>1, <2>2 DEF Tasks
<1>5. Loadable' /\ ReadRows'
  BY <1>1, <1>2, <1>3 DEF FleetInv, Loadable, ReadRows, OtherTasks, Working, Nothing
<1>6. DeadServesNothing'
  BY <1>1, <1>2, <1>3 DEF FleetInv, DeadServesNothing
<1>7. ASSUME lapses' = {} PROVE OnDisk' /\ FleetFollows'
  <2>1. lapses = {} /\ OnDisk /\ FleetFollows
    BY <1>1, <1>2, <1>3, <1>7 DEF FleetInv, With
  <2>2. OnDisk'
    BY <1>1, <1>2, <1>3, <2>1 DEF OnDisk, OtherTasks, Nothing, Working
  <2>6. \A v \in Workers : v # w =>
          /\ up'[v] = up[v] /\ loaded'[v] = loaded[v] /\ conv'[v] = conv[v]
          /\ inbox[v] => inbox'[v]
          /\ \A u \in Tasks : task'[v][u] = task[v][u]
    BY <1>1, <1>2, <1>3 DEF OtherTasks
  <2> QED BY <1>o, <2>1, <2>2, <2>6, FleetOn
<1> QED BY <1>4, <1>5, <1>6, <1>7 DEF FleetInv

\* Unload: the app's row is about to go.
LEMMA UnloadFollows ==
  ASSUME ProvInv, FleetInv, NEW w \in Workers, NEW t \in Tasks, NEW a \in Apps, Unload(w, t, a)
  PROVE  FleetInv'
<1> DEFINE r == [task[w][t] EXCEPT !.todo[a] = "forget"]
<1>1. /\ r.pc = task[w][t].pc
      /\ \A b \in Apps : b # a => r.todo[b] = task[w][t].todo[b]
      /\ r.todo[a] = "forget"
      /\ r.changed = task[w][t].changed
  <2>1. task[w][t] \in TaskRecords
    BY TaskTyped DEF ProvInv, Tasks
  <2> QED BY <2>1 DEF TaskRecords, Places, Stages
<1>a. task' = [task EXCEPT ![w][t] = r]
  BY DEF Unload, Stage
<1> HIDE DEF r
<1>2. task'[w][t] = r /\ OtherTasks(w, t)
  BY <1>a, PutTask DEF ProvInv, Tasks
<1>3. /\ Working(w, t) /\ task[w][t].todo[a] = "unload"
      /\ loaded'[w] = loaded[w] \ {a}
      /\ \A v \in Workers : v # w => loaded'[v] = loaded[v]
      /\ UNCHANGED <<rows, disk, up, pending, conv, inbox, lapses>>
  BY DEF ProvInv, TypeOK, Unload, Stage
<1>4. Announcing'
  BY <1>1, <1>2, <1>3 DEF FleetInv, Announcing, OtherTasks, Tasks, Inside, Working, FirstStep
<1>5. Loadable' /\ ReadRows'
  BY <1>1, <1>2, <1>3 DEF FleetInv, Loadable, ReadRows, OtherTasks, Working, Nothing
<1>6. DeadServesNothing'
  BY <1>1, <1>2, <1>3 DEF FleetInv, DeadServesNothing
<1>7. ASSUME lapses' = {} PROVE OnDisk' /\ FleetFollows'
  <2>1. lapses = {} /\ OnDisk /\ FleetFollows
    BY <1>1, <1>2, <1>3, <1>7 DEF FleetInv, With
  <2>2. OnDisk'
    BY <1>1, <1>2, <1>3, <2>1 DEF OnDisk, OtherTasks, Nothing, Working
  <2>3. Owed => Owed' \/ \A v \in Workers : up'[v] => inbox'[v]
    BY <1>1, <1>2, <1>3, <1>7 DEF Owed, OtherTasks, Tasks, FleetInv, Announcing, With
  <2>4. Owed' \/ rows' = rows
    BY <1>1, <1>2, <1>3 DEF Owed, FleetInv, Announcing, Working, Tasks
  <2>5. ~Owed /\ ~Owed' /\ (up[w] => Following(w)) /\ up'[w] => Following(w)'
    BY <1>1, <1>2, <1>3, <1>7, <2>1, <2>4 DEF Following, Settling, Working, OtherTasks, Tasks,
       Unplanned, Inside, Nothing, FirstStep, With
  <2>6. \A v \in Workers : v # w =>
          /\ up'[v] = up[v] /\ loaded'[v] = loaded[v] /\ conv'[v] = conv[v]
          /\ inbox[v] => inbox'[v]
          /\ \A u \in Tasks : task'[v][u] = task[v][u]
    BY <1>1, <1>2, <1>3 DEF OtherTasks
  <2> QED BY <2>1, <2>2, <2>3, <2>4, <2>5, <2>6, FleetOn
<1> QED BY <1>4, <1>5, <1>6, <1>7 DEF FleetInv

\* Forget: it goes, with its package, to be announced.
LEMMA ForgetFollows ==
  ASSUME ProvInv, FleetInv, NEW w \in Workers, NEW t \in Tasks, NEW a \in Apps, Forget(w, t, a)
  PROVE  FleetInv'
<1> DEFINE r == [task[w][t] EXCEPT !.todo[a] = "none", !.changed = (t = "request")]
<1>1. /\ r.pc = task[w][t].pc
      /\ \A b \in Apps : b # a => r.todo[b] = task[w][t].todo[b]
      /\ r.todo[a] = "none"
      /\ r.changed = (t = "request")
  <2>1. task[w][t] \in TaskRecords
    BY TaskTyped DEF ProvInv, Tasks
  <2> QED BY <2>1 DEF TaskRecords, Places, Stages
<1>a. task' = [task EXCEPT ![w][t] = r]
  BY DEF Forget, Stage
<1> HIDE DEF r
<1>2. task'[w][t] = r /\ OtherTasks(w, t)
  BY <1>a, PutTask DEF ProvInv, Tasks
<1>3. /\ Working(w, t) /\ task[w][t].todo[a] = "forget"
      /\ rows' = rows \ {a} /\ disk' = disk \ {a}
      /\ t = "pass" /\ pending[w] # "off" => pending'[w] = "due"
      /\ t = "request" \/ pending[w] = "off" => pending'[w] = pending[w]
      /\ \A v \in Workers : v # w => pending'[v] = pending[v]
      /\ UNCHANGED <<up, loaded, conv, inbox, lapses>>
  BY DEF ProvInv, TypeOK, Forget, Stage, Marked
<1>o. Owed' /\ (t = "pass" => pending'[w] = "due")
  <2>1. CASE t = "request"
    BY <1>1, <1>2, <2>1 DEF Owed, Tasks
  <2>2. CASE t = "pass"
    BY <1>3, <2>2 DEF Owed, FleetInv, Announcing, Working
  <2> QED BY <2>1, <2>2 DEF Tasks
<1>4. Announcing'
  <2>1. CASE t = "request"
    BY <1>1, <1>2, <1>3, <2>1 DEF FleetInv, Announcing, OtherTasks, Tasks, Working
  <2>2. CASE t = "pass"
    <3>1. ~r.changed /\ task'[w]["pass"] = r /\ r.pc \in {"work", "trim"}
      BY <1>1, <1>2, <1>3, <2>2 DEF Working
    <3>2. \A v \in Workers, u \in Tasks : v # w \/ u # "pass" => task'[v][u] = task[v][u]
      BY <1>2, <2>2 DEF OtherTasks
    <3> QED BY <1>3, <1>o, <2>2, <3>1, <3>2 DEF FleetInv, Announcing, Tasks
  <2> QED BY <2>1, <2>2 DEF Tasks
<1>5. Loadable' /\ ReadRows'
  BY <1>1, <1>2, <1>3 DEF FleetInv, Loadable, ReadRows, OtherTasks, Working, Nothing
<1>6. DeadServesNothing'
  BY <1>1, <1>2, <1>3 DEF FleetInv, DeadServesNothing
<1>7. ASSUME lapses' = {} PROVE OnDisk' /\ FleetFollows'
  <2>1. lapses = {} /\ OnDisk /\ FleetFollows
    BY <1>1, <1>2, <1>3, <1>7 DEF FleetInv, With
  <2>3. ASSUME NEW v \in Workers, NEW u \in Tasks, task[v][u].todo[a] = "row"
        PROVE  v = w /\ u = t
    <3>1. task[v][u].pc \in Locked /\ task[w][t].pc \in Locked
      BY <1>3, <2>3 DEF ProvInv, RowsLoaded, Working, Locked, Inside
    <3>a. LockInv /\ "rode" \notin lapses /\ "forced" \notin lapses
      BY <2>1 DEF ProvInv
    <3>b. task[v][u].outer /\ task[w][t].outer
      BY <3>1, <3>a DEF LockInv, Riding
    <3>2. file = {v} /\ file = {w}
      BY <3>a, <3>b DEF LockInv, FileOwner
    <3>3. v = w
      BY <3>2
    <3> QED BY <3>1, <3>3, <3>a, OneInside
  <2>2. OnDisk'
    BY <1>1, <1>2, <1>3, <2>1, <2>3 DEF OnDisk, OtherTasks
  <2>6. \A v \in Workers : v # w =>
          /\ up'[v] = up[v] /\ loaded'[v] = loaded[v] /\ conv'[v] = conv[v]
          /\ inbox[v] => inbox'[v]
          /\ \A u \in Tasks : task'[v][u] = task[v][u]
    BY <1>1, <1>2, <1>3 DEF OtherTasks
  <2> QED BY <1>o, <2>1, <2>2, <2>6, FleetOn
<1> QED BY <1>4, <1>5, <1>6, <1>7 DEF FleetInv

\* Ask: a request has committed nothing.
LEMMA AskFollows ==
  ASSUME ProvInv, FleetInv, NEW w \in Workers,
         NEW op \in {"install", "uninstall"}, NEW a \in Apps, Ask(w, op, a)
  PROVE  FleetInv'
<1> DEFINE r == [NoTask EXCEPT !.pc = "enter", !.op = op,
                             !.todo[a] = IF op = "install" THEN "load" ELSE "unload"]
<1>1. /\ r.pc = "enter" /\ ~r.changed
      /\ \A b \in Apps : r.todo[b] # "row"
  <2>1. task[w]["request"] \in TaskRecords
    BY TaskTyped DEF ProvInv, Tasks
  <2> QED BY <2>1 DEF TaskRecords, Places, NoTask, Nothing
<1>a. task' = [task EXCEPT ![w]["request"] = r]
  BY DEF Ask
<1> HIDE DEF r
<1>2. task'[w]["request"] = r /\ OtherTasks(w, "request")
  BY <1>a, PutTask DEF ProvInv, Tasks
<1>3. /\ task[w]["request"].pc = "idle"
      /\ UNCHANGED <<rows, disk, up, loaded, pending, conv, inbox, lapses>>
  BY DEF Ask
<1>4. Announcing'
  BY <1>1, <1>2, <1>3 DEF FleetInv, Announcing, OtherTasks, Tasks, Inside, Working, FirstStep
<1>5. Loadable' /\ ReadRows'
  BY <1>1, <1>2, <1>3 DEF FleetInv, Loadable, ReadRows, OtherTasks, Working, Nothing
<1>6. DeadServesNothing'
  BY <1>1, <1>2, <1>3 DEF FleetInv, DeadServesNothing
<1>7. ASSUME lapses' = {} PROVE OnDisk' /\ FleetFollows'
  <2>1. lapses = {} /\ OnDisk /\ FleetFollows
    BY <1>1, <1>2, <1>3, <1>7 DEF FleetInv, With
  <2>2. OnDisk'
    BY <1>1, <1>2, <1>3, <2>1 DEF OnDisk, OtherTasks, Nothing, Working
  <2>3. Owed => Owed' \/ \A v \in Workers : up'[v] => inbox'[v]
    BY <1>1, <1>2, <1>3, <1>7 DEF Owed, OtherTasks, Tasks, FleetInv, Announcing, With
  <2>4. Owed' \/ rows' = rows
    BY <1>1, <1>2, <1>3 DEF Owed, FleetInv, Announcing, Working, Tasks
  <2>5. ~Owed /\ ~Owed' /\ (up[w] => Following(w)) /\ up'[w] => Following(w)'
    BY <1>1, <1>2, <1>3, <1>7, <2>1, <2>4 DEF Following, Settling, Working, OtherTasks, Tasks,
       Unplanned, Inside, Nothing, FirstStep, With
  <2>6. \A v \in Workers : v # w =>
          /\ up'[v] = up[v] /\ loaded'[v] = loaded[v] /\ conv'[v] = conv[v]
          /\ inbox[v] => inbox'[v]
          /\ \A u \in Tasks : task'[v][u] = task[v][u]
    BY <1>1, <1>2, <1>3 DEF OtherTasks
  <2> QED BY <2>1, <2>2, <2>3, <2>4, <2>5, <2>6, FleetOn
<1> QED BY <1>4, <1>5, <1>6, <1>7 DEF FleetInv

\* BeginPass: a pass has nothing to tell yet.
LEMMA BeginPassFollows ==
  ASSUME ProvInv, FleetInv, NEW w \in Workers, BeginPass(w)
  PROVE  FleetInv'
<1> DEFINE r == [NoTask EXCEPT !.pc = "enter", !.op = "pass"]
<1>1. /\ r.pc = "enter" /\ ~r.changed /\ r.todo = Nothing
  <2>1. task[w]["pass"] \in TaskRecords
    BY TaskTyped DEF ProvInv, Tasks
  <2> QED BY <2>1 DEF TaskRecords, Places, NoTask
<1>a. task' = [task EXCEPT ![w]["pass"] = r]
  BY DEF BeginPass
<1> HIDE DEF r
<1>2. task'[w]["pass"] = r /\ OtherTasks(w, "pass")
  BY <1>a, PutTask DEF ProvInv, Tasks
<1>3. /\ task[w]["pass"].pc = "idle"
      /\ UNCHANGED <<rows, disk, up, loaded, pending, conv, inbox, lapses>>
  BY DEF BeginPass
<1>4. Announcing'
  BY <1>1, <1>2, <1>3 DEF FleetInv, Announcing, OtherTasks, Tasks, Inside, Working, FirstStep
<1>5. Loadable' /\ ReadRows'
  BY <1>1, <1>2, <1>3 DEF FleetInv, Loadable, ReadRows, OtherTasks, Working, Nothing
<1>6. DeadServesNothing'
  BY <1>1, <1>2, <1>3 DEF FleetInv, DeadServesNothing
<1>7. ASSUME lapses' = {} PROVE OnDisk' /\ FleetFollows'
  <2>1. lapses = {} /\ OnDisk /\ FleetFollows
    BY <1>1, <1>2, <1>3, <1>7 DEF FleetInv, With
  <2>2. OnDisk'
    BY <1>1, <1>2, <1>3, <2>1 DEF OnDisk, OtherTasks, Nothing, Working
  <2>3. Owed => Owed' \/ \A v \in Workers : up'[v] => inbox'[v]
    BY <1>1, <1>2, <1>3, <1>7 DEF Owed, OtherTasks, Tasks, FleetInv, Announcing, With
  <2>4. Owed' \/ rows' = rows
    BY <1>1, <1>2, <1>3 DEF Owed, FleetInv, Announcing, Working, Tasks
  <2>5. ~Owed /\ ~Owed' /\ (up[w] => Following(w)) /\ up'[w] => Following(w)'
    BY <1>1, <1>2, <1>3, <1>7, <2>1, <2>4 DEF Following, Settling, Working, OtherTasks, Tasks,
       Unplanned, Inside, Nothing, FirstStep, With
  <2>6. \A v \in Workers : v # w =>
          /\ up'[v] = up[v] /\ loaded'[v] = loaded[v] /\ conv'[v] = conv[v]
          /\ inbox[v] => inbox'[v]
          /\ \A u \in Tasks : task'[v][u] = task[v][u]
    BY <1>1, <1>2, <1>3 DEF OtherTasks
  <2> QED BY <2>1, <2>2, <2>3, <2>4, <2>5, <2>6, FleetOn
<1> QED BY <1>4, <1>5, <1>6, <1>7 DEF FleetInv

\* Plan: without a lapse the pass plans to load what the mirror lists and its worker lacks.
LEMMA PlanFollows ==
  ASSUME ProvInv, FleetInv, NEW w \in Workers, Plan(w)
  PROVE  FleetInv'
<1>w. PICK wanted \in SUBSET Apps :
        /\ lapses' = With("stray", ~(rows \ loaded[w] \subseteq wanted))
        /\ task' = [task EXCEPT ![w]["pass"].pc = "work", ![w]["pass"].wanted = wanted,
             ![w]["pass"].todo =
               [a \in Apps |-> IF a \in wanted \ loaded[w] THEN "load" ELSE "none"]]
  BY DEF Plan
<1> DEFINE r == [task[w]["pass"] EXCEPT !.pc = "work", !.wanted = wanted,
         !.todo = [a \in Apps |-> IF a \in wanted \ loaded[w] THEN "load" ELSE "none"]]
<1>1. /\ r.pc = "work" /\ r.changed = task[w]["pass"].changed
      /\ \A b \in Apps : r.todo[b] = IF b \in wanted \ loaded[w] THEN "load" ELSE "none"
  <2>1. task[w]["pass"] \in TaskRecords
    BY TaskTyped DEF ProvInv, Tasks
  <2> QED BY <2>1, <1>w DEF TaskRecords, Places
<1>a. task' = [task EXCEPT ![w]["pass"] = r]
  BY <1>w
<1> HIDE DEF r
<1>2. task'[w]["pass"] = r /\ OtherTasks(w, "pass")
  BY <1>a, PutTask DEF ProvInv, Tasks
<1>3. /\ task[w]["pass"].pc = "plan" /\ rows \subseteq Apps
      /\ lapses' = With("stray", ~(rows \ loaded[w] \subseteq wanted))
      /\ pending'[w] = "clean" /\ \A v \in Workers : v # w => pending'[v] = pending[v]
      /\ UNCHANGED <<rows, disk, up, loaded, conv, inbox>>
  BY <1>w DEF ProvInv, TypeOK, Plan
<1>4. Announcing'
  BY <1>1, <1>2, <1>3 DEF FleetInv, Announcing, OtherTasks, Tasks, Inside, Working, FirstStep
<1>5. Loadable' /\ ReadRows'
  BY <1>1, <1>2, <1>3 DEF FleetInv, Loadable, ReadRows, OtherTasks, Working, Nothing
<1>6. DeadServesNothing'
  BY <1>1, <1>2, <1>3 DEF FleetInv, DeadServesNothing
<1>7. ASSUME lapses' = {} PROVE OnDisk' /\ FleetFollows'
  <2>1. lapses = {} /\ OnDisk /\ FleetFollows
    BY <1>1, <1>2, <1>3, <1>7 DEF FleetInv, With
  <2>2. OnDisk'
    BY <1>1, <1>2, <1>3, <2>1 DEF OnDisk, OtherTasks, Nothing, Working
  <2>3. Owed => Owed' \/ \A v \in Workers : up'[v] => inbox'[v]
    BY <1>1, <1>2, <1>3, <1>7 DEF Owed, OtherTasks, Tasks, FleetInv, Announcing, With
  <2>4. Owed' \/ rows' = rows
    BY <1>1, <1>2, <1>3 DEF Owed, FleetInv, Announcing, Working, Tasks
  <2>5. ~Owed /\ ~Owed' /\ (up[w] => Following(w)) /\ up'[w] => Following(w)'
    BY <1>1, <1>2, <1>3, <1>7, <2>1, <2>4 DEF Following, Settling, Working, OtherTasks, Tasks,
       Unplanned, Inside, Nothing, FirstStep, With
  <2>6. \A v \in Workers : v # w =>
          /\ up'[v] = up[v] /\ loaded'[v] = loaded[v] /\ conv'[v] = conv[v]
          /\ inbox[v] => inbox'[v]
          /\ \A u \in Tasks : task'[v][u] = task[v][u]
    BY <1>1, <1>2, <1>3 DEF OtherTasks
  <2> QED BY <2>1, <2>2, <2>3, <2>4, <2>5, <2>6, FleetOn
<1> QED BY <1>4, <1>5, <1>6, <1>7 DEF FleetInv

\* Prune: what it is to unload is still listed.
LEMMA PruneFollows ==
  ASSUME ProvInv, FleetInv, NEW w \in Workers, Prune(w)
  PROVE  FleetInv'
<1> DEFINE r == [task[w]["pass"] EXCEPT !.pc = "trim",
         !.todo = [a \in Apps |->
           IF a \in loaded[w] \ task[w]["pass"].wanted THEN "unload" ELSE "none"]]
<1>1. /\ r.pc = "trim" /\ r.changed = task[w]["pass"].changed
      /\ \A b \in Apps : r.todo[b] \in {"unload", "none"}
  <2>1. task[w]["pass"] \in TaskRecords
    BY TaskTyped DEF ProvInv, Tasks
  <2> QED BY <2>1 DEF TaskRecords, Places
<1>a. task' = [task EXCEPT ![w]["pass"] = r]
  BY DEF Prune
<1> HIDE DEF r
<1>2. task'[w]["pass"] = r /\ OtherTasks(w, "pass")
  BY <1>a, PutTask DEF ProvInv, Tasks
<1>3. /\ task[w]["pass"].pc = "prune"
      /\ UNCHANGED <<rows, disk, up, loaded, pending, conv, inbox, lapses>>
  BY DEF ProvInv, TypeOK, Prune
<1>4. Announcing'
  BY <1>1, <1>2, <1>3 DEF FleetInv, Announcing, OtherTasks, Tasks, Inside, Working, FirstStep
<1>5. Loadable' /\ ReadRows'
  BY <1>1, <1>2, <1>3 DEF FleetInv, Loadable, ReadRows, OtherTasks, Working, Nothing
<1>6. DeadServesNothing'
  BY <1>1, <1>2, <1>3 DEF FleetInv, DeadServesNothing
<1>7. ASSUME lapses' = {} PROVE OnDisk' /\ FleetFollows'
  <2>1. lapses = {} /\ OnDisk /\ FleetFollows
    BY <1>1, <1>2, <1>3, <1>7 DEF FleetInv, With
  <2>2. OnDisk'
    BY <1>1, <1>2, <1>3, <2>1 DEF OnDisk, OtherTasks, Nothing, Working
  <2>3. Owed => Owed' \/ \A v \in Workers : up'[v] => inbox'[v]
    BY <1>1, <1>2, <1>3, <1>7 DEF Owed, OtherTasks, Tasks, FleetInv, Announcing, With
  <2>4. Owed' \/ rows' = rows
    BY <1>1, <1>2, <1>3 DEF Owed, FleetInv, Announcing, Working, Tasks
  <2>5. ~Owed /\ ~Owed' /\ (up[w] => Following(w)) /\ up'[w] => Following(w)'
    BY <1>1, <1>2, <1>3, <1>7, <2>1, <2>4 DEF Following, Settling, Working, OtherTasks, Tasks,
       Unplanned, Inside, Nothing, FirstStep, With
  <2>6. \A v \in Workers : v # w =>
          /\ up'[v] = up[v] /\ loaded'[v] = loaded[v] /\ conv'[v] = conv[v]
          /\ inbox[v] => inbox'[v]
          /\ \A u \in Tasks : task'[v][u] = task[v][u]
    BY <1>1, <1>2, <1>3 DEF OtherTasks
  <2> QED BY <2>1, <2>2, <2>3, <2>4, <2>5, <2>6, FleetOn
<1> QED BY <1>4, <1>5, <1>6, <1>7 DEF FleetInv

\* Flush: everybody is told, if there is anything to tell.
LEMMA FlushFollows ==
  ASSUME ProvInv, FleetInv, NEW w \in Workers, Flush(w)
  PROVE  FleetInv'
<1> DEFINE r == [task[w]["pass"] EXCEPT !.pc = "leave"]
<1>1. /\ r.pc = "leave"
      /\ r.todo = task[w]["pass"].todo /\ r.changed = task[w]["pass"].changed
  <2>1. task[w]["pass"] \in TaskRecords
    BY TaskTyped DEF ProvInv, Tasks
  <2> QED BY <2>1 DEF TaskRecords, Places
<1>a. task' = [task EXCEPT ![w]["pass"] = r]
  BY DEF Flush, Goto
<1> HIDE DEF r
<1>2. task'[w]["pass"] = r /\ OtherTasks(w, "pass")
  BY <1>a, PutTask DEF ProvInv, Tasks
<1>3. /\ task[w]["pass"].pc = "flush"
      /\ \A v \in Workers : inbox[v] => inbox'[v]
      /\ pending[w] = "due" => \A v \in Workers : up[v] => inbox'[v]
      /\ pending'[w] = "off" /\ \A v \in Workers : v # w => pending'[v] = pending[v]
      /\ UNCHANGED <<rows, disk, up, loaded, conv, lapses>>
  BY DEF ProvInv, TypeOK, Flush, Goto, Published
<1>4. Announcing'
  BY <1>1, <1>2, <1>3 DEF FleetInv, Announcing, OtherTasks, Tasks, Inside, Working, FirstStep
<1>5. Loadable' /\ ReadRows'
  BY <1>1, <1>2, <1>3 DEF FleetInv, Loadable, ReadRows, OtherTasks, Working, Nothing
<1>6. DeadServesNothing'
  BY <1>1, <1>2, <1>3 DEF FleetInv, DeadServesNothing
<1>7. ASSUME lapses' = {} PROVE OnDisk' /\ FleetFollows'
  <2>1. lapses = {} /\ OnDisk /\ FleetFollows
    BY <1>1, <1>2, <1>3, <1>7 DEF FleetInv, With
  <2>2. OnDisk'
    BY <1>1, <1>2, <1>3, <2>1 DEF OnDisk, OtherTasks, Nothing, Working
  <2>3. Owed => Owed' \/ \A v \in Workers : up'[v] => inbox'[v]
    BY <1>1, <1>2, <1>3, <1>7 DEF Owed, OtherTasks, Tasks, FleetInv, Announcing, With
  <2>4. Owed' \/ rows' = rows
    BY <1>1, <1>2, <1>3 DEF Owed, FleetInv, Announcing, Working, Tasks
  <2>5. ~Owed /\ ~Owed' /\ (up[w] => Following(w)) /\ up'[w] => Following(w)'
    BY <1>1, <1>2, <1>3, <1>7, <2>1, <2>4 DEF Following, Settling, Working, OtherTasks, Tasks,
       Unplanned, Inside, Nothing, FirstStep, With
  <2>6. \A v \in Workers : v # w =>
          /\ up'[v] = up[v] /\ loaded'[v] = loaded[v] /\ conv'[v] = conv[v]
          /\ inbox[v] => inbox'[v]
          /\ \A u \in Tasks : task'[v][u] = task[v][u]
    BY <1>1, <1>2, <1>3 DEF OtherTasks
  <2> QED BY <2>1, <2>2, <2>3, <2>4, <2>5, <2>6, FleetOn
<1> QED BY <1>4, <1>5, <1>6, <1>7 DEF FleetInv

\* CancelPass: without a lapse there was nothing to tell, and the worker serves what is listed.
LEMMA CancelPassFollows ==
  ASSUME ProvInv, FleetInv, NEW w \in Workers, CancelPass(w)
  PROVE  FleetInv'
<1> DEFINE r == NoTask
<1>1. /\ r.pc = "idle" /\ ~r.changed /\ r.todo = Nothing
  <2>1. task[w]["pass"] \in TaskRecords
    BY TaskTyped DEF ProvInv, Tasks
  <2> QED BY <2>1 DEF TaskRecords, Places, NoTask
<1>a. task' = [task EXCEPT ![w]["pass"] = r]
  BY DEF CancelPass
<1> HIDE DEF r
<1>2. task'[w]["pass"] = r /\ OtherTasks(w, "pass")
  BY <1>a, PutTask DEF ProvInv, Tasks
<1>3. /\ task[w]["pass"].pc \in Inside
      /\ lapses' = With("cut", pending[w] = "due" \/ loaded[w] # rows)
      /\ pending'[w] = "off" /\ \A v \in Workers : v # w => pending'[v] = pending[v]
      /\ UNCHANGED <<rows, disk, up, loaded, conv, inbox>>
  BY DEF ProvInv, TypeOK, CancelPass
<1>4. Announcing'
  BY <1>1, <1>2, <1>3 DEF FleetInv, Announcing, OtherTasks, Tasks, Inside, Working, FirstStep
<1>5. Loadable' /\ ReadRows'
  BY <1>1, <1>2, <1>3 DEF FleetInv, Loadable, ReadRows, OtherTasks, Working, Nothing
<1>6. DeadServesNothing'
  BY <1>1, <1>2, <1>3 DEF FleetInv, DeadServesNothing
<1>7. ASSUME lapses' = {} PROVE OnDisk' /\ FleetFollows'
  <2>1. lapses = {} /\ OnDisk /\ FleetFollows
    BY <1>1, <1>2, <1>3, <1>7 DEF FleetInv, With
  <2>2. OnDisk'
    BY <1>1, <1>2, <1>3, <2>1 DEF OnDisk, OtherTasks, Nothing, Working
  <2>3. Owed => Owed' \/ \A v \in Workers : up'[v] => inbox'[v]
    BY <1>1, <1>2, <1>3, <1>7 DEF Owed, OtherTasks, Tasks, FleetInv, Announcing, With
  <2>4. Owed' \/ rows' = rows
    BY <1>1, <1>2, <1>3 DEF Owed, FleetInv, Announcing, Working, Tasks
  <2>5. ~Owed /\ ~Owed' /\ (up[w] => Following(w)) /\ up'[w] => Following(w)'
    BY <1>1, <1>2, <1>3, <1>7, <2>1, <2>4 DEF Following, Settling, Working, OtherTasks, Tasks,
       Unplanned, Inside, Nothing, FirstStep, With
  <2>6. \A v \in Workers : v # w =>
          /\ up'[v] = up[v] /\ loaded'[v] = loaded[v] /\ conv'[v] = conv[v]
          /\ inbox[v] => inbox'[v]
          /\ \A u \in Tasks : task'[v][u] = task[v][u]
    BY <1>1, <1>2, <1>3 DEF OtherTasks
  <2> QED BY <2>1, <2>2, <2>3, <2>4, <2>5, <2>6, FleetOn
<1> QED BY <1>4, <1>5, <1>6, <1>7 DEF FleetInv

\* Hear: a convergence is ahead.
LEMMA HearFollows ==
  ASSUME ProvInv, FleetInv, NEW w \in Workers, Hear(w)
  PROVE  FleetInv'
<1>3. /\ conv[w].pc = "idle" /\ conv'[w].pc = "queue"
      /\ \A v \in Workers : v # w => inbox'[v] = inbox[v]
      /\ \A v \in Workers : v # w => conv'[v] = conv[v]
      /\ UNCHANGED <<rows, disk, up, loaded, pending, lapses>> /\ task' = task
  BY DEF ProvInv, TypeOK, Hear
<1>4. Announcing'
  BY <1>3 DEF FleetInv, Announcing, OtherTasks, Tasks, Inside, Working, FirstStep
<1>5. Loadable' /\ ReadRows'
  BY <1>3 DEF FleetInv, Loadable, ReadRows, OtherTasks, Working, Nothing
<1>6. DeadServesNothing'
  BY <1>3 DEF FleetInv, DeadServesNothing
<1>7. ASSUME lapses' = {} PROVE OnDisk' /\ FleetFollows'
  <2>1. lapses = {} /\ OnDisk /\ FleetFollows
    BY <1>3, <1>7 DEF FleetInv, With
  <2>2. OnDisk'
    BY <1>3, <2>1 DEF OnDisk, OtherTasks, Nothing, Working
  <2>3. Owed => Owed' \/ \A v \in Workers : up'[v] => inbox'[v]
    BY <1>3, <1>7 DEF Owed, OtherTasks, Tasks, FleetInv, Announcing, With
  <2>4. Owed' \/ rows' = rows
    BY <1>3 DEF Owed, FleetInv, Announcing, Working, Tasks
  <2>5. ~Owed /\ ~Owed' /\ (up[w] => Following(w)) /\ up'[w] => Following(w)'
    BY <1>3, <1>7, <2>1, <2>4 DEF Following, Settling, Working, OtherTasks, Tasks,
       Unplanned, Inside, Nothing, FirstStep, With
  <2>6. \A v \in Workers : v # w =>
          /\ up'[v] = up[v] /\ loaded'[v] = loaded[v] /\ conv'[v] = conv[v]
          /\ inbox[v] => inbox'[v]
          /\ \A u \in Tasks : task'[v][u] = task[v][u]
    BY <1>3 DEF OtherTasks
  <2> QED BY <2>1, <2>2, <2>3, <2>4, <2>5, <2>6, FleetOn
<1> QED BY <1>4, <1>5, <1>6, <1>7 DEF FleetInv

\* BeginConverge: it loads what is listed and missing.
LEMMA BeginConvergeFollows ==
  ASSUME ProvInv, FleetInv, NEW w \in Workers, BeginConverge(w)
  PROVE  FleetInv'
<1>3. /\ conv[w].pc = "queue" /\ conv'[w].pc = "run"
      /\ conv'[w].rows = rows /\ conv'[w].todo = rows \ loaded[w]
      /\ \A v \in Workers : v # w => conv'[v] = conv[v]
      /\ UNCHANGED <<rows, disk, up, loaded, pending, inbox, lapses>> /\ task' = task
  BY DEF ProvInv, TypeOK, BeginConverge
<1>4. Announcing'
  BY <1>3 DEF FleetInv, Announcing, OtherTasks, Tasks, Inside, Working, FirstStep
<1>5. Loadable' /\ ReadRows'
  BY <1>3 DEF FleetInv, Loadable, ReadRows, OtherTasks, Working, Nothing
<1>6. DeadServesNothing'
  BY <1>3 DEF FleetInv, DeadServesNothing
<1>7. ASSUME lapses' = {} PROVE OnDisk' /\ FleetFollows'
  <2>1. lapses = {} /\ OnDisk /\ FleetFollows
    BY <1>3, <1>7 DEF FleetInv, With
  <2>2. OnDisk'
    BY <1>3, <2>1 DEF OnDisk, OtherTasks, Nothing, Working
  <2>3. Owed => Owed' \/ \A v \in Workers : up'[v] => inbox'[v]
    BY <1>3, <1>7 DEF Owed, OtherTasks, Tasks, FleetInv, Announcing, With
  <2>4. Owed' \/ rows' = rows
    BY <1>3 DEF Owed, FleetInv, Announcing, Working, Tasks
  <2>5. ~Owed /\ ~Owed' /\ (up[w] => Following(w)) /\ up'[w] => Following(w)'
    BY <1>3, <1>7, <2>1, <2>4 DEF Following, Settling, Working, OtherTasks, Tasks,
       Unplanned, Inside, Nothing, FirstStep, With
  <2>6. \A v \in Workers : v # w =>
          /\ up'[v] = up[v] /\ loaded'[v] = loaded[v] /\ conv'[v] = conv[v]
          /\ inbox[v] => inbox'[v]
          /\ \A u \in Tasks : task'[v][u] = task[v][u]
    BY <1>3 DEF OtherTasks
  <2> QED BY <2>1, <2>2, <2>3, <2>4, <2>5, <2>6, FleetOn
<1> QED BY <1>4, <1>5, <1>6, <1>7 DEF FleetInv

\* Converged: nothing is missing and nothing too much.
LEMMA ConvergedFollows ==
  ASSUME ProvInv, FleetInv, NEW w \in Workers, Converged(w)
  PROVE  FleetInv'
<1>3. /\ conv[w].pc = "run" /\ loaded[w] \subseteq conv[w].rows /\ conv[w].todo = {}
      /\ conv'[w].pc = "idle"
      /\ \A v \in Workers : v # w => conv'[v] = conv[v]
      /\ UNCHANGED <<rows, disk, up, loaded, pending, inbox, lapses>> /\ task' = task
  BY DEF ProvInv, TypeOK, Converged, NoConverge
<1>4. Announcing'
  BY <1>3 DEF FleetInv, Announcing, OtherTasks, Tasks, Inside, Working, FirstStep
<1>5. Loadable' /\ ReadRows'
  BY <1>3 DEF FleetInv, Loadable, ReadRows, OtherTasks, Working, Nothing
<1>6. DeadServesNothing'
  BY <1>3 DEF FleetInv, DeadServesNothing
<1>7. ASSUME lapses' = {} PROVE OnDisk' /\ FleetFollows'
  <2>1. lapses = {} /\ OnDisk /\ FleetFollows
    BY <1>3, <1>7 DEF FleetInv, With
  <2>2. OnDisk'
    BY <1>3, <2>1 DEF OnDisk, OtherTasks, Nothing, Working
  <2>3. Owed => Owed' \/ \A v \in Workers : up'[v] => inbox'[v]
    BY <1>3, <1>7 DEF Owed, OtherTasks, Tasks, FleetInv, Announcing, With
  <2>4. Owed' \/ rows' = rows
    BY <1>3 DEF Owed, FleetInv, Announcing, Working, Tasks
  <2>5. ~Owed /\ ~Owed' /\ (up[w] => Following(w)) /\ up'[w] => Following(w)'
    BY <1>3, <1>7, <2>1, <2>4 DEF Following, Settling, Working, OtherTasks, Tasks,
       Unplanned, Inside, Nothing, FirstStep, With
  <2>6. \A v \in Workers : v # w =>
          /\ up'[v] = up[v] /\ loaded'[v] = loaded[v] /\ conv'[v] = conv[v]
          /\ inbox[v] => inbox'[v]
          /\ \A u \in Tasks : task'[v][u] = task[v][u]
    BY <1>3 DEF OtherTasks
  <2> QED BY <2>1, <2>2, <2>3, <2>4, <2>5, <2>6, FleetOn
<1> QED BY <1>4, <1>5, <1>6, <1>7 DEF FleetInv

\* Detach: the mirror does not list it.
LEMMA DetachFollows ==
  ASSUME ProvInv, FleetInv, NEW w \in Workers, NEW a \in Apps, Detach(w, a)
  PROVE  FleetInv'
<1>3. /\ conv[w].pc = "run" /\ a \in loaded[w] \ conv[w].rows
      /\ loaded'[w] = loaded[w] \ {a}
      /\ \A v \in Workers : v # w => loaded'[v] = loaded[v]
      /\ UNCHANGED <<rows, disk, up, pending, conv, inbox, lapses>> /\ task' = task
  BY DEF ProvInv, TypeOK, Detach
<1>4. Announcing'
  BY <1>3 DEF FleetInv, Announcing, OtherTasks, Tasks, Inside, Working, FirstStep
<1>5. Loadable' /\ ReadRows'
  BY <1>3 DEF FleetInv, Loadable, ReadRows, OtherTasks, Working, Nothing
<1>6. DeadServesNothing'
  BY <1>3 DEF FleetInv, DeadServesNothing
<1>7. ASSUME lapses' = {} PROVE OnDisk' /\ FleetFollows'
  <2>1. lapses = {} /\ OnDisk /\ FleetFollows
    BY <1>3, <1>7 DEF FleetInv, With
  <2>2. OnDisk'
    BY <1>3, <2>1 DEF OnDisk, OtherTasks, Nothing, Working
  <2>3. Owed => Owed' \/ \A v \in Workers : up'[v] => inbox'[v]
    BY <1>3, <1>7 DEF Owed, OtherTasks, Tasks, FleetInv, Announcing, With
  <2>4. Owed' \/ rows' = rows
    BY <1>3 DEF Owed, FleetInv, Announcing, Working, Tasks
  <2>5. ~Owed /\ ~Owed' /\ (up[w] => Following(w)) /\ up'[w] => Following(w)'
    BY <1>3, <1>7, <2>1, <2>4 DEF Following, Settling, Working, OtherTasks, Tasks,
       Unplanned, Inside, Nothing, FirstStep, With
  <2>6. \A v \in Workers : v # w =>
          /\ up'[v] = up[v] /\ loaded'[v] = loaded[v] /\ conv'[v] = conv[v]
          /\ inbox[v] => inbox'[v]
          /\ \A u \in Tasks : task'[v][u] = task[v][u]
    BY <1>3 DEF OtherTasks
  <2> QED BY <2>1, <2>2, <2>3, <2>4, <2>5, <2>6, FleetOn
<1> QED BY <1>4, <1>5, <1>6, <1>7 DEF FleetInv

\* Attach: the mirror lists it, and it is on disk.
LEMMA AttachFollows ==
  ASSUME ProvInv, FleetInv, NEW w \in Workers, NEW a \in Apps, Attach(w, a)
  PROVE  FleetInv'
<1>3. /\ conv[w].pc = "run" /\ a \in conv[w].todo
      /\ loaded'[w] = IF a \in disk THEN loaded[w] \union {a} ELSE loaded[w]
      /\ conv'[w].pc = "run" /\ conv'[w].rows = conv[w].rows
      /\ conv'[w].todo = conv[w].todo \ {a}
      /\ \A v \in Workers : v # w => loaded'[v] = loaded[v]
      /\ \A v \in Workers : v # w => conv'[v] = conv[v]
      /\ UNCHANGED <<rows, disk, up, pending, inbox, lapses>> /\ task' = task
  BY DEF ProvInv, TypeOK, Attach
<1>u. up[w]
  BY <1>3 DEF ProvInv, LockInv, DeadIsEmpty, NoConverge
<1>4. Announcing'
  BY <1>3 DEF FleetInv, Announcing, OtherTasks, Tasks, Inside, Working, FirstStep
<1>5. Loadable' /\ ReadRows'
  BY <1>3 DEF FleetInv, Loadable, ReadRows, OtherTasks, Working, Nothing
<1>6. DeadServesNothing'
  BY <1>3, <1>u DEF FleetInv, DeadServesNothing
<1>7. ASSUME lapses' = {} PROVE OnDisk' /\ FleetFollows'
  <2>1. lapses = {} /\ OnDisk /\ FleetFollows
    BY <1>3, <1>7 DEF FleetInv, With
  <2>2. OnDisk'
    BY <1>3, <2>1 DEF OnDisk, OtherTasks, Nothing, Working
  <2>3. Owed => Owed' \/ \A v \in Workers : up'[v] => inbox'[v]
    BY <1>3, <1>7 DEF Owed, OtherTasks, Tasks, FleetInv, Announcing, With
  <2>4. Owed' \/ rows' = rows
    BY <1>3 DEF Owed, FleetInv, Announcing, Working, Tasks
  <2>5. ~Owed /\ ~Owed' /\ (up[w] => Following(w)) /\ up'[w] => Following(w)'
    BY <1>3, <1>7, <2>1, <2>4 DEF Following, Settling, Working, OtherTasks, Tasks,
       Unplanned, Inside, Nothing, FirstStep, With, OnDisk, FleetInv, ReadRows
  <2>6. \A v \in Workers : v # w =>
          /\ up'[v] = up[v] /\ loaded'[v] = loaded[v] /\ conv'[v] = conv[v]
          /\ inbox[v] => inbox'[v]
          /\ \A u \in Tasks : task'[v][u] = task[v][u]
    BY <1>3 DEF OtherTasks
  <2> QED BY <2>1, <2>2, <2>3, <2>4, <2>5, <2>6, FleetOn
<1> QED BY <1>4, <1>5, <1>6, <1>7 DEF FleetInv

\* WorkerDies: without a lapse it had nothing to tell.
LEMMA WorkerDiesFollows ==
  ASSUME ProvInv, FleetInv, NEW w \in Workers, WorkerDies(w)
  PROVE  FleetInv'
<1>3. /\ up[w] /\ ~up'[w] /\ \A v \in Workers : v # w => up'[v] = up[v]
      /\ loaded'[w] = {}
      /\ lapses' = With("cut", pending[w] = "due" \/ \E t \in Tasks : task[w][t].changed)
      /\ pending'[w] = "off" /\ \A v \in Workers : v # w => pending'[v] = pending[v]
      /\ conv'[w].pc = "idle"
      /\ \A u \in Tasks :
           task'[w][u].pc = "idle" /\ ~task'[w][u].changed /\ task'[w][u].todo = Nothing
      /\ \A v \in Workers : v # w => task'[v] = task[v] /\ inbox'[v] = inbox[v]
      /\ \A v \in Workers : v # w => loaded'[v] = loaded[v]
      /\ \A v \in Workers : v # w => conv'[v] = conv[v]
      /\ UNCHANGED <<rows, disk>>
  BY DEF ProvInv, TypeOK, WorkerDies, NoTask, NoConverge
<1>4. Announcing'
  BY <1>3 DEF FleetInv, Announcing, OtherTasks, Tasks, Inside, Working, FirstStep
<1>5. Loadable' /\ ReadRows'
  BY <1>3 DEF FleetInv, Loadable, ReadRows, OtherTasks, Working, Nothing
<1>6. DeadServesNothing'
  BY <1>3 DEF FleetInv, DeadServesNothing
<1>7. ASSUME lapses' = {} PROVE OnDisk' /\ FleetFollows'
  <2>1. lapses = {} /\ OnDisk /\ FleetFollows
    BY <1>3, <1>7 DEF FleetInv, With
  <2>2. OnDisk'
    BY <1>3, <2>1 DEF OnDisk, OtherTasks, Nothing, Working
  <2>3. Owed => Owed' \/ \A v \in Workers : up'[v] => inbox'[v]
    BY <1>3, <1>7 DEF Owed, OtherTasks, Tasks, FleetInv, Announcing, With
  <2>4. Owed' \/ rows' = rows
    BY <1>3 DEF Owed, FleetInv, Announcing, Working, Tasks
  <2>5. ~Owed /\ ~Owed' /\ (up[w] => Following(w)) /\ up'[w] => Following(w)'
    BY <1>3, <1>7, <2>1, <2>4 DEF Following, Settling, Working, OtherTasks, Tasks,
       Unplanned, Inside, Nothing, FirstStep, With
  <2>6. \A v \in Workers : v # w =>
          /\ up'[v] = up[v] /\ loaded'[v] = loaded[v] /\ conv'[v] = conv[v]
          /\ inbox[v] => inbox'[v]
          /\ \A u \in Tasks : task'[v][u] = task[v][u]
    BY <1>3 DEF OtherTasks
  <2> QED BY <2>1, <2>2, <2>3, <2>4, <2>5, <2>6, FleetOn
<1> QED BY <1>4, <1>5, <1>6, <1>7 DEF FleetInv

\* ReturnAttaching: a convergence is ahead of it.
LEMMA ReturnAttachingFollows ==
  ASSUME ProvInv, FleetInv, NEW w \in Workers, ReturnAttaching(w)
  PROVE  FleetInv'
<1>3. /\ up'[w] /\ \A v \in Workers : v # w => up'[v] = up[v]
      /\ conv'[w].pc = "queue"
      /\ \A v \in Workers : v # w => conv'[v] = conv[v]
      /\ UNCHANGED <<rows, disk, loaded, pending, inbox, lapses>> /\ task' = task
  BY DEF ProvInv, TypeOK, ReturnAttaching
<1>4. Announcing'
  BY <1>3 DEF FleetInv, Announcing, OtherTasks, Tasks, Inside, Working, FirstStep
<1>5. Loadable' /\ ReadRows'
  BY <1>3 DEF FleetInv, Loadable, ReadRows, OtherTasks, Working, Nothing
<1>6. DeadServesNothing'
  BY <1>3 DEF FleetInv, DeadServesNothing
<1>7. ASSUME lapses' = {} PROVE OnDisk' /\ FleetFollows'
  <2>1. lapses = {} /\ OnDisk /\ FleetFollows
    BY <1>3, <1>7 DEF FleetInv, With
  <2>2. OnDisk'
    BY <1>3, <2>1 DEF OnDisk, OtherTasks, Nothing, Working
  <2>3. Owed => Owed' \/ \A v \in Workers : up'[v] => inbox'[v]
    BY <1>3, <1>7 DEF Owed, OtherTasks, Tasks, FleetInv, Announcing, With
  <2>4. Owed' \/ rows' = rows
    BY <1>3 DEF Owed, FleetInv, Announcing, Working, Tasks
  <2>5. ~Owed /\ ~Owed' /\ (up[w] => Following(w)) /\ up'[w] => Following(w)'
    BY <1>3, <1>7, <2>1, <2>4 DEF Following, Settling, Working, OtherTasks, Tasks,
       Unplanned, Inside, Nothing, FirstStep, With
  <2>6. \A v \in Workers : v # w =>
          /\ up'[v] = up[v] /\ loaded'[v] = loaded[v] /\ conv'[v] = conv[v]
          /\ inbox[v] => inbox'[v]
          /\ \A u \in Tasks : task'[v][u] = task[v][u]
    BY <1>3 DEF OtherTasks
  <2> QED BY <2>1, <2>2, <2>3, <2>4, <2>5, <2>6, FleetOn
<1> QED BY <1>4, <1>5, <1>6, <1>7 DEF FleetInv

\* ReturnProvisioning: a pass is, which loads all.
LEMMA ReturnProvisioningFollows ==
  ASSUME ProvInv, FleetInv, NEW w \in Workers, ReturnProvisioning(w)
  PROVE  FleetInv'
<1> DEFINE r == [NoTask EXCEPT !.pc = "enter", !.op = "pass"]
<1>1. /\ r.pc = "enter" /\ ~r.changed /\ r.todo = Nothing
  <2>1. task[w]["pass"] \in TaskRecords
    BY TaskTyped DEF ProvInv, Tasks
  <2> QED BY <2>1 DEF TaskRecords, Places, NoTask
<1>a. task' = [task EXCEPT ![w]["pass"] = r]
  BY DEF ReturnProvisioning
<1> HIDE DEF r
<1>2. task'[w]["pass"] = r /\ OtherTasks(w, "pass")
  BY <1>a, PutTask DEF ProvInv, Tasks
<1>3. /\ ~up[w] /\ up'[w] /\ \A v \in Workers : v # w => up'[v] = up[v]
      /\ UNCHANGED <<rows, disk, loaded, pending, conv, inbox, lapses>>
  BY DEF ProvInv, TypeOK, ReturnProvisioning
<1>4. Announcing'
  BY <1>1, <1>2, <1>3 DEF FleetInv, Announcing, OtherTasks, Tasks, Inside, Working,
     FirstStep, ProvInv, LockInv, DeadIsEmpty, NoTask
<1>5. Loadable' /\ ReadRows'
  BY <1>1, <1>2, <1>3 DEF FleetInv, Loadable, ReadRows, OtherTasks, Working, Nothing
<1>6. DeadServesNothing'
  BY <1>1, <1>2, <1>3 DEF FleetInv, DeadServesNothing
<1>7. ASSUME lapses' = {} PROVE OnDisk' /\ FleetFollows'
  <2>1. lapses = {} /\ OnDisk /\ FleetFollows
    BY <1>1, <1>2, <1>3, <1>7 DEF FleetInv, With
  <2>2. OnDisk'
    BY <1>1, <1>2, <1>3, <2>1 DEF OnDisk, OtherTasks, Nothing, Working
  <2>3. Owed => Owed' \/ \A v \in Workers : up'[v] => inbox'[v]
    BY <1>1, <1>2, <1>3, <1>7 DEF Owed, OtherTasks, Tasks, FleetInv, Announcing, With
  <2>4. Owed' \/ rows' = rows
    BY <1>1, <1>2, <1>3 DEF Owed, FleetInv, Announcing, Working, Tasks
  <2>5. ~Owed /\ ~Owed' /\ (up[w] => Following(w)) /\ up'[w] => Following(w)'
    BY <1>1, <1>2, <1>3, <1>7, <2>1, <2>4 DEF Following, Settling, Working, OtherTasks, Tasks,
       Unplanned, Inside, Nothing, FirstStep, With, FleetInv, DeadServesNothing,
       ProvInv, LockInv, DeadIsEmpty, NoConverge
  <2>6. \A v \in Workers : v # w =>
          /\ up'[v] = up[v] /\ loaded'[v] = loaded[v] /\ conv'[v] = conv[v]
          /\ inbox[v] => inbox'[v]
          /\ \A u \in Tasks : task'[v][u] = task[v][u]
    BY <1>1, <1>2, <1>3 DEF OtherTasks
  <2> QED BY <2>1, <2>2, <2>3, <2>4, <2>5, <2>6, FleetOn
<1> QED BY <1>4, <1>5, <1>6, <1>7 DEF FleetInv

-----------------------------------------------------------------------------
(* All of them *)

\* At the start nothing is installed, served, owed or under way.
LEMMA InitFleet == Init => FleetInv
<1> SUFFICES ASSUME Init PROVE FleetInv
  OBVIOUS
<1>1. /\ rows = {} /\ disk = {}
      /\ \A w \in Workers : loaded[w] = {} /\ pending[w] = "off" /\ conv[w] = NoConverge
      /\ \A w \in Workers, t \in Tasks : task[w][t] = NoTask
  BY DEF Init
<1>2. /\ NoTask.pc = "idle" /\ ~NoTask.changed /\ NoConverge.pc = "idle"
      /\ \A a \in Apps : NoTask.todo[a] = "none"
  BY DEF NoTask, NoConverge, Nothing
<1>3. Announcing
  BY <1>1, <1>2 DEF Announcing, Tasks
<1>4. Loadable /\ ReadRows /\ DeadServesNothing /\ OnDisk
  BY <1>1, <1>2 DEF Loadable, ReadRows, DeadServesNothing, OnDisk
<1>5. FleetFollows
  BY <1>1, <1>2 DEF FleetFollows, Following, Settling
<1> QED BY <1>3, <1>4, <1>5 DEF FleetInv

\* Every step keeps FleetInv, given that locks and types are as ProvInv has them.
LEMMA FleetNext ==
  ASSUME ProvInv, FleetInv, [Next]_vars
  PROVE  FleetInv'
<1>1. CASE UNCHANGED vars
  BY <1>1 DEF vars, FleetInv, Announcing, Loadable, ReadRows, DeadServesNothing, OnDisk,
     FleetFollows, Owed, Following, Settling, Working
<1>2. ASSUME NEW w \in Workers, NEW op \in {"install", "uninstall"}, NEW a \in Apps,
             Ask(w, op, a)
      PROVE  FleetInv'
  BY <1>2, AskFollows
<1>3. ASSUME NEW w \in Workers, NEW t \in Tasks, TaskStep(w, t)
      PROVE  FleetInv'
  BY <1>3, EnterFollows, TakeLocalFollows, TakeFileFollows, GiveUpWaitingFollows, LeaveFollows,
     AnnounceFollows, WorkDoneFollows DEF TaskStep
<1>4. ASSUME NEW w \in Workers, NEW t \in Tasks, NEW a \in Apps, AppStep(w, t, a)
      PROVE  FleetInv'
  BY <1>4, LoadFollows, LoadRefusedFollows, RecordFollows, UnloadFollows, ForgetFollows
     DEF AppStep
<1>5. ASSUME NEW w \in Workers, NEW a \in Apps, Detach(w, a) \/ Attach(w, a)
      PROVE  FleetInv'
  BY <1>5, DetachFollows, AttachFollows
<1>6. ASSUME NEW w \in Workers,
             BeginPass(w) \/ Plan(w) \/ Prune(w) \/ Flush(w) \/ CancelPass(w)
      PROVE  FleetInv'
  BY <1>6, BeginPassFollows, PlanFollows, PruneFollows, FlushFollows, CancelPassFollows
<1>7. ASSUME NEW w \in Workers,
             Hear(w) \/ BeginConverge(w) \/ Converged(w)
               \/ WorkerDies(w) \/ ReturnAttaching(w) \/ ReturnProvisioning(w)
      PROVE  FleetInv'
  BY <1>7, HearFollows, BeginConvergeFollows, ConvergedFollows, WorkerDiesFollows,
     ReturnAttachingFollows, ReturnProvisioningFollows
<1> QED BY <1>1, <1>2, <1>3, <1>4, <1>5, <1>6, <1>7 DEF Next

\* When nothing is in flight nobody owes an announcement and no worker has a
\* convergence ahead of it, so each one has settled every app.
LEMMA QuietFleet ==
  ASSUME ProvInv, FleetInv
  PROVE  ConvergedWhenQuiet
<1> SUFFICES ASSUME Quiet, lapses = {}, NEW w \in Workers, up[w]
             PROVE  loaded[w] = rows
  BY DEF ConvergedWhenQuiet, FleetConverged
<1>1. ~Owed
  BY DEF FleetInv, Announcing, Owed, Quiet, Tasks
<1>2. Following(w)
  BY <1>1 DEF FleetInv, FleetFollows
<1>3. \A a \in Apps : a \in loaded[w] <=> a \in rows
  BY <1>2 DEF Following, Settling, Quiet, Working, Unplanned, Tasks
<1>4. rows \subseteq Apps /\ loaded[w] \subseteq Apps
  BY DEF ProvInv, TypeOK
<1> QED BY <1>3, <1>4

\* Whatever is written to the mirror, somebody owes its announcement, or every live
\* worker has a convergence ahead of it, or it is on its way to serving what is listed.
THEOREM FleetFollowsMirror ==
  Spec => []FleetInv
<1>1. Init => FleetInv
  BY InitFleet
<1>2. ProvInv /\ FleetInv /\ [Next]_vars => FleetInv'
  BY FleetNext
<1>3. Spec => []ProvInv
  BY ProvisioningInvariant
<1> QED BY <1>1, <1>2, <1>3, PTL DEF Spec

\* _converge_apps, _flush_broadcast and the routes' announcements: once all is quiet and
\* nothing was cut short, every live worker serves exactly the apps the mirror lists.
THEOREM ConvergenceHolds ==
  Spec => []ConvergedWhenQuiet
<1>1. ProvInv /\ FleetInv => ConvergedWhenQuiet
  BY QuietFleet
<1>2. (Spec => []ProvInv) /\ (Spec => []FleetInv)
  BY ProvisioningInvariant, FleetFollowsMirror
<1> QED BY <1>1, <1>2, PTL
=============================================================================

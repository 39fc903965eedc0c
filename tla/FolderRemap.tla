---------------------------- MODULE FolderRemap ----------------------------
(* Mapped folders (api/folders.py and AppRuntime.remap_folders): a change to  *)
(* the list of mapped folders, and the recreation of the container that       *)
(* mounts them.  A burst of changes is coalesced inside each worker, and the  *)
(* recreations of different workers are serialized by a file lock.            *)
(*                                                                            *)
(* One container app declares $AW_WORKSPACE_FOLDERS.  Request r maps the      *)
(* folder r, or removes the folder of another request.                        *)
EXTENDS FiniteSets

CONSTANTS Workers, Requests, None

Down == {None}      \* no container: removed and not created again

VARIABLES
  folders,    \* the list in the settings table
  at, step,   \* at[r]: the worker that serves r; step[r]: how far it is
  listed,     \* listed[r]: the list it read before changing it
  window,     \* window[w]: what the worker's coalescer is doing
  flock,      \* the worker that holds folders-remap.lock
  volumes,    \* volumes[w]: the binds its remap has given to the registration
  container,  \* the folders the container was created with, or Down
  remapped,   \* remapped[w]: this remap has recreated the app
  stray,      \* stray[w]: the start a cancelled remap has left to its thread
  answer,     \* answer[r]: whether it was told that the app was recreated
  late,       \* history: joined a window whose remap had begun
  gone,       \* history: folders that were taken off the list
  loose       \* history: a recreation went on without the file lock
folderVars == <<folders, at, step, listed, window, flock, volumes, container, remapped,
                stray, answer, late, gone, loose>>

request == <<folders, at, step, listed, answer, late, gone>>
engine == <<volumes, container, remapped, stray, loose>>

\* "quiet" is the window, in which requests are collected; the others are the remap.
Phases == {"none", "quiet", "locking", "listing", "discarding", "creating", "releasing"}
Waiting(w) == {r \in Requests : at[r] = w /\ step[r] = "waiting"}

Init ==
  /\ folders = {} /\ at = [r \in Requests |-> None] /\ step = [r \in Requests |-> "new"]
  /\ listed = [r \in Requests |-> {}] /\ window = [w \in Workers |-> "none"]
  /\ flock = None /\ volumes = [w \in Workers |-> {}] /\ container = {}
  /\ remapped = [w \in Workers |-> FALSE] /\ answer = [r \in Requests |-> None]
  /\ late = {} /\ gone = {} /\ stray = [w \in Workers |-> "none"] /\ loose = FALSE

-----------------------------------------------------------------------------
(* add_folder and remove_folder: the list is read, and written back, in two   *)
(* transactions.                                                              *)

ListFolders(r, w) ==
  /\ step[r] = "new"
  /\ at' = [at EXCEPT ![r] = w] /\ step' = [step EXCEPT ![r] = "listed"]
  /\ listed' = [listed EXCEPT ![r] = folders]
  /\ UNCHANGED <<folders, answer, late, gone, window, flock, engine>>

Save(r, list) ==
  /\ folders' = list
  /\ gone' = gone \cup (folders \ list)
  /\ step' = [step EXCEPT ![r] = "saved"] /\ listed' = [listed EXCEPT ![r] = {}]
  /\ UNCHANGED <<at, answer, late, window, flock, engine>>

AddFolder(r) == step[r] = "listed" /\ Save(r, listed[r] \cup {r})

RemoveFolder(r, f) == step[r] = "listed" /\ f \in listed[r] /\ Save(r, listed[r] \ {f})

\* No folder of that name: 404, and no remap.
RemoveUnknown(r) ==
  /\ step[r] = "listed"
  /\ step' = [step EXCEPT ![r] = "done"] /\ listed' = [listed EXCEPT ![r] = {}]
  /\ UNCHANGED <<folders, at, answer, late, gone, window, flock, engine>>

-----------------------------------------------------------------------------
(* _RemapCoalescer.request: the first request opens the window; whoever comes *)
(* while its future is not done joins it.                                     *)

Request(r) ==
  /\ step[r] = "saved"
  /\ step' = [step EXCEPT ![r] = "waiting"]
  /\ window' = [window EXCEPT ![at[r]] = IF @ = "none" THEN "quiet" ELSE @]
  /\ late' = IF window[at[r]] \in {"none", "quiet"} THEN late ELSE late \cup {r}
  /\ UNCHANGED <<folders, at, listed, answer, gone, flock, engine>>

Phase(w, from, to) == window[w] = from /\ window' = [window EXCEPT ![w] = to]

\* The quiet time, or the ceiling on it, has passed.
WindowCloses(w) ==
  /\ Phase(w, "quiet", "locking") /\ UNCHANGED <<request, flock, engine>>

AnswerAll(w, rs, told) ==
  /\ step' = [r \in Requests |-> IF r \in rs THEN "done" ELSE step[r]]
  /\ answer' = [r \in Requests |-> IF r \in rs THEN told ELSE answer[r]]
  /\ UNCHANGED <<folders, at, listed, late, gone>>

\* The exception kept from those who joined.
LockFailsForOne(w) ==
  /\ Phase(w, "locking", "none")
  /\ \E r \in Waiting(w) : AnswerAll(w, {r}, FALSE)
  /\ UNCHANGED <<flock, engine>>

\* The lock file cannot be opened: the exception reaches every caller.
LockFails(w) ==
  /\ Phase(w, "locking", "none") /\ AnswerAll(w, Waiting(w), FALSE)
  /\ UNCHANGED <<flock, engine>>

\* The coalescer of each process on its own.
TakeNoLock(w) ==
  /\ Phase(w, "locking", "listing") /\ flock' = w
  /\ UNCHANGED <<request, engine>>

TakeLock(w) ==
  /\ Phase(w, "locking", "listing") /\ flock = None /\ flock' = w
  /\ UNCHANGED <<request, engine>>

-----------------------------------------------------------------------------
(* remap_folders: _container_volumes and set_volumes, then the start, which   *)
(* removes the container of that name and creates it again.                   *)

SetVolumes(w) ==
  /\ Phase(w, "listing", "discarding")
  /\ volumes' = [volumes EXCEPT ![w] = folders]
  /\ UNCHANGED <<request, flock, container, remapped, stray, loose>>

Discard(w) ==
  /\ Phase(w, "discarding", "creating") /\ container' = Down
  /\ UNCHANGED <<request, flock, volumes, remapped, stray, loose>>

\* No start of w has still to read the binds: whoever comes next sets them anew.
ReadOut(w) == volumes' = [volumes EXCEPT ![w] = IF stray[w] = "none" THEN {} ELSE @]

\* create() refuses a name that is taken.
Create(w) ==
  /\ Phase(w, "creating", "releasing") /\ container = Down
  /\ container' = volumes[w] /\ remapped' = [remapped EXCEPT ![w] = TRUE]
  /\ ReadOut(w)
  /\ UNCHANGED <<request, flock, stray, loose>>

\* Any of it raises: logged, and the app left as it is.
RemapFails(w) ==
  /\ \E from \in {"discarding", "creating"} : Phase(w, from, "releasing")
  /\ ReadOut(w)
  /\ UNCHANGED <<request, flock, container, remapped, stray, loose>>

\* The lock is released and the future resolved.
Finish(w) ==
  /\ Phase(w, "releasing", "none")
  /\ flock' = IF flock = w THEN None ELSE flock
  /\ AnswerAll(w, Waiting(w), remapped[w])
  /\ remapped' = [remapped EXCEPT ![w] = FALSE]
  /\ UNCHANGED <<volumes, container, stray, loose>>

-----------------------------------------------------------------------------
(* Cancellation                                                               *)

\* A caller that has joined is cancelled while it waits: the shield keeps the future.
CallerCancelled(r) ==
  /\ step[r] = "waiting" /\ Waiting(at[r]) # {r}
  /\ step' = [step EXCEPT ![r] = "done"]
  /\ UNCHANGED <<folders, at, listed, answer, late, gone, window, flock, engine>>

\* The caller that leads is cancelled, wherever it awaits (which one leads is not told
\* apart).  That is no Exception: the lock is released and the future dropped, and who
\* has joined waits on for a future nobody will resolve.  A start is left to its thread.
\* Bound: one such thread a worker.
LeaderCancelled(w, r) ==
  /\ window[w] # "none" /\ r \in Waiting(w) \ late
  /\ LET starting == window[w] \in {"discarding", "creating"}
     IN  /\ starting => stray[w] = "none"
         /\ stray' = [stray EXCEPT ![w] = IF starting THEN window[w] ELSE @]
         /\ loose' = (loose \/ starting)
  /\ window' = [window EXCEPT ![w] = "none"]
  /\ flock' = IF flock = w THEN None ELSE flock
  /\ step' = [q \in Requests |-> CASE q = r -> "done"
                                   [] q \in Waiting(w) \ {r} -> "adrift"
                                   [] OTHER -> step[q]]
  /\ remapped' = [remapped EXCEPT ![w] = FALSE]
  /\ UNCHANGED <<folders, at, listed, answer, late, gone, volumes, container>>

\* The thread does what the remap would have done, with the binds it finds.
StrayDiscards(w) ==
  /\ stray[w] = "discarding" /\ stray' = [stray EXCEPT ![w] = "creating"]
  /\ container' = Down
  /\ UNCHANGED <<request, window, flock, volumes, remapped, loose>>

StrayEnds(w) ==
  /\ stray' = [stray EXCEPT ![w] = "none"]
  /\ volumes' = [volumes EXCEPT ![w] = IF window[w] \in {"discarding", "creating"}
                                       THEN @ ELSE {}]
  /\ UNCHANGED <<request, window, flock, remapped, loose>>

StrayCreates(w) ==
  /\ stray[w] = "creating" /\ container = Down /\ container' = volumes[w]
  /\ StrayEnds(w)

StrayFails(w) == stray[w] # "none" /\ container' = container /\ StrayEnds(w)

\* A worker's process ends: its requests, its threads and its hold on the lock go with it.
WorkerRestarts(w) ==
  /\ window' = [window EXCEPT ![w] = "none"]
  /\ flock' = IF flock = w THEN None ELSE flock
  /\ volumes' = [volumes EXCEPT ![w] = {}] /\ remapped' = [remapped EXCEPT ![w] = FALSE]
  /\ step' = [r \in Requests |-> IF at[r] = w THEN "done" ELSE step[r]]
  /\ listed' = [r \in Requests |-> IF at[r] = w THEN {} ELSE listed[r]]
  /\ stray' = [stray EXCEPT ![w] = "none"]
  /\ UNCHANGED <<folders, at, answer, late, gone, container, loose>>

-----------------------------------------------------------------------------
Next ==
  \/ \E r \in Requests :
       \/ \E w \in Workers : ListFolders(r, w)
       \/ AddFolder(r) \/ \E f \in Requests : RemoveFolder(r, f)
       \/ RemoveUnknown(r) \/ Request(r) \/ CallerCancelled(r)
  \/ \E w \in Workers :
       \/ WindowCloses(w) \/ LockFails(w) \/ TakeLock(w) \/ SetVolumes(w) \/ Discard(w)
       \/ Create(w) \/ RemapFails(w) \/ Finish(w) \/ WorkerRestarts(w)
       \/ \E r \in Requests : LeaderCancelled(w, r)
       \/ StrayDiscards(w) \/ StrayCreates(w) \/ StrayFails(w)

\* The timer fires, and a task that can take its next step takes it.
Fairness ==
  \A w \in Workers :
    /\ WF_folderVars(WindowCloses(w)) /\ SF_folderVars(TakeLock(w) \/ LockFails(w))
    /\ WF_folderVars(SetVolumes(w)) /\ WF_folderVars(Discard(w))
    /\ WF_folderVars(Create(w) \/ RemapFails(w)) /\ WF_folderVars(Finish(w))

Spec == Init /\ [][Next]_folderVars /\ Fairness

-----------------------------------------------------------------------------
\* The shape of the state.
TypeOK ==
  /\ folders \subseteq Requests /\ at \in [Requests -> Workers \cup {None}]
  /\ step \in [Requests -> {"new", "listed", "saved", "waiting", "adrift", "done"}]
  /\ listed \in [Requests -> SUBSET Requests] /\ window \in [Workers -> Phases]
  /\ flock \in Workers \cup {None} /\ volumes \in [Workers -> SUBSET Requests]
  /\ container \in (SUBSET Requests) \cup {Down} /\ remapped \in [Workers -> BOOLEAN]
  /\ answer \in [Requests -> BOOLEAN \cup {None}]
  /\ late \subseteq Requests /\ gone \subseteq Requests
  /\ stray \in [Workers -> {"none", "discarding", "creating"}] /\ loose \in BOOLEAN

Told(r) == answer[r] = TRUE /\ r \in folders \ gone
Mounted(r) == container # Down => r \in container

\* A folder whose request was told of a remount, before whose remap it had been
\* saved, is in the container for as long as it is mapped: no recreation by a
\* remap of another worker, begun earlier with an older list, takes it away again.
\* Excepted is a remap that was cancelled in its start: the thread goes on without the
\* lock, and recreates the container beside, or after, another remap.
RemountedStays == ~loose => \A r \in Requests \ late : Told(r) => Mounted(r)

\* "The route can still honestly report which apps were remounted": also a request
\* that joined is only told of a remount that mounted its folder.
HonestAnswer == \A r \in Requests : Told(r) => Mounted(r)

\* Every request that asked for a remap is answered, whoever leads its window and
\* however the remap ends, unless the one that leads is cancelled: then those who have
\* joined are adrift, and no step of theirs is left but the end of their worker.
EveryCallerAnswered ==
  \A r \in Requests : step[r] = "waiting" ~> step[r] \in {"done", "adrift"}
=============================================================================

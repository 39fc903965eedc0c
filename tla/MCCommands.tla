----------------------------- MODULE MCCommands -----------------------------
(***************************************************************************)
(* What an operator asks for reaches the worker that has to do it, and the *)
(* asking ends: a service command through its relay, the record of an      *)
(* install, a change of the folders the containers see. A behaviour is     *)
(* about one of them, chosen at the start; the others stay at their first  *)
(* state, in which nothing that is fair can happen.                        *)
(***************************************************************************)
EXTENDS Naturals, Sequences, FiniteSets, TLC

CONSTANTS Workers, Requests, OneRequest, None

\* None names nobody and is no answer; "local" is a way to carry a command out.
ASSUME CommandsAssumption ==
    /\ None \notin Workers \cup Requests \cup OneRequest \cup BOOLEAN
    /\ "local" \notin Workers

VARIABLES
    which,   \* the component a behaviour is about
    relayLease, relayRuns, relayArmed, relayUp, relayInbox, relayLinked,
    relayHandling, relayJob, relayReq, relayHanded, relaySpent,
    jobsJob, jobsMirror, jobsSending, jobsLoaded, jobsWanted, jobsReq,
    jobsPushes, jobsLinked, jobsInbox, jobsPanel, jobsDue, jobsFaults,
    foldersFolders, foldersAt, foldersStep, foldersListed, foldersWindow,
    foldersFlock, foldersVolumes, foldersContainer, foldersRemapped,
    foldersStray, foldersAnswer, foldersLate, foldersGone, foldersLoose

relayVars == <<relayLease, relayRuns, relayArmed, relayUp, relayInbox,
               relayLinked, relayHandling, relayJob, relayReq, relayHanded,
               relaySpent>>
jobsVars == <<jobsJob, jobsMirror, jobsSending, jobsLoaded, jobsWanted,
              jobsReq, jobsPushes, jobsLinked, jobsInbox, jobsPanel, jobsDue,
              jobsFaults>>
foldersVars == <<foldersFolders, foldersAt, foldersStep, foldersListed,
                 foldersWindow, foldersFlock, foldersVolumes,
                 foldersContainer, foldersRemapped, foldersStray,
                 foldersAnswer, foldersLate, foldersGone, foldersLoose>>

Relay == INSTANCE ServiceRelay WITH
    lease <- relayLease, runs <- relayRuns, armed <- relayArmed,
    up <- relayUp, inbox <- relayInbox, linked <- relayLinked,
    handling <- relayHandling, job <- relayJob, req <- relayReq,
    handed <- relayHanded, spent <- relaySpent, Requests <- OneRequest,
    MaxEvents <- 3

Jobs == INSTANCE InstallJobs WITH
    job <- jobsJob, mirror <- jobsMirror, sending <- jobsSending,
    loaded <- jobsLoaded, wanted <- jobsWanted, req <- jobsReq,
    pushes <- jobsPushes, linked <- jobsLinked, inbox <- jobsInbox,
    panel <- jobsPanel, due <- jobsDue, faults <- jobsFaults, MaxFaults <- 1,
    Watching <- FALSE

Folders == INSTANCE FolderRemap WITH
    folders <- foldersFolders, at <- foldersAt, step <- foldersStep,
    listed <- foldersListed, window <- foldersWindow, flock <- foldersFlock,
    volumes <- foldersVolumes, container <- foldersContainer,
    remapped <- foldersRemapped, stray <- foldersStray,
    answer <- foldersAnswer, late <- foldersLate, gone <- foldersGone,
    loose <- foldersLoose

Components == {"relay", "jobs", "folders"}

Init ==
    /\ which \in Components
    /\ Relay!Init
    /\ Jobs!Init
    /\ Folders!Init
    /\ which # "relay" => relayLease = None
    /\ which # "jobs" => ~jobsWanted

Unmoved(others) == UNCHANGED <<which, others>>

RelayMoves ==
    /\ which = "relay"
    /\ Relay!Next
    /\ Unmoved(<<jobsVars, foldersVars>>)

JobsMoves ==
    /\ which = "jobs"
    /\ Jobs!Next
    /\ Unmoved(<<relayVars, foldersVars>>)

FoldersMoves ==
    /\ which = "folders"
    /\ Folders!Next
    /\ Unmoved(<<relayVars, jobsVars>>)

Next == RelayMoves \/ JobsMoves \/ FoldersMoves

Fairness == Jobs!Fairness /\ Folders!Fairness

vars == <<which, relayVars, jobsVars, foldersVars>>

Spec == Init /\ [][Next]_vars /\ Fairness

(***************************************************************************)
(* Properties                                                              *)
(***************************************************************************)
\* The component at work keeps its variables in their types.
TypeOK ==
    /\ which = "relay" => Relay!TypeOK
    /\ which = "jobs" => Jobs!TypeOK
    /\ which = "folders" => Folders!TypeOK

\* However a command travels, the service has one process; a command is carried out by
\* one other worker at most, and beside that by the requester itself only when it has
\* waited for the reply in vain; and an answer that is not a timeout is that of a worker
\* that carried it out (ServiceCommandRelay.dispatch, _handle_command, _dispatch_command).
CommandsAreReal ==
    Relay!OneProcess /\ Relay!CarriedOutOnce /\ Relay!AnswersAreReal

\* An app that is refused because it is being installed can be asked for again one day:
\* no lost task, failed write of the shared record or dead worker blocks it for good
\* (InstallJobs.status, _mirror).
RefusalEnds == Jobs!RefusalEnds

\* When a change of the folders has been carried out the containers have the folders that
\* were on record, and no other worker's change takes them back (the file lock round
\* set_extra_volumes and the restarts in folders.py), unless a change was cancelled while
\* it recreated the container.
RemountedStays == Folders!RemountedStays

\* Every caller whose change of the folders joined a window of changes is answered, also
\* when the one that leads the window cannot get the lock, or is set adrift when the one
\* that leads is cancelled (_request_remap, _RemapCoalescer.request).
EveryCallerAnswered == Folders!EveryCallerAnswered
=============================================================================

---------------------------- MODULE ServiceRelay ----------------------------
(* Forwarding of a service's start, stop and restart to the worker that      *)
(* owns its process (apps/service_relay.py over libs/redis_coord.py): every  *)
(* worker hears every command and decides for itself whether it is its own;  *)
(* the requester waits for one reply and falls back to acting locally.       *)
(*                                                                           *)
(* One service.  Its supervisor is reduced to what the relay meets: who has  *)
(* the lease, who has a process, who waits for the lease (a declined start   *)
(* that will be retried).  The supervisor itself is ServiceSupervisor.       *)
EXTENDS Naturals, Sequences, SequencesExt

CONSTANTS
  Workers, Requests,
  None,       \* no worker, no request
  MaxEvents   \* bound on what happens to the relay: requests, exits of the service, and
              \* everything that breaks (Redis calls, links, actions, workers)

Actions == {"start", "stop", "restart"}
Ways == Workers \cup {"local"}   \* who carries a request out: an owner, or the requester

VARIABLES
  lease,    \* the worker the Redis lease names
  runs,     \* runs[w]: w has a live Popen of the service
  armed,    \* armed[w]: w's declined start waits for the lease
  up,       \* the workers that are alive
  inbox,    \* inbox[w]: what w's subscription has not handed to its loop yet
  linked,   \* the workers whose relay loop is subscribed
  handling, \* handling[w]: the command w's relay loop is awaiting
  job,      \* job[r][k]: the step the action of r has reached, carried out by way k
  req,      \* req[r]: where dispatch() of r is
  handed,   \* history: the requests whose command was on its way when the service changed hands
  spent     \* how much of MaxEvents is used up
relayVars == <<lease, runs, armed, up, inbox, linked, handling, job, req, handed, spent>>

service == <<lease, runs, armed, handed>>
network == <<inbox, linked, handling>>

Message == [kind : {"cmd", "reply"}, of : Requests, ok : BOOLEAN]
Steps == {"no", "stop", "start", "ok", "error"}
Phases == {"new", "asking", "publishing", "waiting", "local", "done",
           "answered", "refused", "cut"}

Init ==
  /\ lease \in {None} \cup Workers
  /\ runs = [w \in Workers |-> w = lease]
  /\ armed = [w \in Workers |-> FALSE]
  /\ up = Workers
  /\ inbox = [w \in Workers |-> <<>>]
  /\ linked = Workers
  /\ handling = [w \in Workers |-> None]
  /\ job = [r \in Requests |-> [k \in Ways |-> "no"]]
  /\ req = [r \in Requests |-> [phase |-> "new", at |-> None, action |-> "start", reply |-> "none"]]
  /\ handed = {}
  /\ spent = 0

Event == spent < MaxEvents /\ spent' = spent + 1

\* ServiceSupervisor.owns_locally: a live process and a lease that is still ours.
OwnsLocally(w) == runs[w] /\ lease = w

\* The first step of an action: restart() is stop() and then start().
FirstStep(action) == IF action = "start" THEN "start" ELSE "stop"

To(r, phase) == req' = [req EXCEPT ![r].phase = phase]
Put(r, k, step) == job' = [job EXCEPT ![r][k] = step]

\* PUBLISH reaches every worker that is subscribed at that moment, the sender
\* included, and nobody else ever.
Publish(m) ==
  inbox' = [w \in Workers |-> IF w \in up \cap linked THEN Append(inbox[w], m) ELSE inbox[w]]

-----------------------------------------------------------------------------
(* The requester: dispatch().                                                *)

\* The owner acts at once, everybody else asks who holds the lease.
Dispatch(r, w, action) ==
  /\ req[r].phase = "new" /\ w \in up /\ Event
  /\ req' = [req EXCEPT ![r] = [phase |-> IF OwnsLocally(w) THEN "local" ELSE "asking",
                                at |-> w, action |-> action, reply |-> "none"]]
  /\ IF OwnsLocally(w) THEN Put(r, "local", FirstStep(action)) ELSE UNCHANGED job
  /\ UNCHANGED <<service, up, network>>

ActLocally(r) == To(r, "local") /\ Put(r, "local", FirstStep(req[r].action))

\* is_lease_held_anywhere runs in a thread: its answer may be old when used.
CheckHeld(r) ==
  /\ req[r].phase = "asking"
  /\ IF lease = None THEN ActLocally(r) ELSE To(r, "publishing") /\ UNCHANGED job
  /\ UNCHANGED <<service, up, network, spent>>

\* A Redis that does not answer counts as "held by nobody".
CheckFailsOpen(r) ==
  /\ req[r].phase = "asking" /\ Event
  /\ ActLocally(r)
  /\ UNCHANGED <<service, up, network>>

SendCommand(r) ==
  /\ req[r].phase = "publishing"
  /\ To(r, "waiting")
  /\ Publish([kind |-> "cmd", of |-> r, ok |-> TRUE])
  /\ UNCHANGED <<service, up, linked, handling, job, spent>>

SendFails(r) ==
  /\ req[r].phase = "publishing" /\ Event
  /\ ActLocally(r)
  /\ UNCHANGED <<service, up, network>>

\* The deadline is not told from the reply that has come.
DeadlineAnyway(r) ==
  /\ req[r].phase = "waiting"
  /\ ActLocally(r)
  /\ UNCHANGED <<service, up, network, spent>>

\* wait_for(queue.get()) runs out: fall back, once.
Deadline(r) ==
  /\ req[r].phase = "waiting" /\ req[r].reply = "none"
  /\ ActLocally(r)
  /\ UNCHANGED <<service, up, network, spent>>

TakeReply(r) ==
  /\ req[r].phase = "waiting" /\ req[r].reply # "none"
  /\ To(r, IF req[r].reply = "ok" THEN "answered" ELSE "refused")
  /\ UNCHANGED <<service, up, network, job, spent>>

LocalDone(r) ==
  /\ req[r].phase = "local" /\ job[r]["local"] \in {"ok", "error"}
  /\ To(r, "done")
  /\ UNCHANGED <<service, up, network, job, spent>>

-----------------------------------------------------------------------------
(* Every worker's relay loop: one message at a time, the handler awaited.    *)

Next1(w) == Head(inbox[w])
Pop(w) == inbox' = [inbox EXCEPT ![w] = Tail(@)]
LoopFree(w) == w \in up /\ w \in linked /\ handling[w] = None /\ inbox[w] # <<>>

\* A reply is for whoever still has its correlation id in _pending.
HearReply(w) ==
  /\ LoopFree(w) /\ Next1(w).kind = "reply"
  /\ Pop(w)
  /\ LET r == Next1(w).of IN
     IF req[r].at = w /\ req[r].phase = "waiting" /\ req[r].reply = "none"
       THEN req' = [req EXCEPT ![r].reply = IF Next1(w).ok THEN "ok" ELSE "failed"]
       ELSE UNCHANGED req
  /\ UNCHANGED <<service, up, linked, handling, job, spent>>

\* A command is for whoever owns the service when it is read.
HearCommand(w) ==
  /\ LoopFree(w) /\ Next1(w).kind = "cmd"
  /\ Pop(w)
  /\ LET r == Next1(w).of IN
     IF OwnsLocally(w)
       THEN /\ handling' = [handling EXCEPT ![w] = r]
            /\ Put(r, w, FirstStep(req[r].action))
       ELSE UNCHANGED <<handling, job>>
  /\ UNCHANGED <<service, up, linked, req, spent>>

Reply(w, ok) ==
  /\ handling' = [handling EXCEPT ![w] = None]
  /\ Publish([kind |-> "reply", of |-> handling[w], ok |-> ok])

HandlerReplies(w) ==
  /\ w \in up /\ handling[w] # None
  /\ job[handling[w]][w] \in {"ok", "error"}
  /\ Reply(w, job[handling[w]][w] = "ok")
  /\ UNCHANGED <<service, up, linked, job, req, spent>>

\* The action has taken longer than the timeout; it goes on in its thread.  The
\* requester waits for as long, from about the same moment: either may be first.
HandlerGivesUp(w) ==
  /\ w \in up /\ handling[w] # None
  /\ job[handling[w]][w] \in {"stop", "start"}
  /\ Reply(w, FALSE)
  /\ UNCHANGED <<service, up, linked, job, req, spent>>

\* The reply cannot be published: logged, and the requester times out.
ReplyFails(w) ==
  /\ w \in up /\ handling[w] # None
  /\ job[handling[w]][w] \in {"ok", "error"}
  /\ Event
  /\ handling' = [handling EXCEPT ![w] = None]
  /\ UNCHANGED <<service, up, linked, inbox, job, req>>

\* listen() ends: everything not yet delivered is gone, the task is not.
LinkDrops(w) ==
  /\ w \in up \cap linked /\ handling[w] = None /\ Event
  /\ linked' = linked \ {w}
  /\ inbox' = [inbox EXCEPT ![w] = <<>>]
  /\ UNCHANGED <<service, up, handling, job, req>>

ResubscribeAnyway(w) ==
  /\ w \notin linked
  /\ linked' = linked \cup {w}
  /\ UNCHANGED <<service, up, inbox, handling, job, req, spent>>

Resubscribe(w) ==
  /\ w \in up \ linked
  /\ linked' = linked \cup {w}
  /\ UNCHANGED <<service, up, inbox, handling, job, req, spent>>

-----------------------------------------------------------------------------
(* The supervisor's side: what an action does at the worker that runs it.    *)

At(r, k) == IF k = "local" THEN req[r].at ELSE k

\* A worker becomes the owner; a command still on its way to somebody will be
\* judged by the new ownership.
Claim(w) ==
  /\ lease' = w
  /\ runs' = [runs EXCEPT ![w] = TRUE]
  /\ handed' = handed \cup {r \in Requests : \E v \in Workers :
                      [kind |-> "cmd", of |-> r, ok |-> TRUE] \in ToSet(inbox[v])}

DoStop(r, k) ==
  LET w == At(r, k) IN
  /\ job[r][k] = "stop" /\ w \in up
  /\ runs' = [runs EXCEPT ![w] = FALSE]
  /\ armed' = [armed EXCEPT ![w] = FALSE]
  /\ lease' = IF lease = w THEN None ELSE lease
  /\ Put(r, k, IF req[r].action = "restart" THEN "start" ELSE "ok")
  /\ UNCHANGED <<up, network, req, handed, spent>>

\* Running here: nothing to do.  Lease free: claimed, spawned.  Lease held: not
\* spawned, and retried later.
DoStart(r, k) ==
  LET w == At(r, k) IN
  /\ job[r][k] = "start" /\ w \in up
  /\ Put(r, k, "ok")
  /\ CASE runs[w] -> UNCHANGED service
       [] ~runs[w] /\ lease = None -> Claim(w) /\ UNCHANGED armed
       [] OTHER -> /\ armed' = [armed EXCEPT ![w] = TRUE]
                   /\ UNCHANGED <<lease, runs, handed>>
  /\ UNCHANGED <<up, network, req, spent>>

\* Popen raises after the lease was claimed: the claim stays until its TTL.
StartFails(r, k) ==
  LET w == At(r, k) IN
  /\ job[r][k] = "start" /\ w \in up /\ ~runs[w] /\ lease = None /\ Event
  /\ lease' = w
  /\ Put(r, k, "error")
  /\ UNCHANGED <<runs, armed, handed, up, network, req>>

RetryFires(w) ==
  /\ w \in up /\ armed[w] /\ lease = None /\ ~runs[w]
  /\ armed' = [armed EXCEPT ![w] = FALSE]
  /\ Claim(w)
  /\ UNCHANGED <<up, network, job, req, spent>>

\* The service ends by itself: lease released, respawn armed.
Exits(w) ==
  /\ w \in up /\ runs[w] /\ Event
  /\ runs' = [runs EXCEPT ![w] = FALSE]
  /\ lease' = IF lease = w THEN None ELSE lease
  /\ armed' = [armed EXCEPT ![w] = TRUE]
  /\ UNCHANGED <<up, network, job, req, handed>>

\* A worker dies: its requests are cut, its lease stays as a ghost.
WorkerDies(w) ==
  /\ w \in up /\ up # {w} /\ Event
  /\ up' = up \ {w}
  /\ runs' = [runs EXCEPT ![w] = FALSE]
  /\ armed' = [armed EXCEPT ![w] = FALSE]
  /\ inbox' = [inbox EXCEPT ![w] = <<>>]
  /\ linked' = linked \ {w}
  /\ handling' = [handling EXCEPT ![w] = None]
  /\ req' = [r \in Requests |->
       IF req[r].at = w /\ req[r].phase \in {"asking", "publishing", "waiting", "local"}
         THEN [req[r] EXCEPT !.phase = "cut"] ELSE req[r]]
  /\ UNCHANGED <<lease, job, handed>>

\* Nobody renews the claim of a process that is not there.
LeaseExpires ==
  /\ lease # None /\ ~runs[lease]
  /\ lease' = None
  /\ UNCHANGED <<runs, armed, handed, up, network, job, req, spent>>

Next ==
  \/ \E r \in Requests : \/ \E w \in Workers, action \in Actions : Dispatch(r, w, action)
                         \/ CheckHeld(r) \/ CheckFailsOpen(r) \/ SendCommand(r) \/ SendFails(r)
                         \/ Deadline(r) \/ TakeReply(r) \/ LocalDone(r)
                         \/ \E k \in Ways : DoStop(r, k) \/ DoStart(r, k) \/ StartFails(r, k)
  \/ \E w \in Workers : \/ HearReply(w) \/ HearCommand(w)
                        \/ HandlerReplies(w) \/ HandlerGivesUp(w) \/ ReplyFails(w)
                        \/ LinkDrops(w) \/ Resubscribe(w) \/ RetryFires(w)
                        \/ Exits(w) \/ WorkerDies(w)
  \/ LeaseExpires

Spec == Init /\ [][Next]_relayVars

-----------------------------------------------------------------------------
TypeOK ==
  /\ lease \in Workers \cup {None}
  /\ runs \in [Workers -> BOOLEAN] /\ armed \in [Workers -> BOOLEAN]
  /\ up \subseteq Workers /\ linked \subseteq up
  /\ inbox \in [Workers -> Seq(Message)]
  /\ handling \in [Workers -> Requests \cup {None}]
  /\ job \in [Requests -> [Ways -> Steps]]
  /\ req \in [Requests -> [phase : Phases, at : Workers \cup {None}, action : Actions,
                           reply : {"none", "ok", "failed"}]]
  /\ handed \subseteq Requests

\* The lease gate is what makes falling back safe: however late an owner acts
\* and whoever falls back in the meantime, at most one worker has a process.
OneProcess == \A v, w \in Workers : runs[v] /\ runs[w] => v = w

\* A command is carried out by one relay loop: a second one takes it only if the
\* service changed hands while the command was out.  Beside that loop only the requester
\* itself carries it out, and only when it has waited for the reply in vain: falling back
\* at the deadline is what makes a second execution, and nothing else does.
CarriedOutOnce ==
  \A r \in Requests \ handed :
    /\ \A v, w \in Workers : job[r][v] # "no" /\ job[r][w] # "no" => v = w
    /\ job[r]["local"] # "no" /\ (\E w \in Workers : job[r][w] # "no") =>
         req[r].reply = "none"

\* An answer that came back is the answer of an action that ran to its end,
\* and the requester has not acted as well.
AnswersAreReal ==
  \A r \in Requests : req[r].phase = "answered" =>
    /\ \E w \in Workers : job[r][w] = "ok"
    /\ job[r]["local"] = "no"

\* What the module doc promises for a hung action: the requester is told, and
\* does not fall back.
HungActionReported ==
  \A r \in Requests : \A w \in Workers :
    (job[r][w] \in {"stop", "start"} /\ handling[w] # r) => job[r]["local"] = "no"
=============================================================================

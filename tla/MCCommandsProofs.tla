-------------------------- MODULE MCCommandsProofs --------------------------
(* Proofs about MCCommands, for any workers and requests: its type invariant, *)
(* CommandsAreReal and RemountedStays.  Of the relay the invariant is that    *)
(* each worker hears a command once and that whoever carries one out is alone *)
(* with it until the service changes hands; of the install records the types; *)
(* of the folders that a remap which has taken its list knows every folder    *)
(* that was on record when an earlier one answered.                           *)
EXTENDS MCCommands, TLAPS
-----------------------------------------------------------------------------
(* The relay of service commands *)

\* The command of r has reached worker v and is not read yet.
Out(r, v) ==
  \E i \in 1..Len(relayInbox[v]) : relayInbox[v][i].kind = "cmd" /\ relayInbox[v][i].of = r

\* Only the worker that has the lease has a process.
LeaseGates == \A w \in Workers : relayRuns[w] => relayLease = w

\* Whose command is not sent yet is asked of nobody and has no reply; who has not fallen
\* back has not acted, and who has fallen back has no reply.
Unsent(r) ==
  /\ relayReq[r].phase \in {"new", "asking", "publishing"} =>
       /\ relayReq[r].reply = "none"
       /\ \A w \in Workers : relayJob[r][w] = "no" /\ ~Out(r, w)
  /\ relayJob[r]["local"] # "no" => relayReq[r].reply = "none"
  /\ relayReq[r].phase \in {"new", "asking", "publishing", "waiting", "answered", "refused"} =>
       relayJob[r]["local"] = "no"

NotSent == \A r \in OneRequest : Unsent(r)

\* A worker hears a command once.
Distinct(w) ==
  \A i, j \in 1..Len(relayInbox[w]) :
    /\ relayInbox[w][i].kind = "cmd" => relayInbox[w][i].ok
    /\ (/\ relayInbox[w][i].kind = "cmd" /\ relayInbox[w][j].kind = "cmd"
        /\ relayInbox[w][i].of = relayInbox[w][j].of) => i = j

HeardOnce ==
  \A w \in Workers : Distinct(w) /\ \A r \in OneRequest : relayJob[r][w] # "no" => ~Out(r, w)

\* Unless the service has changed hands meanwhile, whoever carries a command out is alone
\* with it, and nobody who is yet to hear it has the process.
TakenOnce ==
  \A r \in OneRequest \ relayHanded, w \in Workers : relayJob[r][w] # "no" =>
    \A u \in Workers \ {w} :
      /\ relayJob[r][u] = "no"
      /\ (\E v \in Workers : Out(r, v)) => ~relayRuns[u]

Done(r) == \E w \in Workers : relayJob[r][w] = "ok"

\* Who is told of a success can be sure of it.
RepliesAreReal ==
  /\ \A w \in Workers : \A i \in 1..Len(relayInbox[w]) :
       relayInbox[w][i].kind = "reply" /\ relayInbox[w][i].ok => Done(relayInbox[w][i].of)
  /\ \A r \in OneRequest :
       /\ relayReq[r].reply = "ok" => Done(r)
       /\ relayReq[r].phase = "answered" => relayReq[r].reply = "ok"

RelayInv ==
  /\ Relay!TypeOK /\ LeaseGates /\ NotSent /\ HeardOnce /\ TakenOnce /\ RepliesAreReal

\* A message appended to an inbox is its last.
LEMMA AppendMessage ==
  ASSUME NEW s \in Seq(Relay!Message), NEW m \in Relay!Message
  PROVE  /\ Append(s, m) \in Seq(Relay!Message) /\ Len(s) \in Nat
         /\ Len(Append(s, m)) = Len(s) + 1
         /\ \A i \in 1..Len(s) + 1 : Append(s, m)[i] = IF i = Len(s) + 1 THEN m ELSE s[i]
  OBVIOUS

\* The rest of an inbox are its other messages.
LEMMA TailMessages ==
  ASSUME NEW s \in Seq(Relay!Message), s # <<>>
  PROVE  /\ Tail(s) \in Seq(Relay!Message) /\ Len(s) \in Nat /\ 1 \in 1..Len(s)
         /\ Head(s) = s[1] /\ Head(s) \in Relay!Message
         /\ Len(Tail(s)) = Len(s) - 1
         /\ \A i \in 1..Len(s) - 1 : i + 1 \in 1..Len(s) /\ Tail(s)[i] = s[i + 1]
  OBVIOUS

\* What is in an inbox is a message.
LEMMA InboxTyped ==
  ASSUME Relay!TypeOK, NEW w \in Workers, NEW i \in 1..Len(relayInbox[w])
  PROVE  relayInbox[w][i] \in Relay!Message /\ relayInbox[w][i].of \in OneRequest
<1>1. relayInbox[w] \in Seq(Relay!Message)
  BY DEF Relay!TypeOK
<1>2. relayInbox[w][i] \in Relay!Message
  BY <1>1
<1> QED BY <1>2 DEF Relay!Message

\* Publish adds the message to some inboxes and leaves the others.
LEMMA Published ==
  ASSUME Relay!TypeOK, NEW m \in Relay!Message, Relay!Publish(m)
  PROVE  /\ relayInbox' \in [Workers -> Seq(Relay!Message)]
         /\ \A w \in Workers : \A i \in 1..Len(relayInbox'[w]) :
              \/ i \in 1..Len(relayInbox[w]) /\ relayInbox'[w][i] = relayInbox[w][i]
              \/ i = Len(relayInbox[w]) + 1 /\ relayInbox'[w][i] = m
<1>1. \A w \in Workers : relayInbox[w] \in Seq(Relay!Message)
  BY DEF Relay!TypeOK
<1>2. \A w \in Workers : relayInbox'[w] \in Seq(Relay!Message)
  BY <1>1, AppendMessage DEF Relay!Publish
<1>3. ASSUME NEW w \in Workers, NEW i \in 1..Len(relayInbox'[w])
      PROVE  \/ i \in 1..Len(relayInbox[w]) /\ relayInbox'[w][i] = relayInbox[w][i]
             \/ i = Len(relayInbox[w]) + 1 /\ relayInbox'[w][i] = m
  <2>1. CASE relayInbox'[w] = relayInbox[w]
    BY <2>1
  <2>2. CASE relayInbox'[w] = Append(relayInbox[w], m)
    BY <1>1, <2>2, AppendMessage
  <2> QED BY <2>1, <2>2 DEF Relay!Publish
<1> QED BY <1>2, <1>3 DEF Relay!Publish

\* Reading a message takes the first of one inbox.
LEMMA Popped ==
  ASSUME Relay!TypeOK, NEW w \in Workers, relayInbox[w] # <<>>, Relay!Pop(w)
  PROVE  /\ relayInbox' \in [Workers -> Seq(Relay!Message)]
         /\ 1 \in 1..Len(relayInbox[w]) /\ Relay!Next1(w) = relayInbox[w][1]
         /\ Relay!Next1(w) \in Relay!Message
         /\ \A i \in 1..Len(relayInbox'[w]) :
              /\ i + 1 \in 1..Len(relayInbox[w]) /\ i + 1 # 1
              /\ relayInbox'[w][i] = relayInbox[w][i + 1]
         /\ \A v \in Workers \ {w} : relayInbox'[v] = relayInbox[v]
<1>1. relayInbox[w] \in Seq(Relay!Message)
  BY DEF Relay!TypeOK
<1>2. relayInbox'[w] = Tail(relayInbox[w])
  BY DEF Relay!Pop, Relay!TypeOK
<1>3. relayInbox' \in [Workers -> Seq(Relay!Message)]
  BY <1>1, TailMessages DEF Relay!Pop, Relay!TypeOK
<1>4. \A i \in 1..Len(relayInbox'[w]) :
         i \in 1..Len(relayInbox[w]) - 1 /\ i + 1 # 1
  BY <1>1, <1>2, TailMessages
<1>5. \A v \in Workers \ {w} : relayInbox'[v] = relayInbox[v]
  BY DEF Relay!Pop, Relay!TypeOK
<1> QED BY <1>1, <1>2, <1>3, <1>4, <1>5, TailMessages DEF Relay!Next1

RelayRequests ==
  [phase : Relay!Phases, at : Workers \cup {None}, action : Relay!Actions,
   reply : {"none", "ok", "failed"}]

\* A request moves to another phase.
LEMMA PhaseChanged ==
  ASSUME Relay!TypeOK, NEW r \in OneRequest, NEW p \in Relay!Phases, Relay!To(r, p)
  PROVE  /\ relayReq' \in [OneRequest -> RelayRequests]
         /\ relayReq'[r].phase = p /\ relayReq'[r].at = relayReq[r].at
         /\ relayReq'[r].action = relayReq[r].action /\ relayReq'[r].reply = relayReq[r].reply
         /\ \A q \in OneRequest \ {r} : relayReq'[q] = relayReq[q]
<1> DEFINE x == [relayReq[r] EXCEPT !.phase = p]
<1>1. relayReq[r] \in RelayRequests
  BY DEF Relay!TypeOK, RelayRequests
<1>2. /\ x \in RelayRequests /\ x.phase = p /\ x.at = relayReq[r].at
      /\ x.action = relayReq[r].action /\ x.reply = relayReq[r].reply
  BY <1>1 DEF RelayRequests
<1>3. relayReq' = [relayReq EXCEPT ![r] = x]
  BY DEF Relay!To
<1> HIDE DEF x
<1> QED BY <1>2, <1>3 DEF Relay!TypeOK, RelayRequests

\* An action reaches its next step.
LEMMA StepPut ==
  ASSUME Relay!TypeOK, NEW r \in OneRequest, NEW k \in Relay!Ways, NEW s \in Relay!Steps,
         Relay!Put(r, k, s)
  PROVE  /\ relayJob' \in [OneRequest -> [Relay!Ways -> Relay!Steps]]
         /\ \A q \in OneRequest, j \in Relay!Ways :
              relayJob'[q][j] = IF q = r /\ j = k THEN s ELSE relayJob[q][j]
BY DEF Relay!TypeOK, Relay!Put

\* The types, piece by piece.
LEMMA RelayTyped ==
  ASSUME relayLease' \in Workers \cup {None}, relayRuns' \in [Workers -> BOOLEAN],
         relayArmed' \in [Workers -> BOOLEAN], relayUp' \subseteq Workers,
         relayLinked' \subseteq relayUp', relayInbox' \in [Workers -> Seq(Relay!Message)],
         relayHandling' \in [Workers -> OneRequest \cup {None}],
         relayJob' \in [OneRequest -> [Relay!Ways -> Relay!Steps]],
         relayReq' \in [OneRequest -> RelayRequests], relayHanded' \subseteq OneRequest
  PROVE  Relay!TypeOK'
BY DEF Relay!TypeOK, RelayRequests

\* The requester's steps that send nothing: on with the question, or to what it leads to.
LEMMA RequesterMoves ==
  ASSUME CommandsAssumption, RelayInv, NEW r \in OneRequest, NEW p \in Relay!Phases,
         Relay!To(r, p),
         \/ p \in {"local", "done"} /\ relayJob' = relayJob
         \/ /\ p = "local" /\ relayReq[r].reply = "none"
            /\ \E s \in {"start", "stop"} : Relay!Put(r, "local", s)
         \/ p = "publishing" /\ relayReq[r].phase = "asking" /\ relayJob' = relayJob
         \/ /\ p \in {"answered", "refused"} /\ relayReq[r].phase = "waiting"
            /\ relayJob' = relayJob
            /\ p = "answered" => relayReq[r].reply = "ok",
         UNCHANGED <<relayLease, relayRuns, relayArmed, relayHanded, relayUp, relayInbox,
                     relayLinked, relayHandling>>
  PROVE  RelayInv'
<1>1. /\ relayReq' \in [OneRequest -> RelayRequests]
      /\ relayReq'[r].phase = p /\ relayReq'[r].reply = relayReq[r].reply
      /\ \A q \in OneRequest \ {r} : relayReq'[q] = relayReq[q]
  BY PhaseChanged DEF RelayInv
<1>2. /\ relayJob' \in [OneRequest -> [Relay!Ways -> Relay!Steps]]
      /\ \A q \in OneRequest, w \in Workers : relayJob'[q][w] = relayJob[q][w]
      /\ \A q \in OneRequest :
           \/ q = r /\ p = "local" /\ relayReq[r].reply = "none"
           \/ relayJob'[q]["local"] = relayJob[q]["local"]
  <2>1. CASE relayJob' = relayJob
    BY <2>1 DEF RelayInv, Relay!TypeOK
  <2>2. CASE /\ p = "local" /\ relayReq[r].reply = "none"
             /\ \E s \in {"start", "stop"} : Relay!Put(r, "local", s)
    <3>1. PICK s \in {"start", "stop"} : Relay!Put(r, "local", s)
      BY <2>2
    <3>2. s \in Relay!Steps /\ "local" \in Relay!Ways /\ Workers \subseteq Relay!Ways
      BY DEF Relay!Steps, Relay!Ways
    <3> QED BY <2>2, <3>1, <3>2, StepPut, CommandsAssumption DEF RelayInv
  <2> QED BY <2>1, <2>2
<1>3. Relay!TypeOK'
  BY <1>1, <1>2, RelayTyped DEF RelayInv, Relay!TypeOK
<1>4. \A q \in OneRequest, w \in Workers : Out(q, w)' <=> Out(q, w)
  BY DEF Out
<1>5. LeaseGates'
  BY DEF RelayInv, LeaseGates
<1>6. NotSent'
  <2>1. ASSUME NEW q \in OneRequest \ {r} PROVE Unsent(q)'
    BY <1>1, <1>2, <1>4 DEF RelayInv, NotSent, Unsent
  <2>2. Unsent(r)'
    <3>1. Unsent(r)
      BY DEF RelayInv, NotSent
    <3>2. p \in {"new", "asking", "publishing"} => relayReq[r].phase = "asking"
      OBVIOUS
    <3>3. p \in {"waiting", "answered", "refused", "publishing", "asking", "new"} =>
            relayJob[r]["local"] = "no" /\ relayJob'[r]["local"] = "no"
      BY <1>2, <3>1 DEF Unsent
    <3>4. relayJob'[r]["local"] # "no" => relayReq[r].reply = "none"
      BY <1>2, <3>1 DEF Unsent
    <3> QED BY <1>1, <1>2, <1>4, <3>1, <3>2, <3>3, <3>4 DEF Unsent
  <2> QED BY <2>1, <2>2 DEF NotSent
<1>7. HeardOnce'
  BY <1>2, <1>4 DEF RelayInv, HeardOnce, Distinct
<1>8. TakenOnce'
  BY <1>2, <1>4 DEF RelayInv, TakenOnce
<1>9. RepliesAreReal'
  <2>1. \A q \in OneRequest : Done(q)' <=> Done(q)
    BY <1>2 DEF Done
  <2>2. \A w \in Workers : \A i \in 1..Len(relayInbox[w]) : relayInbox[w][i].of \in OneRequest
    BY InboxTyped DEF RelayInv
  <2> QED BY <1>1, <2>1, <2>2 DEF RelayInv, RepliesAreReal
<1> QED BY <1>3, <1>5, <1>6, <1>7, <1>8, <1>9 DEF RelayInv

\* What an action does to the service: the process starts nowhere but where a claim has
\* marked the commands that are on their way.
LEMMA ServiceMoves ==
  ASSUME CommandsAssumption, RelayInv,
         relayLease' \in Workers \cup {None}, relayRuns' \in [Workers -> BOOLEAN],
         relayArmed' \in [Workers -> BOOLEAN], relayHanded \subseteq relayHanded',
         relayHanded' \subseteq OneRequest, LeaseGates',
         \A u \in Workers : relayRuns'[u] =>
           relayRuns[u] \/ \A q \in OneRequest, v \in Workers : Out(q, v) => q \in relayHanded',
         relayJob' \in [OneRequest -> [Relay!Ways -> Relay!Steps]],
         \A q \in OneRequest, k \in Relay!Ways :
           relayJob'[q][k] = relayJob[q][k] \/ relayJob[q][k] \notin {"no", "ok"},
         UNCHANGED <<relayUp, relayInbox, relayLinked, relayHandling, relayReq>>
  PROVE  RelayInv'
<1>1. Workers \subseteq Relay!Ways /\ "local" \in Relay!Ways
  BY DEF Relay!Ways
<1>2. \A q \in OneRequest, w \in Workers : Out(q, w)' <=> Out(q, w)
  BY DEF Out
<1>3. Relay!TypeOK'
  BY RelayTyped DEF RelayInv, Relay!TypeOK, RelayRequests
<1>4. NotSent'
  BY <1>1, <1>2 DEF RelayInv, NotSent, Unsent
<1>5. HeardOnce'
  BY <1>1, <1>2 DEF RelayInv, HeardOnce, Distinct
<1>6. TakenOnce'
  BY <1>1, <1>2 DEF RelayInv, TakenOnce
<1>7. RepliesAreReal'
  <2>1. \A q \in OneRequest : Done(q) => Done(q)'
    BY <1>1 DEF Done
  <2>2. \A w \in Workers : \A i \in 1..Len(relayInbox[w]) : relayInbox[w][i].of \in OneRequest
    BY InboxTyped DEF RelayInv
  <2> QED BY <2>1, <2>2 DEF RelayInv, RepliesAreReal
<1> QED BY <1>3, <1>4, <1>5, <1>6, <1>7 DEF RelayInv

\* Claim marks the commands that have reached an inbox.
LEMMA ClaimMarks ==
  ASSUME RelayInv, NEW w \in Workers, Relay!Claim(w), relayLease = None, None \notin Workers
  PROVE  /\ relayLease' = w /\ relayRuns' \in [Workers -> BOOLEAN] /\ LeaseGates'
         /\ relayHanded \subseteq relayHanded' /\ relayHanded' \subseteq OneRequest
         /\ \A q \in OneRequest, v \in Workers : Out(q, v) => q \in relayHanded'
<1>1. ASSUME NEW q \in OneRequest, NEW v \in Workers, Out(q, v)
      PROVE  q \in relayHanded'
  <2>1. PICK i \in 1..Len(relayInbox[v]) :
               relayInbox[v][i].kind = "cmd" /\ relayInbox[v][i].of = q
    BY <1>1 DEF Out
  <2>2. relayInbox[v] \in Seq(Relay!Message)
    BY DEF RelayInv, Relay!TypeOK
  <2>3. relayInbox[v][i] \in Relay!Message /\ i \in DOMAIN relayInbox[v]
    BY <2>2
  <2>4. relayInbox[v][i].ok = TRUE
    BY <2>1, <2>3 DEF RelayInv, HeardOnce, Distinct, Relay!Message
  <2>5. relayInbox[v][i] = [kind |-> "cmd", of |-> q, ok |-> TRUE]
    BY <2>1, <2>3, <2>4 DEF Relay!Message
  <2> QED BY <2>3, <2>5 DEF Relay!Claim, Relay!ToSet
<1>2. \A u \in Workers : ~relayRuns[u]
  BY DEF RelayInv, LeaseGates
<1> QED BY <1>1, <1>2 DEF Relay!Claim, RelayInv, Relay!TypeOK, LeaseGates

\* An answer is sent by who has carried the command out, unless it says no.
LEMMA AnswerSent ==
  ASSUME CommandsAssumption, RelayInv, NEW w \in Workers, NEW ok \in BOOLEAN,
         relayHandling[w] # None, ok => relayJob[relayHandling[w]][w] = "ok",
         Relay!Reply(w, ok),
         UNCHANGED <<relayLease, relayRuns, relayArmed, relayHanded, relayUp, relayLinked,
                     relayJob, relayReq>>
  PROVE  RelayInv'
<1> DEFINE m == [kind |-> "reply", of |-> relayHandling[w], ok |-> ok]
<1>1. relayHandling[w] \in OneRequest
  BY DEF RelayInv, Relay!TypeOK
<1>2. m \in Relay!Message /\ m.kind = "reply" /\ m.of = relayHandling[w] /\ m.ok = ok
  BY <1>1 DEF Relay!Message
<1>3. Relay!Publish(m)
  BY DEF Relay!Reply
<1> HIDE DEF m
<1>4. /\ relayInbox' \in [Workers -> Seq(Relay!Message)]
      /\ \A v \in Workers : \A i \in 1..Len(relayInbox'[v]) :
           \/ i \in 1..Len(relayInbox[v]) /\ relayInbox'[v][i] = relayInbox[v][i]
           \/ i = Len(relayInbox[v]) + 1 /\ relayInbox'[v][i] = m
  BY <1>2, <1>3, Published DEF RelayInv
<1>5. \A q \in OneRequest, v \in Workers : Out(q, v)' => Out(q, v)
  BY <1>2, <1>4 DEF Out
<1>6. Relay!TypeOK'
  BY <1>4, RelayTyped DEF RelayInv, Relay!TypeOK, RelayRequests, Relay!Reply
<1>7. LeaseGates'
  BY DEF RelayInv, LeaseGates
<1>8. NotSent'
  BY <1>5 DEF RelayInv, NotSent, Unsent
<1>9. HeardOnce'
  <2>1. \A v \in Workers : \A i \in 1..Len(relayInbox'[v]) : relayInbox'[v][i].kind = "cmd" =>
           i \in 1..Len(relayInbox[v]) /\ relayInbox'[v][i] = relayInbox[v][i]
    BY <1>2, <1>4
  <2>2. \A v \in Workers : Distinct(v)
    BY DEF RelayInv, HeardOnce
  <2>3. ASSUME NEW v \in Workers PROVE Distinct(v)'
    <3> SUFFICES ASSUME NEW i \in 1..Len(relayInbox'[v]), NEW j \in 1..Len(relayInbox'[v]),
                        relayInbox'[v][i].kind = "cmd"
                 PROVE  /\ relayInbox'[v][i].ok
                        /\ (/\ relayInbox'[v][j].kind = "cmd"
                            /\ relayInbox'[v][i].of = relayInbox'[v][j].of) => i = j
      BY DEF Distinct
    <3> QED BY <2>1, <2>2 DEF Distinct
  <2> QED BY <1>5, <2>3 DEF RelayInv, HeardOnce
<1>10. TakenOnce'
  BY <1>5 DEF RelayInv, TakenOnce
<1>11. RepliesAreReal'
  <2>1. \A q \in OneRequest : Done(q)' <=> Done(q)
    BY DEF Done
  <2>2. \A v \in Workers : \A i \in 1..Len(relayInbox[v]) : relayInbox[v][i].of \in OneRequest
    BY InboxTyped DEF RelayInv
  <2>3. ok => Done(relayHandling[w])
    BY DEF Done
  <2> QED BY <1>1, <1>2, <1>4, <2>1, <2>2, <2>3 DEF RelayInv, RepliesAreReal
<1> QED BY <1>6, <1>7, <1>8, <1>9, <1>10, <1>11 DEF RelayInv

\* Messages that are lost or read: what is left was there before.
LEMMA FewerMessages ==
  ASSUME CommandsAssumption, RelayInv,
         relayInbox' \in [Workers -> Seq(Relay!Message)],
         \A v \in Workers : \/ relayInbox'[v] = relayInbox[v] \/ relayInbox'[v] = <<>>
                            \/ \A i \in 1..Len(relayInbox'[v]) :
                                 /\ i + 1 \in 1..Len(relayInbox[v])
                                 /\ relayInbox'[v][i] = relayInbox[v][i + 1]
  PROVE  /\ \A q \in OneRequest, v \in Workers : Out(q, v)' => Out(q, v)
         /\ \A v \in Workers : Distinct(v)'
         /\ \A v \in Workers : \A i \in 1..Len(relayInbox'[v]) :
              /\ relayInbox'[v][i].of \in OneRequest
              /\ relayInbox'[v][i].kind = "reply" /\ relayInbox'[v][i].ok =>
                   Done(relayInbox'[v][i].of)
<1> SUFFICES ASSUME NEW v \in Workers
             PROVE /\ \A q \in OneRequest : Out(q, v)' => Out(q, v)
                   /\ Distinct(v)'
                   /\ \A i \in 1..Len(relayInbox'[v]) :
                        /\ relayInbox'[v][i].of \in OneRequest
                        /\ relayInbox'[v][i].kind = "reply" /\ relayInbox'[v][i].ok =>
                             Done(relayInbox'[v][i].of)
  OBVIOUS
<1>1. relayInbox[v] \in Seq(Relay!Message) /\ Len(relayInbox[v]) \in Nat
  BY DEF RelayInv, Relay!TypeOK
<1>2. relayInbox'[v] \in Seq(Relay!Message) /\ Len(relayInbox'[v]) \in Nat
  OBVIOUS
<1>3. \A i \in 1..Len(relayInbox[v]) : relayInbox[v][i].of \in OneRequest
  BY InboxTyped DEF RelayInv
<1>4. /\ Distinct(v)
      /\ \A i \in 1..Len(relayInbox[v]) :
           relayInbox[v][i].kind = "reply" /\ relayInbox[v][i].ok => Done(relayInbox[v][i].of)
  BY DEF RelayInv, HeardOnce, RepliesAreReal
<1>5. CASE relayInbox'[v] = relayInbox[v]
  BY <1>3, <1>4, <1>5 DEF Out, Distinct
<1>6. CASE relayInbox'[v] = <<>>
  BY <1>6 DEF Out, Distinct
<1>7. CASE \A i \in 1..Len(relayInbox'[v]) :
             i + 1 \in 1..Len(relayInbox[v]) /\ relayInbox'[v][i] = relayInbox[v][i + 1]
  <2>1. \A q \in OneRequest : Out(q, v)' => Out(q, v)
    BY <1>7 DEF Out
  <2>2. \A i, j \in 1..Len(relayInbox'[v]) : i + 1 = j + 1 => i = j
    BY <1>2
  <2>3. Distinct(v)'
    BY <1>4, <1>7, <2>2 DEF Distinct
  <2> QED BY <1>3, <1>4, <1>7, <2>1, <2>3
<1> QED BY <1>5, <1>6, <1>7

\* Dispatch: the owner acts itself, anybody else asks first.
LEMMA DispatchRelays ==
  ASSUME CommandsAssumption, RelayInv, NEW r \in OneRequest, NEW w \in Workers,
     NEW action \in Relay!Actions, Relay!Dispatch(r, w, action)
  PROVE  RelayInv'
<1> DEFINE x == [phase |-> IF Relay!OwnsLocally(w) THEN "local" ELSE "asking",
                 at |-> w, action |-> action, reply |-> "none"]
<1>1. /\ x \in RelayRequests /\ x.reply = "none" /\ x.phase \in {"local", "asking"}
      /\ x.phase = "local" <=> Relay!OwnsLocally(w)
  BY DEF RelayRequests, Relay!Phases
<1>2. relayReq' = [relayReq EXCEPT ![r] = x]
  BY DEF Relay!Dispatch
<1> HIDE DEF x
<1>3. /\ relayReq' \in [OneRequest -> RelayRequests] /\ relayReq'[r] = x
      /\ \A q \in OneRequest \ {r} : relayReq'[q] = relayReq[q]
  BY <1>1, <1>2 DEF RelayInv, Relay!TypeOK, RelayRequests
<1>4. /\ relayJob' \in [OneRequest -> [Relay!Ways -> Relay!Steps]]
      /\ \A q \in OneRequest, v \in Workers : relayJob'[q][v] = relayJob[q][v]
      /\ \A q \in OneRequest :
           (q = r /\ x.phase = "local") \/ relayJob'[q]["local"] = relayJob[q]["local"]
  <2>1. CASE ~Relay!OwnsLocally(w)
    BY <2>1 DEF Relay!Dispatch, RelayInv, Relay!TypeOK
  <2>2. CASE Relay!OwnsLocally(w)
    <3>1. Relay!Put(r, "local", Relay!FirstStep(action))
      BY <2>2 DEF Relay!Dispatch
    <3>2. /\ Relay!FirstStep(action) \in Relay!Steps
          /\ "local" \in Relay!Ways /\ Workers \subseteq Relay!Ways
      BY DEF Relay!Steps, Relay!Ways, Relay!FirstStep
    <3> QED BY <1>1, <2>2, <3>1, <3>2, StepPut, CommandsAssumption DEF RelayInv
  <2> QED BY <2>1, <2>2
<1>5. UNCHANGED <<relayLease, relayRuns, relayArmed, relayHanded, relayUp, relayInbox,
                  relayLinked, relayHandling>>
  BY DEF Relay!Dispatch, Relay!service, Relay!network
<1>6. Relay!TypeOK'
  BY <1>3, <1>4, <1>5, RelayTyped DEF RelayInv, Relay!TypeOK
<1>7. \A q \in OneRequest, v \in Workers : Out(q, v)' <=> Out(q, v)
  BY <1>5 DEF Out
<1>8. LeaseGates'
  BY <1>5 DEF RelayInv, LeaseGates
<1>9. NotSent'
  <2>1. ASSUME NEW q \in OneRequest \ {r} PROVE Unsent(q)'
    <3>1. Unsent(q)
      BY DEF RelayInv, NotSent
    <3>2. /\ relayReq'[q] = relayReq[q] /\ relayJob'[q]["local"] = relayJob[q]["local"]
          /\ \A v \in Workers : relayJob'[q][v] = relayJob[q][v] /\ (Out(q, v)' <=> Out(q, v))
      BY <1>3, <1>4, <1>7
    <3> QED BY <3>1, <3>2 DEF Unsent
  <2>2. Unsent(r) /\ relayReq[r].phase = "new"
    BY DEF RelayInv, NotSent, Relay!Dispatch
  <2>3. Unsent(r)'
    BY <1>1, <1>3, <1>4, <1>7, <2>2 DEF Unsent
  <2> QED BY <2>1, <2>3 DEF NotSent
<1>10. HeardOnce'
  BY <1>4, <1>5, <1>7 DEF RelayInv, HeardOnce, Distinct
<1>11. TakenOnce'
  BY <1>4, <1>5, <1>7 DEF RelayInv, TakenOnce
<1>12. RepliesAreReal'
  <2>1. \A q \in OneRequest : Done(q)' <=> Done(q)
    BY <1>4 DEF Done
  <2>2. \A v \in Workers : \A i \in 1..Len(relayInbox[v]) : relayInbox[v][i].of \in OneRequest
    BY InboxTyped DEF RelayInv
  <2> QED BY <1>1, <1>3, <1>5, <2>1, <2>2 DEF RelayInv, RepliesAreReal
<1> QED BY <1>6, <1>8, <1>9, <1>10, <1>11, <1>12 DEF RelayInv

\* CheckHeld: on to the command, or back to acting locally.
LEMMA CheckHeldRelays ==
  ASSUME CommandsAssumption, RelayInv, NEW r \in OneRequest, Relay!CheckHeld(r)
  PROVE  RelayInv'
<1>1. \/ Relay!To(r, "local") /\ \E s \in {"start", "stop"} : Relay!Put(r, "local", s)
      \/ Relay!To(r, "publishing") /\ relayReq[r].phase = "asking" /\ relayJob' = relayJob
  BY DEF Relay!CheckHeld, Relay!ActLocally, Relay!FirstStep
<1>2. relayReq[r].reply = "none"
  BY DEF Relay!CheckHeld, RelayInv, NotSent, Unsent
<1> QED BY <1>1, <1>2, RequesterMoves DEF Relay!CheckHeld, Relay!service, Relay!network,
   Relay!Phases

\* CheckFailsOpen: an unanswered question is a no.
LEMMA CheckFailsOpenRelays ==
  ASSUME CommandsAssumption, RelayInv, NEW r \in OneRequest, Relay!CheckFailsOpen(r)
  PROVE  RelayInv'
<1>1. Relay!To(r, "local") /\ \E s \in {"start", "stop"} : Relay!Put(r, "local", s)
  BY DEF Relay!CheckFailsOpen, Relay!ActLocally, Relay!FirstStep
<1>2. relayReq[r].reply = "none"
  BY DEF Relay!CheckFailsOpen, RelayInv, NotSent, Unsent
<1> QED BY <1>1, <1>2, RequesterMoves DEF Relay!CheckFailsOpen, Relay!service, Relay!network,
   Relay!Phases

\* SendCommand: the only copy of the command that each worker gets.
LEMMA SendCommandRelays ==
  ASSUME CommandsAssumption, RelayInv, NEW r \in OneRequest, Relay!SendCommand(r)
  PROVE  RelayInv'
<1> DEFINE m == [kind |-> "cmd", of |-> r, ok |-> TRUE]
<1>1. m \in Relay!Message /\ m.kind = "cmd" /\ m.of = r /\ m.ok
  BY DEF Relay!Message
<1>2. Relay!Publish(m) /\ Relay!To(r, "waiting") /\ "waiting" \in Relay!Phases
  BY DEF Relay!SendCommand, Relay!Phases
<1> HIDE DEF m
<1>3. /\ relayInbox' \in [Workers -> Seq(Relay!Message)]
      /\ \A v \in Workers : \A i \in 1..Len(relayInbox'[v]) :
           \/ i \in 1..Len(relayInbox[v]) /\ relayInbox'[v][i] = relayInbox[v][i]
           \/ i = Len(relayInbox[v]) + 1 /\ relayInbox'[v][i] = m
  BY <1>1, <1>2, Published DEF RelayInv
<1>4. /\ relayReq' \in [OneRequest -> RelayRequests]
      /\ relayReq'[r].phase = "waiting" /\ relayReq'[r].reply = relayReq[r].reply
      /\ \A q \in OneRequest \ {r} : relayReq'[q] = relayReq[q]
  BY <1>2, PhaseChanged DEF RelayInv
<1>5. UNCHANGED <<relayLease, relayRuns, relayArmed, relayHanded, relayUp, relayLinked,
                  relayHandling, relayJob>>
  BY DEF Relay!SendCommand, Relay!service
<1>6. \A q \in OneRequest \ {r}, v \in Workers : Out(q, v)' => Out(q, v)
  BY <1>1, <1>3 DEF Out
<1>7. /\ \A v \in Workers : relayJob[r][v] = "no" /\ ~Out(r, v)
      /\ relayJob[r]["local"] = "no"
  BY DEF RelayInv, NotSent, Unsent, Relay!SendCommand
<1>8. Relay!TypeOK'
  BY <1>3, <1>4, <1>5, RelayTyped DEF RelayInv, Relay!TypeOK
<1>9. LeaseGates'
  BY <1>5 DEF RelayInv, LeaseGates
<1>10. NotSent'
  <2>1. ASSUME NEW q \in OneRequest \ {r} PROVE Unsent(q)'
    BY <1>4, <1>5, <1>6 DEF RelayInv, NotSent, Unsent
  <2>2. Unsent(r)'
    <3>1. relayReq'[r].phase = "waiting"
      BY <1>4
    <3>2. relayJob'[r]["local"] = "no"
      BY <1>5, <1>7
    <3> QED BY <3>1, <3>2 DEF Unsent
  <2> QED BY <2>1, <2>2 DEF NotSent
<1>11. HeardOnce'
  <2>1. ASSUME NEW v \in Workers PROVE Distinct(v)'
    <3>1. Distinct(v)
      BY DEF RelayInv, HeardOnce
    <3>2. \A i \in 1..Len(relayInbox[v]) : relayInbox[v][i].kind = "cmd" =>
            relayInbox[v][i].of # r
      BY <1>7 DEF Out
    <3>3. \A i \in 1..Len(relayInbox'[v]) :
            \/ i \in 1..Len(relayInbox[v]) /\ relayInbox'[v][i] = relayInbox[v][i]
            \/ i = Len(relayInbox[v]) + 1 /\ relayInbox'[v][i] = m
      BY <1>3
    <3> QED BY <1>1, <3>1, <3>2, <3>3 DEF Distinct
  <2> QED BY <1>5, <1>6, <1>7, <2>1 DEF RelayInv, HeardOnce
<1>12. TakenOnce'
  BY <1>5, <1>6, <1>7 DEF RelayInv, TakenOnce
<1>13. RepliesAreReal'
  <2>1. \A q \in OneRequest : Done(q)' <=> Done(q)
    BY <1>5 DEF Done
  <2>2. \A v \in Workers : \A i \in 1..Len(relayInbox[v]) : relayInbox[v][i].of \in OneRequest
    BY InboxTyped DEF RelayInv
  <2> QED BY <1>1, <1>3, <1>4, <2>1, <2>2 DEF RelayInv, RepliesAreReal
<1> QED BY <1>8, <1>9, <1>10, <1>11, <1>12, <1>13 DEF RelayInv

\* SendFails: nothing was sent.
LEMMA SendFailsRelays ==
  ASSUME CommandsAssumption, RelayInv, NEW r \in OneRequest, Relay!SendFails(r)
  PROVE  RelayInv'
<1>1. Relay!To(r, "local") /\ \E s \in {"start", "stop"} : Relay!Put(r, "local", s)
  BY DEF Relay!SendFails, Relay!ActLocally, Relay!FirstStep
<1>2. relayReq[r].reply = "none"
  BY DEF Relay!SendFails, RelayInv, NotSent, Unsent
<1> QED BY <1>1, <1>2, RequesterMoves DEF Relay!SendFails, Relay!service, Relay!network,
   Relay!Phases

\* Deadline: from here on no answer counts.
LEMMA DeadlineRelays ==
  ASSUME CommandsAssumption, RelayInv, NEW r \in OneRequest, Relay!Deadline(r)
  PROVE  RelayInv'
<1>1. Relay!To(r, "local") /\ \E s \in {"start", "stop"} : Relay!Put(r, "local", s)
  BY DEF Relay!Deadline, Relay!ActLocally, Relay!FirstStep
<1>2. relayReq[r].reply = "none"
  BY DEF Relay!Deadline
<1> QED BY <1>1, <1>2, RequesterMoves DEF Relay!Deadline, Relay!service, Relay!network,
   Relay!Phases

\* TakeReply: an answer that says yes is true.
LEMMA TakeReplyRelays ==
  ASSUME CommandsAssumption, RelayInv, NEW r \in OneRequest, Relay!TakeReply(r)
  PROVE  RelayInv'
<1>1. \/ Relay!To(r, "answered") /\ relayReq[r].reply = "ok"
      \/ Relay!To(r, "refused")
  BY DEF Relay!TakeReply
<1> QED BY <1>1, RequesterMoves DEF Relay!TakeReply, Relay!service, Relay!network, Relay!Phases

\* LocalDone: the end of a fallback.
LEMMA LocalDoneRelays ==
  ASSUME CommandsAssumption, RelayInv, NEW r \in OneRequest, Relay!LocalDone(r)
  PROVE  RelayInv'
<1> QED BY RequesterMoves DEF Relay!LocalDone, Relay!service, Relay!network, Relay!Phases

\* HearReply: what the requester keeps of a reply is what it says.
LEMMA HearReplyRelays ==
  ASSUME CommandsAssumption, RelayInv, NEW w \in Workers, Relay!HearReply(w)
  PROVE  RelayInv'
<1>1. /\ relayInbox' \in [Workers -> Seq(Relay!Message)]
      /\ 1 \in 1..Len(relayInbox[w]) /\ Relay!Next1(w) = relayInbox[w][1]
      /\ Relay!Next1(w) \in Relay!Message /\ Relay!Next1(w).kind = "reply"
      /\ \A i \in 1..Len(relayInbox'[w]) :
           i + 1 \in 1..Len(relayInbox[w]) /\ relayInbox'[w][i] = relayInbox[w][i + 1]
      /\ \A v \in Workers \ {w} : relayInbox'[v] = relayInbox[v]
  BY Popped DEF RelayInv, Relay!HearReply, Relay!LoopFree
<1>2. /\ \A q \in OneRequest, v \in Workers : Out(q, v)' => Out(q, v)
      /\ \A v \in Workers : Distinct(v)'
      /\ \A v \in Workers : \A i \in 1..Len(relayInbox'[v]) :
           /\ relayInbox'[v][i].of \in OneRequest
           /\ relayInbox'[v][i].kind = "reply" /\ relayInbox'[v][i].ok =>
                Done(relayInbox'[v][i].of)
  BY <1>1, FewerMessages
<1>3. UNCHANGED <<relayLease, relayRuns, relayArmed, relayHanded, relayUp, relayLinked,
                  relayHandling, relayJob>>
  BY DEF Relay!HearReply, Relay!service
<1> DEFINE r == Relay!Next1(w).of
           y == IF Relay!Next1(w).ok THEN "ok" ELSE "failed"
           x == [relayReq[r] EXCEPT !.reply = y]
<1>4. r \in OneRequest /\ y \in {"ok", "failed"} /\ (y = "ok" => Relay!Next1(w).ok)
  BY <1>1 DEF Relay!Message
<1>5. relayReq' = relayReq \/ relayReq' = [relayReq EXCEPT ![r] = x]
  BY DEF Relay!HearReply
<1>6. y = "ok" => Done(r)
  BY <1>1, <1>4 DEF RelayInv, RepliesAreReal
<1>7. x \in RelayRequests /\ x.phase = relayReq[r].phase /\ x.reply = y
  <2>1. relayReq[r] \in RelayRequests
    BY <1>4 DEF RelayInv, Relay!TypeOK, RelayRequests
  <2> HIDE DEF y, r
  <2> QED BY <2>1, <1>4 DEF RelayRequests
<1>8. relayReq[r].phase # "waiting" => relayReq' = relayReq
  BY DEF Relay!HearReply
<1> HIDE DEF r, y, x
<1>9. relayReq' \in [OneRequest -> RelayRequests]
  BY <1>4, <1>5, <1>7 DEF RelayInv, Relay!TypeOK, RelayRequests
<1>16. \A q \in OneRequest :
         \/ relayReq'[q] = relayReq[q]
         \/ /\ q = r /\ relayReq'[q].phase = relayReq[q].phase
            /\ relayReq'[q].reply = y /\ relayReq[q].phase = "waiting"
  <2>1. CASE relayReq' = relayReq
    BY <2>1
  <2>2. CASE relayReq' # relayReq
    <3>1. relayReq' = [relayReq EXCEPT ![r] = x] /\ relayReq[r].phase = "waiting"
      BY <2>2, <1>5, <1>8
    <3>2. \A q \in OneRequest : relayReq'[q] = IF q = r THEN x ELSE relayReq[q]
      BY <3>1 DEF RelayInv, Relay!TypeOK
    <3> QED BY <3>1, <3>2, <1>7
  <2> QED BY <2>1, <2>2
<1>10. Relay!TypeOK'
  BY <1>1, <1>3, <1>9, RelayTyped DEF RelayInv, Relay!TypeOK
<1>11. LeaseGates'
  BY <1>3 DEF RelayInv, LeaseGates
<1>12. NotSent'
  BY <1>2, <1>3, <1>16 DEF RelayInv, NotSent, Unsent
<1>13. HeardOnce'
  BY <1>2, <1>3 DEF RelayInv, HeardOnce
<1>14. TakenOnce'
  BY <1>2, <1>3 DEF RelayInv, TakenOnce
<1>15. RepliesAreReal'
  <2>1. \A q \in OneRequest : Done(q)' <=> Done(q)
    BY <1>3 DEF Done
  <2> QED BY <1>2, <1>4, <1>6, <1>16, <2>1 DEF RelayInv, RepliesAreReal
<1> QED BY <1>10, <1>11, <1>12, <1>13, <1>14, <1>15 DEF RelayInv

\* HearCommand: who has the process takes the command, and nobody else had.
LEMMA HearCommandRelays ==
  ASSUME CommandsAssumption, RelayInv, NEW w \in Workers, Relay!HearCommand(w)
  PROVE  RelayInv'
<1>1. /\ relayInbox' \in [Workers -> Seq(Relay!Message)]
      /\ 1 \in 1..Len(relayInbox[w]) /\ Relay!Next1(w) = relayInbox[w][1]
      /\ Relay!Next1(w) \in Relay!Message /\ Relay!Next1(w).kind = "cmd"
      /\ \A i \in 1..Len(relayInbox'[w]) :
           /\ i + 1 \in 1..Len(relayInbox[w]) /\ i + 1 # 1
           /\ relayInbox'[w][i] = relayInbox[w][i + 1]
      /\ \A v \in Workers \ {w} : relayInbox'[v] = relayInbox[v]
  BY Popped DEF RelayInv, Relay!HearCommand, Relay!LoopFree
<1>2. /\ \A q \in OneRequest, v \in Workers : Out(q, v)' => Out(q, v)
      /\ \A v \in Workers : Distinct(v)'
      /\ \A v \in Workers : \A i \in 1..Len(relayInbox'[v]) :
           /\ relayInbox'[v][i].of \in OneRequest
           /\ relayInbox'[v][i].kind = "reply" /\ relayInbox'[v][i].ok =>
                Done(relayInbox'[v][i].of)
  BY <1>1, FewerMessages
<1>3. UNCHANGED <<relayLease, relayRuns, relayArmed, relayHanded, relayUp, relayLinked, relayReq>>
  BY DEF Relay!HearCommand, Relay!service
<1>r. PICK r \in OneRequest : r = Relay!Next1(w).of
  BY <1>1 DEF Relay!Message
<1> DEFINE s == Relay!FirstStep(relayReq[r].action)
<1>4. r \in OneRequest /\ s \in {"start", "stop"} /\ Out(r, w)
  BY <1>1, <1>r DEF Relay!FirstStep, Out
<1>5. \/ UNCHANGED <<relayHandling, relayJob>>
      \/ /\ relayHandling' = [relayHandling EXCEPT ![w] = r]
         /\ Relay!Put(r, w, s) /\ relayRuns[w] /\ relayLease = w
  BY <1>r DEF Relay!HearCommand, Relay!OwnsLocally
<1>6. ~Out(r, w)'
  <2>1. ASSUME NEW i \in 1..Len(relayInbox'[w]), relayInbox'[w][i].kind = "cmd",
               relayInbox'[w][i].of = r
        PROVE  FALSE
    BY <1>1, <1>r, <2>1 DEF RelayInv, HeardOnce, Distinct
  <2> QED BY <2>1 DEF Out
<1> HIDE DEF s
<1>7. CASE UNCHANGED <<relayHandling, relayJob>>
  <2>1. Relay!TypeOK'
    BY <1>1, <1>3, <1>7, RelayTyped DEF RelayInv, Relay!TypeOK, RelayRequests
  <2>2. LeaseGates'
    BY <1>3 DEF RelayInv, LeaseGates
  <2>3. NotSent'
    BY <1>2, <1>3, <1>7 DEF RelayInv, NotSent, Unsent
  <2>4. HeardOnce'
    BY <1>2, <1>7 DEF RelayInv, HeardOnce
  <2>5. TakenOnce'
    BY <1>2, <1>3, <1>7 DEF RelayInv, TakenOnce
  <2>6. \A q \in OneRequest : Done(q)' <=> Done(q)
    BY <1>7 DEF Done
  <2>7. RepliesAreReal'
    BY <1>2, <1>3, <2>6 DEF RelayInv, RepliesAreReal
  <2> QED BY <2>1, <2>2, <2>3, <2>4, <2>5, <2>7 DEF RelayInv
<1>8. CASE /\ relayHandling' = [relayHandling EXCEPT ![w] = r]
           /\ Relay!Put(r, w, s) /\ relayRuns[w] /\ relayLease = w
  <2>1. /\ s \in Relay!Steps /\ w \in Relay!Ways /\ Workers \subseteq Relay!Ways
        /\ "local" \in Relay!Ways /\ "local" # w
    BY <1>4, CommandsAssumption DEF Relay!Steps, Relay!Ways
  <2>2. /\ relayJob' \in [OneRequest -> [Relay!Ways -> Relay!Steps]]
        /\ \A q \in OneRequest, j \in Relay!Ways :
             relayJob'[q][j] = IF q = r /\ j = w THEN s ELSE relayJob[q][j]
    BY <1>4, <1>8, <2>1, StepPut DEF RelayInv
  <2>3. relayHandling' \in [Workers -> OneRequest \cup {None}]
    BY <1>4, <1>8 DEF RelayInv, Relay!TypeOK
  <2>4. Relay!TypeOK'
    BY <1>1, <1>3, <2>2, <2>3, RelayTyped DEF RelayInv, Relay!TypeOK, RelayRequests
  <2>5. LeaseGates' /\ \A u \in Workers \ {w} : ~relayRuns'[u]
    BY <1>3, <1>8 DEF RelayInv, LeaseGates
  <2>6. /\ relayJob[r][w] = "no"
        /\ relayReq[r].phase \notin {"new", "asking", "publishing"}
    BY <1>4 DEF RelayInv, HeardOnce, NotSent, Unsent
  <2>7. NotSent'
    BY <1>2, <1>3, <2>1, <2>2, <2>6 DEF RelayInv, NotSent, Unsent
  <2>8. HeardOnce'
    BY <1>2, <1>6, <2>1, <2>2 DEF RelayInv, HeardOnce
  <2>9. TakenOnce'
    <3>1. r \notin relayHanded => \A u \in Workers \ {w} : relayJob[r][u] = "no"
      BY <1>4, <1>8, <2>6 DEF RelayInv, TakenOnce
    <3> QED BY <1>2, <1>3, <1>4, <2>1, <2>2, <2>5, <3>1 DEF RelayInv, TakenOnce
  <2>10. \A q \in OneRequest : Done(q) => Done(q)'
    BY <2>1, <2>2, <2>6 DEF Done
  <2>11. RepliesAreReal'
    BY <1>2, <1>3, <2>10 DEF RelayInv, RepliesAreReal
  <2> QED BY <2>4, <2>5, <2>7, <2>8, <2>9, <2>11 DEF RelayInv
<1> QED BY <1>5, <1>7, <1>8

\* HandlerReplies: yes, if the action ended well.
LEMMA HandlerRepliesRelays ==
  ASSUME CommandsAssumption, RelayInv, NEW w \in Workers, Relay!HandlerReplies(w)
  PROVE  RelayInv'
<1>1. (relayJob[relayHandling[w]][w] = "ok") \in BOOLEAN
  OBVIOUS
<1> QED BY <1>1, AnswerSent DEF Relay!HandlerReplies, Relay!service

\* HandlerGivesUp: no.
LEMMA HandlerGivesUpRelays ==
  ASSUME CommandsAssumption, RelayInv, NEW w \in Workers, Relay!HandlerGivesUp(w)
  PROVE  RelayInv'
<1> QED BY AnswerSent DEF Relay!HandlerGivesUp, Relay!service

\* ReplyFails: the requester hears nothing.
LEMMA ReplyFailsRelays ==
  ASSUME CommandsAssumption, RelayInv, NEW w \in Workers, Relay!ReplyFails(w)
  PROVE  RelayInv'
<1>1. /\ relayHandling' = [relayHandling EXCEPT ![w] = None]
      /\ UNCHANGED <<relayLease, relayRuns, relayArmed, relayHanded, relayUp, relayLinked,
                     relayInbox, relayJob, relayReq>>
  BY DEF Relay!ReplyFails, Relay!service
<1>2. Relay!TypeOK'
  BY <1>1, RelayTyped DEF RelayInv, Relay!TypeOK, RelayRequests
<1> QED BY <1>1, <1>2 DEF RelayInv, LeaseGates, NotSent, Unsent, HeardOnce, TakenOnce,
   RepliesAreReal, Done, Out, Distinct

\* LinkDrops: messages are lost.
LEMMA LinkDropsRelays ==
  ASSUME CommandsAssumption, RelayInv, NEW w \in Workers, Relay!LinkDrops(w)
  PROVE  RelayInv'
<1>1. /\ relayInbox' \in [Workers -> Seq(Relay!Message)]
      /\ relayInbox' = [relayInbox EXCEPT ![w] = <<>>]
      /\ \A v \in Workers : relayInbox'[v] = relayInbox[v] \/ relayInbox'[v] = <<>>
  BY DEF RelayInv, Relay!TypeOK, Relay!LinkDrops
<1>2. /\ \A q \in OneRequest, v \in Workers : Out(q, v)' => Out(q, v)
      /\ \A v \in Workers : Distinct(v)'
      /\ \A v \in Workers : \A i \in 1..Len(relayInbox'[v]) :
           /\ relayInbox'[v][i].of \in OneRequest
           /\ relayInbox'[v][i].kind = "reply" /\ relayInbox'[v][i].ok =>
                Done(relayInbox'[v][i].of)
  BY <1>1, FewerMessages
<1>3. /\ relayLinked' \subseteq relayUp
      /\ UNCHANGED <<relayLease, relayRuns, relayArmed, relayHanded, relayUp, relayHandling,
                     relayJob, relayReq>>
  BY DEF RelayInv, Relay!TypeOK, Relay!LinkDrops, Relay!service
<1>4. Relay!TypeOK'
  BY <1>1, <1>3, RelayTyped DEF RelayInv, Relay!TypeOK, RelayRequests
<1>5. LeaseGates' /\ NotSent' /\ HeardOnce' /\ TakenOnce'
  BY <1>2, <1>3 DEF RelayInv, LeaseGates, NotSent, Unsent, HeardOnce, TakenOnce
<1>6. \A q \in OneRequest : Done(q)' <=> Done(q)
  BY <1>3 DEF Done
<1>7. RepliesAreReal'
  BY <1>2, <1>3, <1>6 DEF RelayInv, RepliesAreReal
<1> QED BY <1>4, <1>5, <1>7 DEF RelayInv

\* Resubscribe: nothing comes back.
LEMMA ResubscribeRelays ==
  ASSUME CommandsAssumption, RelayInv, NEW w \in Workers, Relay!Resubscribe(w)
  PROVE  RelayInv'
<1>1. /\ relayLinked' = relayLinked \cup {w} /\ w \in relayUp
      /\ UNCHANGED <<relayLease, relayRuns, relayArmed, relayHanded, relayUp, relayInbox,
                     relayHandling, relayJob, relayReq>>
  BY DEF Relay!Resubscribe, Relay!service
<1>2. Relay!TypeOK'
  BY <1>1, RelayTyped DEF RelayInv, Relay!TypeOK, RelayRequests
<1>3. \A q \in OneRequest, v \in Workers : Out(q, v)' <=> Out(q, v)
  BY <1>1 DEF Out
<1>4. LeaseGates' /\ NotSent' /\ TakenOnce'
  BY <1>1, <1>3 DEF RelayInv, LeaseGates, NotSent, Unsent, TakenOnce
<1>5. HeardOnce'
  BY <1>1, <1>3 DEF RelayInv, HeardOnce, Distinct
<1>6. RepliesAreReal'
  BY <1>1 DEF RelayInv, RepliesAreReal, Done
<1> QED BY <1>2, <1>4, <1>5, <1>6 DEF RelayInv

\* DoStop: a stop starts no process.
LEMMA DoStopRelays ==
  ASSUME CommandsAssumption, RelayInv, NEW r \in OneRequest, NEW k \in Relay!Ways,
     Relay!DoStop(r, k)
  PROVE  RelayInv'
<1> DEFINE w == Relay!At(r, k)
<1>1. w \in Workers
  BY DEF Relay!DoStop, RelayInv, Relay!TypeOK
<1>2. /\ relayRuns' \in [Workers -> BOOLEAN] /\ relayArmed' \in [Workers -> BOOLEAN]
      /\ relayLease' \in Workers \cup {None} /\ LeaseGates'
      /\ \A u \in Workers : relayRuns'[u] => relayRuns[u]
  BY <1>1 DEF Relay!DoStop, RelayInv, Relay!TypeOK, LeaseGates
<1>3. PICK s \in {"start", "ok"} : Relay!Put(r, k, s)
  BY DEF Relay!DoStop
<1>4. s \in Relay!Steps
  BY DEF Relay!Steps
<1>5. /\ relayJob' \in [OneRequest -> [Relay!Ways -> Relay!Steps]]
      /\ \A q \in OneRequest, j \in Relay!Ways :
           relayJob'[q][j] = IF q = r /\ j = k THEN s ELSE relayJob[q][j]
  BY <1>3, <1>4, StepPut DEF RelayInv
<1>6. \A q \in OneRequest, j \in Relay!Ways :
        relayJob'[q][j] = relayJob[q][j] \/ relayJob[q][j] \notin {"no", "ok"}
  BY <1>5 DEF Relay!DoStop
<1>7. /\ relayHanded' = relayHanded /\ relayHanded \subseteq OneRequest
      /\ UNCHANGED <<relayUp, relayInbox, relayLinked, relayHandling, relayReq>>
  BY DEF Relay!DoStop, Relay!network, RelayInv, Relay!TypeOK
<1> QED BY <1>2, <1>5, <1>6, <1>7, ServiceMoves

\* DoStart: a start begins where the lease was free, and marks the commands on their way.
LEMMA DoStartRelays ==
  ASSUME CommandsAssumption, RelayInv, NEW r \in OneRequest, NEW k \in Relay!Ways,
     Relay!DoStart(r, k)
  PROVE  RelayInv'
<1> DEFINE w == Relay!At(r, k)
<1>1. w \in Workers /\ relayJob[r][k] = "start" /\ Relay!Put(r, k, "ok") /\ "ok" \in Relay!Steps
  BY DEF Relay!DoStart, RelayInv, Relay!TypeOK, Relay!Steps
<1>2. /\ relayJob' \in [OneRequest -> [Relay!Ways -> Relay!Steps]]
      /\ \A q \in OneRequest, j \in Relay!Ways :
           relayJob'[q][j] = IF q = r /\ j = k THEN "ok" ELSE relayJob[q][j]
  BY <1>1, StepPut DEF RelayInv
<1>3. \A q \in OneRequest, j \in Relay!Ways :
        relayJob'[q][j] = relayJob[q][j] \/ relayJob[q][j] \notin {"no", "ok"}
  BY <1>1, <1>2
<1>4. UNCHANGED <<relayUp, relayInbox, relayLinked, relayHandling, relayReq>>
  BY DEF Relay!DoStart, Relay!network
<1>5. CASE relayLease = None /\ Relay!Claim(w) /\ relayArmed' = relayArmed
  BY <1>1, <1>2, <1>3, <1>4, <1>5, ClaimMarks, ServiceMoves, CommandsAssumption
     DEF RelayInv, Relay!TypeOK
<1>6. CASE /\ UNCHANGED <<relayLease, relayRuns, relayHanded>>
           /\ relayArmed' = relayArmed \/ relayArmed' = [relayArmed EXCEPT ![w] = TRUE]
  <2>1. relayArmed' \in [Workers -> BOOLEAN] /\ relayHanded' \subseteq OneRequest
    BY <1>6 DEF RelayInv, Relay!TypeOK
  <2>2. LeaseGates' /\ relayLease' \in Workers \cup {None} /\ relayRuns' \in [Workers -> BOOLEAN]
    BY <1>6 DEF RelayInv, Relay!TypeOK, LeaseGates
  <2> QED BY <1>2, <1>3, <1>4, <1>6, <2>1, <2>2, ServiceMoves
<1> QED BY <1>5, <1>6 DEF Relay!DoStart, Relay!service

\* StartFails: the claim stays behind, without a process.
LEMMA StartFailsRelays ==
  ASSUME CommandsAssumption, RelayInv, NEW r \in OneRequest, NEW k \in Relay!Ways,
     Relay!StartFails(r, k)
  PROVE  RelayInv'
<1> DEFINE w == Relay!At(r, k)
<1>1. w \in Workers /\ relayJob[r][k] = "start" /\ Relay!Put(r, k,
   "error") /\ "error" \in Relay!Steps
  BY DEF Relay!StartFails, RelayInv, Relay!TypeOK, Relay!Steps
<1>2. /\ relayJob' \in [OneRequest -> [Relay!Ways -> Relay!Steps]]
      /\ \A q \in OneRequest, j \in Relay!Ways :
           relayJob'[q][j] = IF q = r /\ j = k THEN "error" ELSE relayJob[q][j]
  BY <1>1, StepPut DEF RelayInv
<1>3. \A q \in OneRequest, j \in Relay!Ways :
        relayJob'[q][j] = relayJob[q][j] \/ relayJob[q][j] \notin {"no", "ok"}
  BY <1>1, <1>2
<1>4. /\ UNCHANGED <<relayUp, relayInbox, relayLinked, relayHandling, relayReq>>
      /\ UNCHANGED <<relayRuns, relayArmed, relayHanded>> /\ relayLease = None /\ relayLease' = w
  BY DEF Relay!StartFails, Relay!network
<1>5. LeaseGates'
  BY <1>4, CommandsAssumption DEF RelayInv, LeaseGates
<1> QED BY <1>1, <1>2, <1>3, <1>4, <1>5, ServiceMoves DEF RelayInv, Relay!TypeOK

\* RetryFires: a declined start is a claim too.
LEMMA RetryFiresRelays ==
  ASSUME CommandsAssumption, RelayInv, NEW w \in Workers, Relay!RetryFires(w)
  PROVE  RelayInv'
<1>1. /\ relayLease = None /\ Relay!Claim(w) /\ relayArmed' = [relayArmed EXCEPT ![w] = FALSE]
      /\ relayJob' = relayJob
      /\ UNCHANGED <<relayUp, relayInbox, relayLinked, relayHandling, relayReq>>
  BY DEF Relay!RetryFires, Relay!network
<1>2. /\ relayArmed' \in [Workers -> BOOLEAN]
      /\ relayJob' \in [OneRequest -> [Relay!Ways -> Relay!Steps]]
  BY <1>1 DEF RelayInv, Relay!TypeOK
<1> QED BY <1>1, <1>2, ClaimMarks, ServiceMoves, CommandsAssumption

\* Exits: the process is gone.
LEMMA ExitsRelays ==
  ASSUME CommandsAssumption, RelayInv, NEW w \in Workers, Relay!Exits(w)
  PROVE  RelayInv'
<1>1. /\ relayRuns' = [relayRuns EXCEPT ![w] = FALSE]
      /\ relayLease' = (IF relayLease = w THEN None ELSE relayLease)
      /\ relayArmed' = [relayArmed EXCEPT ![w] = TRUE]
      /\ relayJob' = relayJob /\ relayHanded' = relayHanded
      /\ UNCHANGED <<relayUp, relayInbox, relayLinked, relayHandling, relayReq>>
  BY DEF Relay!Exits, Relay!network
<1>2. /\ relayRuns' \in [Workers -> BOOLEAN] /\ relayArmed' \in [Workers -> BOOLEAN]
      /\ relayLease' \in Workers \cup {None} /\ LeaseGates'
      /\ \A u \in Workers : relayRuns'[u] => relayRuns[u]
      /\ relayJob' \in [OneRequest -> [Relay!Ways -> Relay!Steps]]
      /\ relayHanded' \subseteq OneRequest
  BY <1>1 DEF RelayInv, Relay!TypeOK, LeaseGates
<1> QED BY <1>1, <1>2, ServiceMoves

\* WorkerDies: process, messages and requests of the worker are gone.
LEMMA WorkerDiesRelays ==
  ASSUME CommandsAssumption, RelayInv, NEW w \in Workers, Relay!WorkerDies(w)
  PROVE  RelayInv'
<1>1. /\ relayInbox' \in [Workers -> Seq(Relay!Message)]
      /\ relayInbox' = [relayInbox EXCEPT ![w] = <<>>]
      /\ \A v \in Workers : relayInbox'[v] = relayInbox[v] \/ relayInbox'[v] = <<>>
  BY DEF RelayInv, Relay!TypeOK, Relay!WorkerDies
<1>2. /\ \A q \in OneRequest, v \in Workers : Out(q, v)' => Out(q, v)
      /\ \A v \in Workers : Distinct(v)'
      /\ \A v \in Workers : \A i \in 1..Len(relayInbox'[v]) :
           /\ relayInbox'[v][i].of \in OneRequest
           /\ relayInbox'[v][i].kind = "reply" /\ relayInbox'[v][i].ok =>
                Done(relayInbox'[v][i].of)
  BY <1>1, FewerMessages
<1>3. UNCHANGED <<relayLease, relayJob, relayHanded>>
  BY DEF Relay!WorkerDies
<1>4. /\ relayRuns' \in [Workers -> BOOLEAN] /\ relayArmed' \in [Workers -> BOOLEAN]
      /\ \A u \in Workers : relayRuns'[u] => relayRuns[u]
      /\ relayUp' \subseteq Workers /\ relayLinked' \subseteq relayUp'
      /\ relayHandling' \in [Workers -> OneRequest \cup {None}]
  BY DEF RelayInv, Relay!TypeOK, Relay!WorkerDies
<1>5. /\ relayReq' \in [OneRequest -> RelayRequests]
      /\ \A q \in OneRequest : \/ relayReq'[q] = relayReq[q]
                              \/ /\ relayReq'[q].phase = "cut"
                                 /\ relayReq'[q].reply = relayReq[q].reply
  <2> SUFFICES ASSUME NEW q \in OneRequest
               PROVE  /\ relayReq'[q] \in RelayRequests
                      /\ \/ relayReq'[q] = relayReq[q]
                         \/ /\ relayReq'[q].phase = "cut"
                            /\ relayReq'[q].reply = relayReq[q].reply
    BY DEF Relay!WorkerDies
  <2>1. relayReq[q] \in RelayRequests
    BY DEF RelayInv, Relay!TypeOK, RelayRequests
  <2>2. relayReq'[q] \in {relayReq[q], [relayReq[q] EXCEPT !.phase = "cut"]}
    BY DEF Relay!WorkerDies
  <2>3. "cut" \in Relay!Phases
    BY DEF Relay!Phases
  <2> QED BY <2>1, <2>2, <2>3 DEF RelayRequests
<1>6. Relay!TypeOK'
  BY <1>1, <1>3, <1>4, <1>5, RelayTyped DEF RelayInv, Relay!TypeOK
<1>7. LeaseGates' /\ NotSent' /\ HeardOnce' /\ TakenOnce'
  BY <1>2, <1>3, <1>4, <1>5 DEF RelayInv, LeaseGates, NotSent, Unsent, HeardOnce, TakenOnce
<1>8. \A q \in OneRequest : Done(q)' <=> Done(q)
  BY <1>3 DEF Done
<1>9. RepliesAreReal'
  BY <1>2, <1>3, <1>5, <1>8 DEF RelayInv, RepliesAreReal
<1> QED BY <1>6, <1>7, <1>9 DEF RelayInv

\* LeaseExpires: the lease of nobody's process.
LEMMA LeaseExpiresRelays ==
  ASSUME CommandsAssumption, RelayInv, Relay!LeaseExpires
  PROVE  RelayInv'
<1>1. /\ relayLease' = None /\ relayLease # None /\ ~relayRuns[relayLease]
      /\ relayJob' = relayJob /\ relayHanded' = relayHanded /\ relayRuns' = relayRuns
      /\ relayArmed' = relayArmed
      /\ UNCHANGED <<relayUp, relayInbox, relayLinked, relayHandling, relayReq>>
  BY DEF Relay!LeaseExpires, Relay!network
<1>2. /\ relayRuns' \in [Workers -> BOOLEAN] /\ relayArmed' \in [Workers -> BOOLEAN]
      /\ relayLease' \in Workers \cup {None} /\ LeaseGates'
      /\ relayJob' \in [OneRequest -> [Relay!Ways -> Relay!Steps]]
      /\ relayHanded' \subseteq OneRequest
  BY <1>1 DEF RelayInv, Relay!TypeOK, LeaseGates
<1> QED BY <1>1, <1>2, ServiceMoves

-----------------------------------------------------------------------------
(* The record of installs *)

\* A request that has come has a worker.
Placed == \A r \in Requests : jobsReq[r].phase # "new" => jobsReq[r].at \in Workers

JobsInv == Jobs!TypeOK /\ Placed

JobRequests == [kind : Jobs!Kinds, at : Workers \cup {None}, phase : Jobs!Phases]

\* A request moves to another phase.
LEMMA JobPhase ==
  ASSUME JobsInv, NEW r \in Requests, NEW p \in Jobs!Phases \ {"new"}, Jobs!To(r, p),
         jobsReq[r].phase # "new"
  PROVE  jobsReq' \in [Requests -> JobRequests] /\ Placed'
<1> DEFINE x == [jobsReq[r] EXCEPT !.phase = p]
<1>1. jobsReq[r] \in JobRequests /\ jobsReq[r].at \in Workers
  BY DEF JobsInv, Placed, Jobs!TypeOK, JobRequests
<1>2. x \in JobRequests /\ x.at \in Workers
  BY <1>1 DEF JobRequests
<1>3. jobsReq' = [jobsReq EXCEPT ![r] = x]
  BY DEF Jobs!To
<1> HIDE DEF x
<1> QED BY <1>2, <1>3 DEF JobsInv, Placed, Jobs!TypeOK, JobRequests

\* A request comes to a worker.
LEMMA JobComes ==
  ASSUME JobsInv, NEW r \in Requests, NEW w \in Workers, NEW k \in Jobs!Kinds,
         NEW p \in Jobs!Phases,
         jobsReq' = [jobsReq EXCEPT ![r] = [kind |-> k, at |-> w, phase |-> p]]
  PROVE  jobsReq' \in [Requests -> JobRequests] /\ Placed' /\ jobsReq'[r].phase = p
<1> DEFINE x == [kind |-> k, at |-> w, phase |-> p]
<1>1. x \in JobRequests /\ x.at = w /\ x.phase = p
  BY DEF JobRequests
<1> HIDE DEF x
<1>2. jobsReq' = [jobsReq EXCEPT ![r] = x]
  BY DEF x
<1> QED BY <1>1, <1>2 DEF JobsInv, Placed, Jobs!TypeOK, JobRequests

JobRecordsTyped ==
  /\ jobsJob \in [Workers -> Jobs!Statuses] /\ jobsMirror \in Jobs!Statuses
  /\ jobsSending \subseteq Jobs!Message

PanelTyped ==
  /\ jobsPushes \subseteq Jobs!Push /\ jobsLinked \in BOOLEAN /\ jobsInbox \in Seq(Jobs!Push)
  /\ jobsPanel \in [phase : {"new", "replaying", "open", "closed"}, at : Workers \cup {None},
                    shows : Jobs!Statuses]
  /\ jobsDue \subseteq Jobs!Push

RestTyped ==
  /\ jobsLoaded \subseteq Workers /\ jobsWanted \in BOOLEAN /\ jobsFaults \in 0..1

\* The types, in groups.
LEMMA JobTypes ==
  /\ Jobs!TypeOK <=> /\ JobRecordsTyped /\ PanelTyped /\ RestTyped
                     /\ jobsReq \in [Requests -> JobRequests]
  /\ Jobs!TypeOK' <=> /\ JobRecordsTyped' /\ PanelTyped' /\ RestTyped'
                      /\ jobsReq' \in [Requests -> JobRequests]
BY DEF Jobs!TypeOK, JobRecordsTyped, PanelTyped, RestTyped, JobRequests

\* Mark writes one status, and schedules what tells others of it.
LEMMA Marked ==
  ASSUME JobsInv, NEW r \in Requests, NEW w \in Workers, NEW s \in Jobs!Statuses,
         Jobs!Mark(r, w, s)
  PROVE  JobRecordsTyped' /\ PanelTyped'
<1>1. /\ [at |-> w, by |-> r, op |-> s] \in Jobs!Message
      /\ [at |-> w, by |-> r, status |-> s] \in Jobs!Push
  BY DEF Jobs!Message, Jobs!Push
<1>2. JobRecordsTyped /\ PanelTyped
  BY JobTypes DEF JobsInv
<1> QED BY <1>1, <1>2 DEF Jobs!Mark, JobRecordsTyped, PanelTyped

\* Install keeps the types.
LEMMA InstallTyped ==
  ASSUME CommandsAssumption, JobsInv, NEW r \in Requests, NEW w \in Workers, Jobs!Install(r, w)
  PROVE  JobsInv'
<1>0. JobRecordsTyped /\ PanelTyped /\ RestTyped /\ jobsReq \in [Requests -> JobRequests]
  BY JobTypes DEF JobsInv
<1>1. PICK p \in Jobs!Phases :
        jobsReq' = [jobsReq EXCEPT ![r] = [kind |-> "install", at |-> w, phase |-> p]]
  BY DEF Jobs!Install, Jobs!Phases
<1>2. "install" \in Jobs!Kinds
  BY DEF Jobs!Kinds
<1>3. jobsReq' \in [Requests -> JobRequests] /\ Placed'
  BY <1>1, <1>2, JobComes
<1>4. \/ \E s \in Jobs!Statuses : Jobs!Mark(r, w, s)
      \/ UNCHANGED <<Jobs!records, Jobs!live>>
  BY DEF Jobs!Install, Jobs!Statuses
<1>5. JobRecordsTyped' /\ PanelTyped'
  BY <1>0, <1>4, Marked DEF Jobs!records, Jobs!live, JobRecordsTyped, PanelTyped
<1>6. RestTyped'
  BY <1>0, SMT DEF Jobs!Install, RestTyped, Jobs!Fault
<1> QED BY <1>3, <1>5, <1>6, JobTypes DEF JobsInv

\* Update keeps the types.
LEMMA UpdateTyped ==
  ASSUME CommandsAssumption, JobsInv, NEW r \in Requests, NEW w \in Workers, Jobs!Update(r, w)
  PROVE  JobsInv'
<1>0. JobRecordsTyped /\ PanelTyped /\ RestTyped /\ jobsReq \in [Requests -> JobRequests]
  BY JobTypes DEF JobsInv
<1>1. PICK p \in Jobs!Phases :
        jobsReq' = [jobsReq EXCEPT ![r] = [kind |-> "update", at |-> w, phase |-> p]]
  BY DEF Jobs!Update, Jobs!Phases
<1>2. "update" \in Jobs!Kinds
  BY DEF Jobs!Kinds
<1>3. jobsReq' \in [Requests -> JobRequests] /\ Placed'
  BY <1>1, <1>2, JobComes
<1>4. \/ \E s \in Jobs!Statuses : Jobs!Mark(r, w, s)
      \/ UNCHANGED <<Jobs!records, Jobs!live>>
  BY DEF Jobs!Update, Jobs!Statuses
<1>5. JobRecordsTyped' /\ PanelTyped'
  BY <1>0, <1>4, Marked DEF Jobs!records, Jobs!live, JobRecordsTyped, PanelTyped
<1>6. RestTyped'
  BY <1>0, SMT DEF Jobs!Update, RestTyped, Jobs!Fault
<1> QED BY <1>3, <1>5, <1>6, JobTypes DEF JobsInv

\* Pin keeps the types.
LEMMA PinTyped ==
  ASSUME CommandsAssumption, JobsInv, NEW r \in Requests, NEW w \in Workers, Jobs!Pin(r, w)
  PROVE  JobsInv'
<1>0. JobRecordsTyped /\ PanelTyped /\ RestTyped /\ jobsReq \in [Requests -> JobRequests]
  BY JobTypes DEF JobsInv
<1>1. PICK p \in Jobs!Phases :
        jobsReq' = [jobsReq EXCEPT ![r] = [kind |-> "version", at |-> w, phase |-> p]]
  BY DEF Jobs!Pin, Jobs!Phases
<1>2. "version" \in Jobs!Kinds
  BY DEF Jobs!Kinds
<1>3. jobsReq' \in [Requests -> JobRequests] /\ Placed'
  BY <1>1, <1>2, JobComes
<1>4. JobRecordsTyped'
  BY <1>0, SMT DEF Jobs!Pin, JobRecordsTyped, Jobs!records, Jobs!SendAll, Jobs!Statuses,
     Jobs!Message
<1>5. PanelTyped'
  BY <1>0, SMT DEF Jobs!Pin, PanelTyped, JobRecordsTyped, Jobs!live, Jobs!SendAll, Jobs!Push,
     Jobs!Answer
<1>6. RestTyped'
  BY <1>0, SMT DEF Jobs!Pin, RestTyped, Jobs!Fault
<1> QED BY <1>3, <1>4, <1>5, <1>6, JobTypes DEF JobsInv

\* Uninstall keeps the types.
LEMMA UninstallTyped ==
  ASSUME CommandsAssumption, JobsInv, NEW r \in Requests, NEW w \in Workers, Jobs!Uninstall(r, w)
  PROVE  JobsInv'
<1>0. JobRecordsTyped /\ PanelTyped /\ RestTyped /\ jobsReq \in [Requests -> JobRequests]
  BY JobTypes DEF JobsInv
<1>1. PICK p \in Jobs!Phases :
        jobsReq' = [jobsReq EXCEPT ![r] = [kind |-> "uninstall", at |-> w, phase |-> p]]
  BY DEF Jobs!Uninstall, Jobs!Phases
<1>2. "uninstall" \in Jobs!Kinds
  BY DEF Jobs!Kinds
<1>3. jobsReq' \in [Requests -> JobRequests] /\ Placed'
  BY <1>1, <1>2, JobComes
<1>4. JobRecordsTyped'
  BY <1>0, SMT DEF Jobs!Uninstall, JobRecordsTyped, Jobs!records, Jobs!SendAll, Jobs!Statuses,
     Jobs!Message
<1>5. PanelTyped'
  BY <1>0, SMT DEF Jobs!Uninstall, PanelTyped, JobRecordsTyped, Jobs!live, Jobs!SendAll,
     Jobs!Push, Jobs!Answer
<1>6. RestTyped'
  BY <1>0, SMT DEF Jobs!Uninstall, RestTyped, Jobs!Fault
<1> QED BY <1>3, <1>4, <1>5, <1>6, JobTypes DEF JobsInv

\* GuardReads keeps the types.
LEMMA GuardReadsTyped ==
  ASSUME CommandsAssumption, JobsInv, NEW r \in Requests, Jobs!GuardReads(r)
  PROVE  JobsInv'
<1>0. JobRecordsTyped /\ PanelTyped /\ RestTyped /\ jobsReq \in [Requests -> JobRequests]
  BY JobTypes DEF JobsInv
<1>1. \E p \in Jobs!Phases \ {"new"} : Jobs!To(r, p)
  BY DEF Jobs!GuardReads, Jobs!Phases
<1>2. jobsReq[r].phase # "new" /\ jobsReq[r].at \in Workers
  BY DEF Jobs!GuardReads, JobsInv, Placed
<1>3. jobsReq' \in [Requests -> JobRequests] /\ Placed'
  BY <1>1, <1>2, JobPhase
<1>4. \/ \E s \in Jobs!Statuses : Jobs!Mark(r, jobsReq[r].at, s)
      \/ UNCHANGED <<Jobs!records, Jobs!live>>
  BY DEF Jobs!GuardReads, Jobs!Statuses
<1>5. JobRecordsTyped' /\ PanelTyped'
  BY <1>0, <1>2, <1>4, Marked DEF Jobs!records, Jobs!live, JobRecordsTyped, PanelTyped
<1>6. RestTyped'
  BY <1>0, <1>2, SMT DEF Jobs!GuardReads, RestTyped, Jobs!Fault
<1> QED BY <1>3, <1>5, <1>6, JobTypes DEF JobsInv

\* GuardReadFails keeps the types.
LEMMA GuardReadFailsTyped ==
  ASSUME CommandsAssumption, JobsInv, NEW r \in Requests, Jobs!GuardReadFails(r)
  PROVE  JobsInv'
<1>0. JobRecordsTyped /\ PanelTyped /\ RestTyped /\ jobsReq \in [Requests -> JobRequests]
  BY JobTypes DEF JobsInv
<1>1. \E p \in Jobs!Phases \ {"new"} : Jobs!To(r, p)
  BY DEF Jobs!GuardReadFails, Jobs!Phases
<1>2. jobsReq[r].phase # "new" /\ jobsReq[r].at \in Workers
  BY DEF Jobs!GuardReadFails, JobsInv, Placed
<1>3. jobsReq' \in [Requests -> JobRequests] /\ Placed'
  BY <1>1, <1>2, JobPhase
<1>4. \/ \E s \in Jobs!Statuses : Jobs!Mark(r, jobsReq[r].at, s)
      \/ UNCHANGED <<Jobs!records, Jobs!live>>
  BY DEF Jobs!GuardReadFails, Jobs!Statuses
<1>5. JobRecordsTyped' /\ PanelTyped'
  BY <1>0, <1>2, <1>4, Marked DEF Jobs!records, Jobs!live, JobRecordsTyped, PanelTyped
<1>6. RestTyped'
  BY <1>0, <1>2, SMT DEF Jobs!GuardReadFails, RestTyped, Jobs!Fault
<1> QED BY <1>3, <1>5, <1>6, JobTypes DEF JobsInv

\* PinWritten keeps the types.
LEMMA PinWrittenTyped ==
  ASSUME CommandsAssumption, JobsInv, NEW r \in Requests, Jobs!PinWritten(r)
  PROVE  JobsInv'
<1>0. JobRecordsTyped /\ PanelTyped /\ RestTyped /\ jobsReq \in [Requests -> JobRequests]
  BY JobTypes DEF JobsInv
<1>1. \E p \in Jobs!Phases \ {"new"} : Jobs!To(r, p)
  BY DEF Jobs!PinWritten, Jobs!Phases
<1>2. jobsReq[r].phase # "new" /\ jobsReq[r].at \in Workers
  BY DEF Jobs!PinWritten, JobsInv, Placed
<1>3. jobsReq' \in [Requests -> JobRequests] /\ Placed'
  BY <1>1, <1>2, JobPhase
<1>4. \/ \E s \in Jobs!Statuses : Jobs!Mark(r, jobsReq[r].at, s)
      \/ UNCHANGED <<Jobs!records, Jobs!live>>
  BY DEF Jobs!PinWritten, Jobs!Statuses
<1>5. JobRecordsTyped' /\ PanelTyped'
  BY <1>0, <1>2, <1>4, Marked DEF Jobs!records, Jobs!live, JobRecordsTyped, PanelTyped
<1>6. RestTyped'
  BY <1>0, <1>2, SMT DEF Jobs!PinWritten, RestTyped, Jobs!Fault
<1> QED BY <1>3, <1>5, <1>6, JobTypes DEF JobsInv

\* PinRefused keeps the types.
LEMMA PinRefusedTyped ==
  ASSUME CommandsAssumption, JobsInv, NEW r \in Requests, Jobs!PinRefused(r)
  PROVE  JobsInv'
<1>0. JobRecordsTyped /\ PanelTyped /\ RestTyped /\ jobsReq \in [Requests -> JobRequests]
  BY JobTypes DEF JobsInv
<1>1. \E p \in Jobs!Phases \ {"new"} : Jobs!To(r, p)
  BY DEF Jobs!PinRefused, Jobs!Phases
<1>2. jobsReq[r].phase # "new" /\ jobsReq[r].at \in Workers
  BY DEF Jobs!PinRefused, JobsInv, Placed
<1>3. jobsReq' \in [Requests -> JobRequests] /\ Placed'
  BY <1>1, <1>2, JobPhase
<1>4. JobRecordsTyped'
  BY <1>0, <1>2, SMT DEF Jobs!PinRefused, JobRecordsTyped, Jobs!records, Jobs!SendAll,
     Jobs!Statuses, Jobs!Message
<1>5. PanelTyped'
  BY <1>0, <1>2, SMT DEF Jobs!PinRefused, PanelTyped, JobRecordsTyped, Jobs!live, Jobs!SendAll,
     Jobs!Push, Jobs!Answer
<1>6. RestTyped'
  BY <1>0, <1>2, SMT DEF Jobs!PinRefused, RestTyped, Jobs!Fault
<1> QED BY <1>3, <1>4, <1>5, <1>6, JobTypes DEF JobsInv

\* Uninstalled keeps the types.
LEMMA UninstalledTyped ==
  ASSUME CommandsAssumption, JobsInv, NEW r \in Requests, Jobs!Uninstalled(r)
  PROVE  JobsInv'
<1>0. JobRecordsTyped /\ PanelTyped /\ RestTyped /\ jobsReq \in [Requests -> JobRequests]
  BY JobTypes DEF JobsInv
<1>1. \E p \in Jobs!Phases \ {"new"} : Jobs!To(r, p)
  BY DEF Jobs!Uninstalled, Jobs!Phases
<1>2. jobsReq[r].phase # "new" /\ jobsReq[r].at \in Workers
  BY DEF Jobs!Uninstalled, JobsInv, Placed
<1>3. jobsReq' \in [Requests -> JobRequests] /\ Placed'
  BY <1>1, <1>2, JobPhase
<1>4. JobRecordsTyped'
  BY <1>0, <1>2, SMT DEF Jobs!Uninstalled, JobRecordsTyped, Jobs!records, Jobs!SendAll,
     Jobs!Statuses, Jobs!Message
<1>5. PanelTyped'
  BY <1>0, <1>2, SMT DEF Jobs!Uninstalled, PanelTyped, JobRecordsTyped, Jobs!live,
     Jobs!SendAll, Jobs!Push, Jobs!Answer
<1>6. RestTyped'
  BY <1>0, <1>2 DEF Jobs!Uninstalled, RestTyped, Jobs!live
<1> QED BY <1>3, <1>4, <1>5, <1>6, JobTypes DEF JobsInv

\* Installs keeps the types.
LEMMA InstallsTyped ==
  ASSUME CommandsAssumption, JobsInv, NEW r \in Requests, Jobs!Installs(r)
  PROVE  JobsInv'
<1>0. JobRecordsTyped /\ PanelTyped /\ RestTyped /\ jobsReq \in [Requests -> JobRequests]
  BY JobTypes DEF JobsInv
<1>1. \E p \in Jobs!Phases \ {"new"} : Jobs!To(r, p)
  BY DEF Jobs!Installs, Jobs!Phases
<1>2. jobsReq[r].phase # "new" /\ jobsReq[r].at \in Workers
  BY DEF Jobs!Installs, JobsInv, Placed
<1>3. jobsReq' \in [Requests -> JobRequests] /\ Placed'
  BY <1>1, <1>2, JobPhase
<1>4. \/ \E s \in Jobs!Statuses : Jobs!Mark(r, jobsReq[r].at, s)
      \/ UNCHANGED <<Jobs!records, Jobs!live>>
  BY DEF Jobs!Installs, Jobs!Statuses
<1>5. JobRecordsTyped' /\ PanelTyped'
  BY <1>0, <1>2, <1>4, Marked DEF Jobs!records, Jobs!live, JobRecordsTyped, PanelTyped
<1>6. RestTyped'
  BY <1>0, <1>2, SMT DEF Jobs!Installs, RestTyped, Jobs!Fault
<1> QED BY <1>3, <1>5, <1>6, JobTypes DEF JobsInv

\* TaskFails keeps the types.
LEMMA TaskFailsTyped ==
  ASSUME CommandsAssumption, JobsInv, NEW r \in Requests, Jobs!TaskFails(r)
  PROVE  JobsInv'
<1>0. JobRecordsTyped /\ PanelTyped /\ RestTyped /\ jobsReq \in [Requests -> JobRequests]
  BY JobTypes DEF JobsInv
<1>1. \E p \in Jobs!Phases \ {"new"} : Jobs!To(r, p)
  BY DEF Jobs!TaskFails, Jobs!Phases
<1>2. jobsReq[r].phase # "new" /\ jobsReq[r].at \in Workers
  BY DEF Jobs!TaskFails, JobsInv, Placed
<1>3. jobsReq' \in [Requests -> JobRequests] /\ Placed'
  BY <1>1, <1>2, JobPhase
<1>4. \/ \E s \in Jobs!Statuses : Jobs!Mark(r, jobsReq[r].at, s)
      \/ UNCHANGED <<Jobs!records, Jobs!live>>
  BY DEF Jobs!TaskFails, Jobs!Statuses
<1>5. JobRecordsTyped' /\ PanelTyped'
  BY <1>0, <1>2, <1>4, Marked DEF Jobs!records, Jobs!live, JobRecordsTyped, PanelTyped
<1>6. RestTyped'
  BY <1>0, <1>2, SMT DEF Jobs!TaskFails, RestTyped, Jobs!Fault
<1> QED BY <1>3, <1>5, <1>6, JobTypes DEF JobsInv

\* UpdateReturnsEarly keeps the types.
LEMMA UpdateReturnsEarlyTyped ==
  ASSUME CommandsAssumption, JobsInv, NEW r \in Requests, Jobs!UpdateReturnsEarly(r)
  PROVE  JobsInv'
<1>0. JobRecordsTyped /\ PanelTyped /\ RestTyped /\ jobsReq \in [Requests -> JobRequests]
  BY JobTypes DEF JobsInv
<1>1. \E p \in Jobs!Phases \ {"new"} : Jobs!To(r, p)
  BY DEF Jobs!UpdateReturnsEarly, Jobs!Phases
<1>2. jobsReq[r].phase # "new" /\ jobsReq[r].at \in Workers
  BY DEF Jobs!UpdateReturnsEarly, JobsInv, Placed
<1>3. jobsReq' \in [Requests -> JobRequests] /\ Placed'
  BY <1>1, <1>2, JobPhase
<1>4. \/ \E s \in Jobs!Statuses : Jobs!Mark(r, jobsReq[r].at, s)
      \/ UNCHANGED <<Jobs!records, Jobs!live>>
  BY DEF Jobs!UpdateReturnsEarly, Jobs!Statuses
<1>5. JobRecordsTyped' /\ PanelTyped'
  BY <1>0, <1>2, <1>4, Marked DEF Jobs!records, Jobs!live, JobRecordsTyped, PanelTyped
<1>6. RestTyped'
  BY <1>0, <1>2, SMT DEF Jobs!UpdateReturnsEarly, RestTyped, Jobs!Fault
<1> QED BY <1>3, <1>5, <1>6, JobTypes DEF JobsInv

\* MirrorWrite keeps the types.
LEMMA MirrorWriteTyped ==
  ASSUME CommandsAssumption, JobsInv, NEW m \in jobsSending, Jobs!MirrorWrite(m)
  PROVE  JobsInv'
<1>0. JobRecordsTyped /\ PanelTyped /\ RestTyped /\ jobsReq \in [Requests -> JobRequests]
  BY JobTypes DEF JobsInv
<1>3. jobsReq' \in [Requests -> JobRequests] /\ Placed'
  BY <1>0 DEF Jobs!MirrorWrite, JobsInv, Placed
<1>4. JobRecordsTyped'
  BY <1>0, SMT DEF Jobs!MirrorWrite, JobRecordsTyped, Jobs!records, Jobs!SendAll,
     Jobs!Statuses, Jobs!Message
<1>5. PanelTyped'
  BY <1>0, SMT DEF Jobs!MirrorWrite, PanelTyped, JobRecordsTyped, Jobs!live, Jobs!SendAll,
     Jobs!Push, Jobs!Answer
<1>6. RestTyped'
  BY <1>0, SMT DEF Jobs!MirrorWrite, RestTyped, Jobs!Fault
<1> QED BY <1>3, <1>4, <1>5, <1>6, JobTypes DEF JobsInv

\* MirrorWriteFails keeps the types.
LEMMA MirrorWriteFailsTyped ==
  ASSUME CommandsAssumption, JobsInv, NEW m \in jobsSending, Jobs!MirrorWriteFails(m)
  PROVE  JobsInv'
<1>0. JobRecordsTyped /\ PanelTyped /\ RestTyped /\ jobsReq \in [Requests -> JobRequests]
  BY JobTypes DEF JobsInv
<1>3. jobsReq' \in [Requests -> JobRequests] /\ Placed'
  BY <1>0 DEF Jobs!MirrorWriteFails, JobsInv, Placed
<1>4. JobRecordsTyped'
  BY <1>0, SMT DEF Jobs!MirrorWriteFails, JobRecordsTyped, Jobs!records, Jobs!SendAll,
     Jobs!Statuses, Jobs!Message
<1>5. PanelTyped'
  BY <1>0, SMT DEF Jobs!MirrorWriteFails, PanelTyped, JobRecordsTyped, Jobs!live, Jobs!SendAll,
     Jobs!Push, Jobs!Answer
<1>6. RestTyped'
  BY <1>0, SMT DEF Jobs!MirrorWriteFails, RestTyped, Jobs!Fault
<1> QED BY <1>3, <1>4, <1>5, <1>6, JobTypes DEF JobsInv

\* MirrorExpires keeps the types.
LEMMA MirrorExpiresTyped ==
  ASSUME CommandsAssumption, JobsInv, Jobs!MirrorExpires
  PROVE  JobsInv'
<1>0. JobRecordsTyped /\ PanelTyped /\ RestTyped /\ jobsReq \in [Requests -> JobRequests]
  BY JobTypes DEF JobsInv
<1>3. jobsReq' \in [Requests -> JobRequests] /\ Placed'
  BY <1>0 DEF Jobs!MirrorExpires, JobsInv, Placed
<1>4. JobRecordsTyped'
  BY <1>0, SMT DEF Jobs!MirrorExpires, JobRecordsTyped, Jobs!records, Jobs!SendAll,
     Jobs!Statuses, Jobs!Message
<1>5. PanelTyped'
  BY <1>0, SMT DEF Jobs!MirrorExpires, PanelTyped, JobRecordsTyped, Jobs!live, Jobs!SendAll,
     Jobs!Push, Jobs!Answer
<1>6. RestTyped'
  BY <1>0, SMT DEF Jobs!MirrorExpires, RestTyped, Jobs!Fault
<1> QED BY <1>3, <1>4, <1>5, <1>6, JobTypes DEF JobsInv

\* Follow keeps the types.
LEMMA FollowTyped ==
  ASSUME CommandsAssumption, JobsInv, NEW w \in Workers, Jobs!Follow(w)
  PROVE  JobsInv'
<1>0. JobRecordsTyped /\ PanelTyped /\ RestTyped /\ jobsReq \in [Requests -> JobRequests]
  BY JobTypes DEF JobsInv
<1>3. jobsReq' \in [Requests -> JobRequests] /\ Placed'
  BY <1>0 DEF Jobs!Follow, JobsInv, Placed
<1>4. JobRecordsTyped'
  BY <1>0, SMT DEF Jobs!Follow, JobRecordsTyped, Jobs!records, Jobs!SendAll, Jobs!Statuses,
     Jobs!Message
<1>5. PanelTyped'
  BY <1>0, SMT DEF Jobs!Follow, PanelTyped, JobRecordsTyped, Jobs!live, Jobs!SendAll,
     Jobs!Push, Jobs!Answer
<1>6. RestTyped'
  BY <1>0, SMT DEF Jobs!Follow, RestTyped, Jobs!Fault
<1> QED BY <1>3, <1>4, <1>5, <1>6, JobTypes DEF JobsInv

\* WorkerRestarts keeps the types.
LEMMA WorkerRestartsTyped ==
  ASSUME CommandsAssumption, JobsInv, NEW w \in Workers, Jobs!WorkerRestarts(w)
  PROVE  JobsInv'
<1>0. JobRecordsTyped /\ PanelTyped /\ RestTyped /\ jobsReq \in [Requests -> JobRequests]
  BY JobTypes DEF JobsInv
<1>1. ASSUME NEW r \in Requests
      PROVE  /\ jobsReq'[r] \in JobRequests /\ jobsReq'[r].at = jobsReq[r].at
             /\ jobsReq[r].phase = "new" =>
                  jobsReq'[r].phase = "new" \/ jobsReq'[r].at \in Workers
  <2>1. jobsReq[r] \in JobRequests
    BY <1>0
  <2>2. jobsReq'[r] \in {jobsReq[r], [jobsReq[r] EXCEPT !.phase = "done"]}
    BY DEF Jobs!WorkerRestarts
  <2>3. "done" \in Jobs!Phases
    BY DEF Jobs!Phases
  <2>4. jobsReq[r].at = w \/ jobsReq'[r] = jobsReq[r]
    BY DEF Jobs!WorkerRestarts
  <2> QED BY <2>1, <2>2, <2>3, <2>4 DEF JobRequests
<1>3. jobsReq' \in [Requests -> JobRequests] /\ Placed'
  BY <1>1 DEF Jobs!WorkerRestarts, JobsInv, Placed
<1>4. JobRecordsTyped'
  BY <1>0, SMT DEF Jobs!WorkerRestarts, JobRecordsTyped, Jobs!records, Jobs!SendAll,
     Jobs!Statuses, Jobs!Message
<1>5. PanelTyped'
  <2>1. jobsPushes' \subseteq Jobs!Push
    BY <1>0 DEF Jobs!WorkerRestarts, PanelTyped
  <2>2. /\ jobsLinked' \in BOOLEAN /\ jobsDue' \subseteq Jobs!Push
        /\ jobsInbox' = jobsInbox \/ jobsInbox' = <<>>
    BY <1>0 DEF Jobs!WorkerRestarts, PanelTyped
  <2>3. jobsPanel' \in [phase : {"new", "replaying", "open", "closed"},
                        at : Workers \cup {None}, shows : Jobs!Statuses]
    BY <1>0 DEF Jobs!WorkerRestarts, PanelTyped
  <2>4. jobsInbox' \in Seq(Jobs!Push)
    <3>1. <<>> \in Seq(Jobs!Push) /\ jobsInbox \in Seq(Jobs!Push)
      BY <1>0 DEF PanelTyped
    <3> QED BY <2>2, <3>1
  <2> QED BY <2>1, <2>2, <2>3, <2>4 DEF PanelTyped
<1>6. RestTyped'
  BY <1>0, SMT DEF Jobs!WorkerRestarts, RestTyped, Jobs!Fault
<1> QED BY <1>3, <1>4, <1>5, <1>6, JobTypes DEF JobsInv

\* PanelOpens keeps the types.
LEMMA PanelOpensTyped ==
  ASSUME CommandsAssumption, JobsInv, NEW w \in Workers, Jobs!PanelOpens(w)
  PROVE  JobsInv'
<1>0. JobRecordsTyped /\ PanelTyped /\ RestTyped /\ jobsReq \in [Requests -> JobRequests]
  BY JobTypes DEF JobsInv
<1>3. jobsReq' \in [Requests -> JobRequests] /\ Placed'
  BY <1>0 DEF Jobs!PanelOpens, JobsInv, Placed
<1>4. JobRecordsTyped'
  BY <1>0, SMT DEF Jobs!PanelOpens, JobRecordsTyped, Jobs!records, Jobs!SendAll, Jobs!Statuses,
     Jobs!Message
<1>5. PanelTyped'
  BY <1>0, SMT DEF Jobs!PanelOpens, PanelTyped, JobRecordsTyped, Jobs!live, Jobs!SendAll,
     Jobs!Push, Jobs!Answer
<1>6. RestTyped'
  BY <1>0, SMT DEF Jobs!PanelOpens, RestTyped, Jobs!Fault
<1> QED BY <1>3, <1>4, <1>5, <1>6, JobTypes DEF JobsInv

\* PanelListens keeps the types.
LEMMA PanelListensTyped ==
  ASSUME CommandsAssumption, JobsInv, Jobs!PanelListens
  PROVE  JobsInv'
<1>0. JobRecordsTyped /\ PanelTyped /\ RestTyped /\ jobsReq \in [Requests -> JobRequests]
  BY JobTypes DEF JobsInv
<1>3. jobsReq' \in [Requests -> JobRequests] /\ Placed'
  BY <1>0 DEF Jobs!PanelListens, JobsInv, Placed
<1>4. JobRecordsTyped'
  BY <1>0, SMT DEF Jobs!PanelListens, JobRecordsTyped, Jobs!records, Jobs!SendAll,
     Jobs!Statuses, Jobs!Message
<1>5. PanelTyped'
  BY <1>0, SMT DEF Jobs!PanelListens, PanelTyped, JobRecordsTyped, Jobs!live, Jobs!SendAll,
     Jobs!Push, Jobs!Answer
<1>6. RestTyped'
  BY <1>0, SMT DEF Jobs!PanelListens, RestTyped, Jobs!Fault
<1> QED BY <1>3, <1>4, <1>5, <1>6, JobTypes DEF JobsInv

\* PanelCloses keeps the types.
LEMMA PanelClosesTyped ==
  ASSUME CommandsAssumption, JobsInv, Jobs!PanelCloses
  PROVE  JobsInv'
<1>0. JobRecordsTyped /\ PanelTyped /\ RestTyped /\ jobsReq \in [Requests -> JobRequests]
  BY JobTypes DEF JobsInv
<1>3. jobsReq' \in [Requests -> JobRequests] /\ Placed'
  BY <1>0 DEF Jobs!PanelCloses, JobsInv, Placed
<1>4. JobRecordsTyped'
  BY <1>0, SMT DEF Jobs!PanelCloses, JobRecordsTyped, Jobs!records, Jobs!SendAll,
     Jobs!Statuses, Jobs!Message
<1>5. PanelTyped'
  BY <1>0, SMT DEF Jobs!PanelCloses, PanelTyped, JobRecordsTyped, Jobs!live, Jobs!SendAll,
     Jobs!Push, Jobs!Answer
<1>6. RestTyped'
  BY <1>0, SMT DEF Jobs!PanelCloses, RestTyped, Jobs!Fault
<1> QED BY <1>3, <1>4, <1>5, <1>6, JobTypes DEF JobsInv

\* PushArrives keeps the types.
LEMMA PushArrivesTyped ==
  ASSUME CommandsAssumption, JobsInv, Jobs!PushArrives
  PROVE  JobsInv'
<1>0. JobRecordsTyped /\ PanelTyped /\ RestTyped /\ jobsReq \in [Requests -> JobRequests]
  BY JobTypes DEF JobsInv
<1>3. jobsReq' \in [Requests -> JobRequests] /\ Placed'
  BY <1>0 DEF Jobs!PushArrives, JobsInv, Placed
<1>4. JobRecordsTyped'
  BY <1>0, SMT DEF Jobs!PushArrives, JobRecordsTyped, Jobs!records, Jobs!SendAll,
     Jobs!Statuses, Jobs!Message
<1>5. PanelTyped'
  <2>1. Head(jobsInbox) \in Jobs!Push /\ Tail(jobsInbox) \in Seq(Jobs!Push)
    BY <1>0 DEF Jobs!PushArrives, PanelTyped
  <2>2. Head(jobsInbox).status \in Jobs!Statuses
    BY <2>1 DEF Jobs!Push
  <2>3. jobsPanel' \in [phase : {"new", "replaying", "open", "closed"},
                        at : Workers \cup {None}, shows : Jobs!Statuses]
    BY <1>0, <2>2 DEF Jobs!PushArrives, Jobs!SendAll, PanelTyped
  <2> QED BY <1>0, <2>1, <2>3 DEF Jobs!PushArrives, Jobs!SendAll, PanelTyped
<1>6. RestTyped'
  BY <1>0, SMT DEF Jobs!PushArrives, RestTyped, Jobs!Fault
<1> QED BY <1>3, <1>4, <1>5, <1>6, JobTypes DEF JobsInv

\* LinkDrops keeps the types.
LEMMA LinkDropsTyped ==
  ASSUME CommandsAssumption, JobsInv, Jobs!LinkDrops
  PROVE  JobsInv'
<1>0. JobRecordsTyped /\ PanelTyped /\ RestTyped /\ jobsReq \in [Requests -> JobRequests]
  BY JobTypes DEF JobsInv
<1>3. jobsReq' \in [Requests -> JobRequests] /\ Placed'
  BY <1>0 DEF Jobs!LinkDrops, JobsInv, Placed
<1>4. JobRecordsTyped'
  BY <1>0, SMT DEF Jobs!LinkDrops, JobRecordsTyped, Jobs!records, Jobs!SendAll, Jobs!Statuses,
     Jobs!Message
<1>5. PanelTyped'
  <2>1. jobsInbox' \in Seq(Jobs!Push)
    BY DEF Jobs!LinkDrops
  <2> QED BY <1>0, <2>1 DEF Jobs!LinkDrops, PanelTyped
<1>6. RestTyped'
  BY <1>0, SMT DEF Jobs!LinkDrops, RestTyped, Jobs!Fault
<1> QED BY <1>3, <1>4, <1>5, <1>6, JobTypes DEF JobsInv

\* Resubscribe keeps the types.
LEMMA ResubscribeTyped ==
  ASSUME CommandsAssumption, JobsInv, Jobs!Resubscribe
  PROVE  JobsInv'
<1>0. JobRecordsTyped /\ PanelTyped /\ RestTyped /\ jobsReq \in [Requests -> JobRequests]
  BY JobTypes DEF JobsInv
<1>3. jobsReq' \in [Requests -> JobRequests] /\ Placed'
  BY <1>0 DEF Jobs!Resubscribe, JobsInv, Placed
<1>4. JobRecordsTyped'
  BY <1>0, SMT DEF Jobs!Resubscribe, JobRecordsTyped, Jobs!records, Jobs!SendAll,
     Jobs!Statuses, Jobs!Message
<1>5. PanelTyped'
  BY <1>0, SMT DEF Jobs!Resubscribe, PanelTyped, JobRecordsTyped, Jobs!live, Jobs!SendAll,
     Jobs!Push, Jobs!Answer
<1>6. RestTyped'
  BY <1>0, SMT DEF Jobs!Resubscribe, RestTyped, Jobs!Fault
<1> QED BY <1>3, <1>4, <1>5, <1>6, JobTypes DEF JobsInv

\* PushPublishes keeps the types.
LEMMA PushPublishesTyped ==
  ASSUME CommandsAssumption, JobsInv, NEW p \in jobsPushes, Jobs!PushPublishes(p)
  PROVE  JobsInv'
<1>0. JobRecordsTyped /\ PanelTyped /\ RestTyped /\ jobsReq \in [Requests -> JobRequests]
  BY JobTypes DEF JobsInv
<1>3. jobsReq' \in [Requests -> JobRequests] /\ Placed'
  BY <1>0 DEF Jobs!PushPublishes, JobsInv, Placed
<1>4. JobRecordsTyped'
  BY <1>0, SMT DEF Jobs!PushPublishes, JobRecordsTyped, Jobs!records, Jobs!SendAll,
     Jobs!Statuses, Jobs!Message
<1>5. PanelTyped'
  <2>1. Append(jobsInbox, p) \in Seq(Jobs!Push)
    BY <1>0 DEF PanelTyped
  <2> QED BY <1>0, <2>1 DEF Jobs!PushPublishes, PanelTyped
<1>6. RestTyped'
  BY <1>0, SMT DEF Jobs!PushPublishes, RestTyped, Jobs!Fault
<1> QED BY <1>3, <1>4, <1>5, <1>6, JobTypes DEF JobsInv

\* PushFails keeps the types.
LEMMA PushFailsTyped ==
  ASSUME CommandsAssumption, JobsInv, NEW p \in jobsPushes, Jobs!PushFails(p)
  PROVE  JobsInv'
<1>0. JobRecordsTyped /\ PanelTyped /\ RestTyped /\ jobsReq \in [Requests -> JobRequests]
  BY JobTypes DEF JobsInv
<1>3. jobsReq' \in [Requests -> JobRequests] /\ Placed'
  BY <1>0 DEF Jobs!PushFails, JobsInv, Placed
<1>4. JobRecordsTyped'
  BY <1>0, SMT DEF Jobs!PushFails, JobRecordsTyped, Jobs!records, Jobs!SendAll, Jobs!Statuses,
     Jobs!Message
<1>5. PanelTyped'
  BY <1>0, SMT DEF Jobs!PushFails, PanelTyped, JobRecordsTyped, Jobs!live, Jobs!SendAll,
     Jobs!Push, Jobs!Answer
<1>6. RestTyped'
  BY <1>0, SMT DEF Jobs!PushFails, RestTyped, Jobs!Fault
<1> QED BY <1>3, <1>4, <1>5, <1>6, JobTypes DEF JobsInv

-----------------------------------------------------------------------------
(* The folders *)

\* The remap of a window, which runs under the file lock.
Remapping == {"listing", "discarding", "creating", "releasing"}

Serialized == \A w \in Workers : foldersWindow[w] \in Remapping => foldersFlock = w

\* A folder is on record, or on a list somebody has read, when its request has saved it,
\* and what such a list has beyond the record is gone; whoever was told has ended.
Recorded ==
  \A r \in Requests :
    /\ r \in foldersFolders => foldersStep[r] \in {"saved", "waiting", "adrift", "done"}
    /\ \A q \in Requests : r \in foldersListed[q] =>
         /\ foldersStep[r] \in {"saved", "waiting", "adrift", "done"}
         /\ r \in foldersFolders \cup foldersGone
    /\ foldersAnswer[r] = TRUE => foldersStep[r] = "done"

\* The folder of r has been on record since before the remap of w listed the folders: r
\* was told of an earlier one, or waits for this one.
Before(r, w) ==
  /\ r \in foldersFolders \ (foldersGone \cup foldersLate)
  /\ \/ foldersAnswer[r] = TRUE
     \/ foldersStep[r] = "waiting" /\ foldersAt[r] = w

\* So it is among the folders that remap mounts, while nothing runs beside the lock,
VolumesCurrent ==
  ~foldersLoose => \A w \in Workers, r \in Requests :
    foldersWindow[w] \in {"discarding", "creating"} /\ Before(r, w) => r \in foldersVolumes[w]

\* and is mounted when the remap has recreated the container.
RemapCurrent ==
  ~foldersLoose => \A w \in Workers : foldersRemapped[w] =>
    /\ foldersWindow[w] = "releasing"
    /\ \A r \in Requests : Before(r, w) => Folders!Mounted(r)

\* A thread that goes on without the lock is what a cancelled remap has left.
StraysAreLoose == \A w \in Workers : foldersStray[w] # "none" => foldersLoose

FoldersInv ==
  /\ Folders!TypeOK /\ Serialized /\ Recorded /\ VolumesCurrent /\ RemapCurrent
  /\ StraysAreLoose /\ Folders!RemountedStays

\* ListFolders: the list is read: all of it is on record.
LEMMA ListFoldersRemounts ==
  ASSUME CommandsAssumption, FoldersInv, NEW r \in Requests, NEW w \in Workers,
     Folders!ListFolders(r, w)
  PROVE  FoldersInv'
<1> USE DEF Folders!ListFolders, Folders!request, Folders!engine, FoldersInv, Folders!TypeOK
<1>1. Folders!TypeOK'
  BY DEF Folders!Phases
<1>2. Serialized'
  BY CommandsAssumption DEF Serialized, Remapping
<1>3. Recorded'
  BY DEF Recorded
<1>4. VolumesCurrent'
  BY CommandsAssumption DEF VolumesCurrent, Before, Recorded, Serialized, Remapping
<1>5. RemapCurrent'
  BY CommandsAssumption DEF RemapCurrent, Before, Recorded, Serialized, Remapping,
     VolumesCurrent, Folders!Mounted, Folders!RemountedStays, Folders!Told
<1>6. Folders!RemountedStays'
  BY CommandsAssumption DEF RemapCurrent, Before, Recorded, Serialized, Remapping,
     VolumesCurrent, Folders!Mounted, Folders!RemountedStays, Folders!Told
<1>7. StraysAreLoose'
  BY DEF StraysAreLoose
<1> QED BY <1>1, <1>2, <1>3, <1>4, <1>5, <1>6, <1>7

\* AddFolder: what the list lacks of the record is gone.
LEMMA AddFolderRemounts ==
  ASSUME CommandsAssumption, FoldersInv, NEW r \in Requests, Folders!AddFolder(r)
  PROVE  FoldersInv'
<1> USE DEF Folders!AddFolder, Folders!Save, Folders!request, Folders!engine, FoldersInv,
   Folders!TypeOK
<1>1. Folders!TypeOK'
  BY DEF Folders!Phases
<1>2. Serialized'
  BY CommandsAssumption DEF Serialized, Remapping
<1>3. Recorded'
  BY DEF Recorded
<1>4. VolumesCurrent'
  BY CommandsAssumption DEF VolumesCurrent, Before, Recorded, Serialized, Remapping
<1>5. RemapCurrent'
  BY CommandsAssumption DEF RemapCurrent, Before, Recorded, Serialized, Remapping,
     VolumesCurrent, Folders!Mounted, Folders!RemountedStays, Folders!Told
<1>6. Folders!RemountedStays'
  BY CommandsAssumption DEF RemapCurrent, Before, Recorded, Serialized, Remapping,
     VolumesCurrent, Folders!Mounted, Folders!RemountedStays, Folders!Told
<1>7. StraysAreLoose'
  BY DEF StraysAreLoose
<1> QED BY <1>1, <1>2, <1>3, <1>4, <1>5, <1>6, <1>7

\* RemoveFolder: the same for a removal.
LEMMA RemoveFolderRemounts ==
  ASSUME CommandsAssumption, FoldersInv, NEW r \in Requests, NEW f \in Requests,
     Folders!RemoveFolder(r, f)
  PROVE  FoldersInv'
<1> USE DEF Folders!RemoveFolder, Folders!Save, Folders!request, Folders!engine, FoldersInv,
   Folders!TypeOK
<1>1. Folders!TypeOK'
  BY DEF Folders!Phases
<1>2. Serialized'
  BY CommandsAssumption DEF Serialized, Remapping
<1>3. Recorded'
  BY DEF Recorded
<1>4. VolumesCurrent'
  BY CommandsAssumption DEF VolumesCurrent, Before, Recorded, Serialized, Remapping
<1>5. RemapCurrent'
  BY CommandsAssumption DEF RemapCurrent, Before, Recorded, Serialized, Remapping,
     VolumesCurrent, Folders!Mounted, Folders!RemountedStays, Folders!Told
<1>6. Folders!RemountedStays'
  BY CommandsAssumption DEF RemapCurrent, Before, Recorded, Serialized, Remapping,
     VolumesCurrent, Folders!Mounted, Folders!RemountedStays, Folders!Told
<1>7. StraysAreLoose'
  BY DEF StraysAreLoose
<1> QED BY <1>1, <1>2, <1>3, <1>4, <1>5, <1>6, <1>7

\* RemoveUnknown: a removal that finds nothing writes nothing.
LEMMA RemoveUnknownRemounts ==
  ASSUME CommandsAssumption, FoldersInv, NEW r \in Requests, Folders!RemoveUnknown(r)
  PROVE  FoldersInv'
<1> USE DEF Folders!RemoveUnknown, Folders!request, Folders!engine, FoldersInv, Folders!TypeOK
<1>1. Folders!TypeOK'
  BY DEF Folders!Phases
<1>2. Serialized'
  BY CommandsAssumption DEF Serialized, Remapping
<1>3. Recorded'
  BY DEF Recorded
<1>4. VolumesCurrent'
  BY CommandsAssumption DEF VolumesCurrent, Before, Recorded, Serialized, Remapping
<1>5. RemapCurrent'
  BY CommandsAssumption DEF RemapCurrent, Before, Recorded, Serialized, Remapping,
     VolumesCurrent, Folders!Mounted, Folders!RemountedStays, Folders!Told
<1>6. Folders!RemountedStays'
  BY CommandsAssumption DEF RemapCurrent, Before, Recorded, Serialized, Remapping,
     VolumesCurrent, Folders!Mounted, Folders!RemountedStays, Folders!Told
<1>7. StraysAreLoose'
  BY DEF StraysAreLoose
<1> QED BY <1>1, <1>2, <1>3, <1>4, <1>5, <1>6, <1>7

\* Request: who joins a window whose remap has begun is late.
LEMMA RequestRemounts ==
  ASSUME CommandsAssumption, FoldersInv, NEW r \in Requests, Folders!Request(r)
  PROVE  FoldersInv'
<1> USE DEF Folders!Request, Folders!request, Folders!engine, FoldersInv, Folders!TypeOK
<1>1. Folders!TypeOK'
  BY DEF Folders!Phases
<1>2. Serialized'
  BY CommandsAssumption DEF Serialized, Remapping
<1>3. Recorded'
  BY DEF Recorded
<1>4. VolumesCurrent'
  BY CommandsAssumption DEF VolumesCurrent, Before, Recorded, Serialized, Remapping
<1>5. RemapCurrent'
  BY CommandsAssumption DEF RemapCurrent, Before, Recorded, Serialized, Remapping,
     VolumesCurrent, Folders!Mounted, Folders!RemountedStays, Folders!Told
<1>6. Folders!RemountedStays'
  BY CommandsAssumption DEF RemapCurrent, Before, Recorded, Serialized, Remapping,
     VolumesCurrent, Folders!Mounted, Folders!RemountedStays, Folders!Told
<1>7. StraysAreLoose'
  BY DEF StraysAreLoose
<1> QED BY <1>1, <1>2, <1>3, <1>4, <1>5, <1>6, <1>7

\* WindowCloses: the window closes.
LEMMA WindowClosesRemounts ==
  ASSUME CommandsAssumption, FoldersInv, NEW w \in Workers, Folders!WindowCloses(w)
  PROVE  FoldersInv'
<1> USE DEF Folders!WindowCloses, Folders!Phase, Folders!request, Folders!engine, FoldersInv,
   Folders!TypeOK
<1>1. Folders!TypeOK'
  BY DEF Folders!Phases
<1>2. Serialized'
  BY CommandsAssumption DEF Serialized, Remapping
<1>3. Recorded'
  BY DEF Recorded
<1>4. VolumesCurrent'
  BY CommandsAssumption DEF VolumesCurrent, Before, Recorded, Serialized, Remapping
<1>5. RemapCurrent'
  BY CommandsAssumption DEF RemapCurrent, Before, Recorded, Serialized, Remapping,
     VolumesCurrent, Folders!Mounted, Folders!RemountedStays, Folders!Told
<1>6. Folders!RemountedStays'
  BY CommandsAssumption DEF RemapCurrent, Before, Recorded, Serialized, Remapping,
     VolumesCurrent, Folders!Mounted, Folders!RemountedStays, Folders!Told
<1>7. StraysAreLoose'
  BY DEF StraysAreLoose
<1> QED BY <1>1, <1>2, <1>3, <1>4, <1>5, <1>6, <1>7

\* LockFails: no lock: nobody is told of a remount.
LEMMA LockFailsRemounts ==
  ASSUME CommandsAssumption, FoldersInv, NEW w \in Workers, Folders!LockFails(w)
  PROVE  FoldersInv'
<1> USE DEF Folders!LockFails, Folders!Phase, Folders!AnswerAll, Folders!Waiting,
   Folders!request, Folders!engine, FoldersInv, Folders!TypeOK
<1>1. Folders!TypeOK'
  BY DEF Folders!Phases
<1>2. Serialized'
  BY CommandsAssumption DEF Serialized, Remapping
<1>3. Recorded'
  BY DEF Recorded
<1>4. VolumesCurrent'
  BY CommandsAssumption DEF VolumesCurrent, Before, Recorded, Serialized, Remapping
<1>5. RemapCurrent'
  BY CommandsAssumption DEF RemapCurrent, Before, Recorded, Serialized, Remapping,
     VolumesCurrent, Folders!Mounted, Folders!RemountedStays, Folders!Told
<1>6. Folders!RemountedStays'
  BY CommandsAssumption DEF RemapCurrent, Before, Recorded, Serialized, Remapping,
     VolumesCurrent, Folders!Mounted, Folders!RemountedStays, Folders!Told
<1>7. StraysAreLoose'
  BY DEF StraysAreLoose
<1> QED BY <1>1, <1>2, <1>3, <1>4, <1>5, <1>6, <1>7

\* TakeLock: the lock is free, so no other remap is under way.
LEMMA TakeLockRemounts ==
  ASSUME CommandsAssumption, FoldersInv, NEW w \in Workers, Folders!TakeLock(w)
  PROVE  FoldersInv'
<1> USE DEF Folders!TakeLock, Folders!Phase, Folders!request, Folders!engine, FoldersInv,
   Folders!TypeOK
<1>1. Folders!TypeOK'
  BY DEF Folders!Phases
<1>2. Serialized'
  BY CommandsAssumption DEF Serialized, Remapping
<1>3. Recorded'
  BY DEF Recorded
<1>4. VolumesCurrent'
  BY CommandsAssumption DEF VolumesCurrent, Before, Recorded, Serialized, Remapping
<1>5. RemapCurrent'
  BY CommandsAssumption DEF RemapCurrent, Before, Recorded, Serialized, Remapping,
     VolumesCurrent, Folders!Mounted, Folders!RemountedStays, Folders!Told
<1>6. Folders!RemountedStays'
  BY CommandsAssumption DEF RemapCurrent, Before, Recorded, Serialized, Remapping,
     VolumesCurrent, Folders!Mounted, Folders!RemountedStays, Folders!Told
<1>7. StraysAreLoose'
  BY DEF StraysAreLoose
<1> QED BY <1>1, <1>2, <1>3, <1>4, <1>5, <1>6, <1>7

\* SetVolumes: the remap takes the folders on record now, earlier ones among them.
LEMMA SetVolumesRemounts ==
  ASSUME CommandsAssumption, FoldersInv, NEW w \in Workers, Folders!SetVolumes(w)
  PROVE  FoldersInv'
<1> USE DEF Folders!SetVolumes, Folders!Phase, Folders!request, Folders!engine, FoldersInv,
   Folders!TypeOK
<1>1. Folders!TypeOK'
  BY DEF Folders!Phases
<1>2. Serialized'
  BY CommandsAssumption DEF Serialized, Remapping
<1>3. Recorded'
  BY DEF Recorded
<1>4. VolumesCurrent'
  BY CommandsAssumption DEF VolumesCurrent, Before, Recorded, Serialized, Remapping
<1>5. RemapCurrent'
  BY CommandsAssumption DEF RemapCurrent, Before, Recorded, Serialized, Remapping,
     VolumesCurrent, Folders!Mounted, Folders!RemountedStays, Folders!Told
<1>6. Folders!RemountedStays'
  BY CommandsAssumption DEF RemapCurrent, Before, Recorded, Serialized, Remapping,
     VolumesCurrent, Folders!Mounted, Folders!RemountedStays, Folders!Told
<1>7. StraysAreLoose'
  BY DEF StraysAreLoose
<1> QED BY <1>1, <1>2, <1>3, <1>4, <1>5, <1>6, <1>7

\* Discard: without a container nothing is mounted that should not be.
LEMMA DiscardRemounts ==
  ASSUME CommandsAssumption, FoldersInv, NEW w \in Workers, Folders!Discard(w)
  PROVE  FoldersInv'
<1> USE DEF Folders!Discard, Folders!Phase, Folders!request, Folders!engine, FoldersInv,
   Folders!TypeOK
<1>1. Folders!TypeOK'
  BY DEF Folders!Phases
<1>2. Serialized'
  BY CommandsAssumption DEF Serialized, Remapping
<1>3. Recorded'
  BY DEF Recorded
<1>4. VolumesCurrent'
  BY CommandsAssumption DEF VolumesCurrent, Before, Recorded, Serialized, Remapping
<1>5. RemapCurrent'
  BY CommandsAssumption DEF RemapCurrent, Before, Recorded, Serialized, Remapping,
     VolumesCurrent, Folders!Mounted, Folders!RemountedStays, Folders!Told
<1>6. Folders!RemountedStays'
  BY CommandsAssumption DEF RemapCurrent, Before, Recorded, Serialized, Remapping,
     VolumesCurrent, Folders!Mounted, Folders!RemountedStays, Folders!Told
<1>7. StraysAreLoose'
  BY DEF StraysAreLoose
<1> QED BY <1>1, <1>2, <1>3, <1>4, <1>5, <1>6, <1>7

\* Create: the container is created with the volumes of the remap, which are current.
LEMMA CreateRemounts ==
  ASSUME CommandsAssumption, FoldersInv, NEW w \in Workers, Folders!Create(w)
  PROVE  FoldersInv'
<1> USE DEF Folders!Create, Folders!ReadOut, Folders!Phase, Folders!request, Folders!engine,
   FoldersInv, Folders!TypeOK
<1>1. Folders!TypeOK'
  BY DEF Folders!Phases
<1>2. Serialized'
  BY CommandsAssumption DEF Serialized, Remapping
<1>3. Recorded'
  BY DEF Recorded
<1>4. VolumesCurrent'
  BY CommandsAssumption DEF VolumesCurrent, Before, Recorded, Serialized, Remapping
<1>5. RemapCurrent'
  BY CommandsAssumption DEF RemapCurrent, Before, Recorded, Serialized, Remapping,
     VolumesCurrent, Folders!Mounted, Folders!RemountedStays, Folders!Told
<1>6. Folders!RemountedStays'
  <2> SUFFICES ASSUME ~foldersLoose, NEW r \in Requests \ foldersLate, Folders!Told(r)
               PROVE  r \in foldersVolumes[w]
    BY DEF Folders!RemountedStays, Folders!Told, Folders!Mounted
  <2> QED BY DEF Folders!Told, VolumesCurrent, Before
<1>7. StraysAreLoose'
  BY DEF StraysAreLoose
<1> QED BY <1>1, <1>2, <1>3, <1>4, <1>5, <1>6, <1>7

\* RemapFails: a remap that fails has recreated nothing.
LEMMA RemapFailsRemounts ==
  ASSUME CommandsAssumption, FoldersInv, NEW w \in Workers, Folders!RemapFails(w)
  PROVE  FoldersInv'
<1> USE DEF Folders!RemapFails, Folders!ReadOut, Folders!Phase, Folders!request, Folders!engine,
   FoldersInv, Folders!TypeOK
<1>1. Folders!TypeOK'
  BY DEF Folders!Phases
<1>2. Serialized'
  BY CommandsAssumption DEF Serialized, Remapping
<1>3. Recorded'
  BY DEF Recorded
<1>4. VolumesCurrent'
  BY CommandsAssumption DEF VolumesCurrent, Before, Recorded, Serialized, Remapping
<1>5. RemapCurrent'
  BY CommandsAssumption DEF RemapCurrent, Before, Recorded, Serialized, Remapping,
     VolumesCurrent, Folders!Mounted, Folders!RemountedStays, Folders!Told
<1>6. Folders!RemountedStays'
  BY CommandsAssumption DEF RemapCurrent, Before, Recorded, Serialized, Remapping,
     VolumesCurrent, Folders!Mounted, Folders!RemountedStays, Folders!Told
<1>7. StraysAreLoose'
  BY DEF StraysAreLoose
<1> QED BY <1>1, <1>2, <1>3, <1>4, <1>5, <1>6, <1>7

\* Finish: who waited is told, and the container has his folder.
LEMMA FinishRemounts ==
  ASSUME CommandsAssumption, FoldersInv, NEW w \in Workers, Folders!Finish(w)
  PROVE  FoldersInv'
<1> USE DEF Folders!Finish, Folders!Phase, Folders!AnswerAll, Folders!Waiting, Folders!request,
   Folders!engine, FoldersInv, Folders!TypeOK
<1>1. Folders!TypeOK'
  BY DEF Folders!Phases
<1>2. Serialized'
  BY CommandsAssumption DEF Serialized, Remapping
<1>3. Recorded'
  BY DEF Recorded
<1>4. VolumesCurrent'
  BY CommandsAssumption DEF VolumesCurrent, Before, Recorded, Serialized, Remapping
<1>5. RemapCurrent'
  BY CommandsAssumption DEF RemapCurrent, Before, Recorded, Serialized, Remapping,
     VolumesCurrent, Folders!Mounted, Folders!RemountedStays, Folders!Told
<1>6. Folders!RemountedStays'
  BY CommandsAssumption DEF RemapCurrent, Before, Recorded, Serialized, Remapping,
     VolumesCurrent, Folders!Mounted, Folders!RemountedStays, Folders!Told
<1>7. StraysAreLoose'
  BY DEF StraysAreLoose
<1> QED BY <1>1, <1>2, <1>3, <1>4, <1>5, <1>6, <1>7

\* CallerCancelled: who is cancelled is told nothing.
LEMMA CallerCancelledRemounts ==
  ASSUME CommandsAssumption, FoldersInv, NEW r \in Requests, Folders!CallerCancelled(r)
  PROVE  FoldersInv'
<1> USE DEF Folders!CallerCancelled, Folders!Waiting, Folders!request, Folders!engine,
   FoldersInv, Folders!TypeOK
<1>1. Folders!TypeOK'
  BY DEF Folders!Phases
<1>2. Serialized'
  BY CommandsAssumption DEF Serialized, Remapping
<1>3. Recorded'
  BY DEF Recorded
<1>4. VolumesCurrent'
  BY CommandsAssumption DEF VolumesCurrent, Before, Recorded, Serialized, Remapping,
     StraysAreLoose
<1>5. RemapCurrent'
  BY CommandsAssumption DEF RemapCurrent, Before, Recorded, Serialized, Remapping,
     VolumesCurrent, StraysAreLoose, Folders!Mounted, Folders!RemountedStays, Folders!Told
<1>6. Folders!RemountedStays'
  BY CommandsAssumption DEF RemapCurrent, Before, Recorded, Serialized, Remapping,
     VolumesCurrent, StraysAreLoose, Folders!Mounted, Folders!RemountedStays, Folders!Told
<1>7. StraysAreLoose'
  BY DEF StraysAreLoose
<1> QED BY <1>1, <1>2, <1>3, <1>4, <1>5, <1>6, <1>7

\* LeaderCancelled: nobody is told anything; a start that goes on is loose.
LEMMA LeaderCancelledRemounts ==
  ASSUME CommandsAssumption, FoldersInv, NEW w \in Workers, NEW r \in Requests,
     Folders!LeaderCancelled(w, r)
  PROVE  FoldersInv'
<1> USE DEF Folders!LeaderCancelled, Folders!Waiting, Folders!request, Folders!engine,
   FoldersInv, Folders!TypeOK
<1>1. Folders!TypeOK'
  BY DEF Folders!Phases
<1>2. Serialized'
  BY CommandsAssumption DEF Serialized, Remapping
<1>3. Recorded'
  BY DEF Recorded
<1>4. VolumesCurrent'
  BY CommandsAssumption DEF VolumesCurrent, Before, Recorded, Serialized, Remapping,
     StraysAreLoose
<1>5. RemapCurrent'
  BY CommandsAssumption DEF RemapCurrent, Before, Recorded, Serialized, Remapping,
     VolumesCurrent, StraysAreLoose, Folders!Mounted, Folders!RemountedStays, Folders!Told
<1>6. Folders!RemountedStays'
  BY CommandsAssumption DEF RemapCurrent, Before, Recorded, Serialized, Remapping,
     VolumesCurrent, StraysAreLoose, Folders!Mounted, Folders!RemountedStays, Folders!Told
<1>7. StraysAreLoose'
  BY DEF StraysAreLoose
<1> QED BY <1>1, <1>2, <1>3, <1>4, <1>5, <1>6, <1>7

\* StrayDiscards: it is loose.
LEMMA StrayDiscardsRemounts ==
  ASSUME CommandsAssumption, FoldersInv, NEW w \in Workers, Folders!StrayDiscards(w)
  PROVE  FoldersInv'
<1> USE DEF Folders!StrayDiscards, Folders!request, Folders!engine,
   FoldersInv, Folders!TypeOK
<1>1. Folders!TypeOK'
  BY DEF Folders!Phases
<1>2. Serialized'
  BY CommandsAssumption DEF Serialized, Remapping
<1>3. Recorded'
  BY DEF Recorded
<1>4. VolumesCurrent'
  BY CommandsAssumption DEF VolumesCurrent, Before, Recorded, Serialized, Remapping,
     StraysAreLoose
<1>5. RemapCurrent'
  BY CommandsAssumption DEF RemapCurrent, Before, Recorded, Serialized, Remapping,
     VolumesCurrent, StraysAreLoose, Folders!Mounted, Folders!RemountedStays, Folders!Told
<1>6. Folders!RemountedStays'
  BY CommandsAssumption DEF RemapCurrent, Before, Recorded, Serialized, Remapping,
     VolumesCurrent, StraysAreLoose, Folders!Mounted, Folders!RemountedStays, Folders!Told
<1>7. StraysAreLoose'
  BY DEF StraysAreLoose
<1> QED BY <1>1, <1>2, <1>3, <1>4, <1>5, <1>6, <1>7

\* StrayCreates: it is loose.
LEMMA StrayCreatesRemounts ==
  ASSUME CommandsAssumption, FoldersInv, NEW w \in Workers, Folders!StrayCreates(w)
  PROVE  FoldersInv'
<1> USE DEF Folders!StrayCreates, Folders!StrayEnds, Folders!request, Folders!engine,
   FoldersInv, Folders!TypeOK
<1>1. Folders!TypeOK'
  BY DEF Folders!Phases
<1>2. Serialized'
  BY CommandsAssumption DEF Serialized, Remapping
<1>3. Recorded'
  BY DEF Recorded
<1>4. VolumesCurrent'
  BY CommandsAssumption DEF VolumesCurrent, Before, Recorded, Serialized, Remapping,
     StraysAreLoose
<1>5. RemapCurrent'
  BY CommandsAssumption DEF RemapCurrent, Before, Recorded, Serialized, Remapping,
     VolumesCurrent, StraysAreLoose, Folders!Mounted, Folders!RemountedStays, Folders!Told
<1>6. Folders!RemountedStays'
  BY CommandsAssumption DEF RemapCurrent, Before, Recorded, Serialized, Remapping,
     VolumesCurrent, StraysAreLoose, Folders!Mounted, Folders!RemountedStays, Folders!Told
<1>7. StraysAreLoose'
  BY DEF StraysAreLoose
<1> QED BY <1>1, <1>2, <1>3, <1>4, <1>5, <1>6, <1>7

\* StrayFails: it is loose.
LEMMA StrayFailsRemounts ==
  ASSUME CommandsAssumption, FoldersInv, NEW w \in Workers, Folders!StrayFails(w)
  PROVE  FoldersInv'
<1> USE DEF Folders!StrayFails, Folders!StrayEnds, Folders!request, Folders!engine,
   FoldersInv, Folders!TypeOK
<1>1. Folders!TypeOK'
  BY DEF Folders!Phases
<1>2. Serialized'
  BY CommandsAssumption DEF Serialized, Remapping
<1>3. Recorded'
  BY DEF Recorded
<1>4. VolumesCurrent'
  BY CommandsAssumption DEF VolumesCurrent, Before, Recorded, Serialized, Remapping,
     StraysAreLoose
<1>5. RemapCurrent'
  BY CommandsAssumption DEF RemapCurrent, Before, Recorded, Serialized, Remapping,
     VolumesCurrent, StraysAreLoose, Folders!Mounted, Folders!RemountedStays, Folders!Told
<1>6. Folders!RemountedStays'
  BY CommandsAssumption DEF RemapCurrent, Before, Recorded, Serialized, Remapping,
     VolumesCurrent, StraysAreLoose, Folders!Mounted, Folders!RemountedStays, Folders!Told
<1>7. StraysAreLoose'
  BY DEF StraysAreLoose
<1> QED BY <1>1, <1>2, <1>3, <1>4, <1>5, <1>6, <1>7

\* WorkerRestarts: a worker that goes tells nobody anything.
LEMMA WorkerRestartsRemounts ==
  ASSUME CommandsAssumption, FoldersInv, NEW w \in Workers, Folders!WorkerRestarts(w)
  PROVE  FoldersInv'
<1> USE DEF Folders!WorkerRestarts, Folders!request, Folders!engine, FoldersInv, Folders!TypeOK
<1>1. Folders!TypeOK'
  BY DEF Folders!Phases
<1>2. Serialized'
  BY CommandsAssumption DEF Serialized, Remapping
<1>3. Recorded'
  BY DEF Recorded
<1>4. VolumesCurrent'
  BY CommandsAssumption DEF VolumesCurrent, Before, Recorded, Serialized, Remapping
<1>5. RemapCurrent'
  BY CommandsAssumption DEF RemapCurrent, Before, Recorded, Serialized, Remapping,
     VolumesCurrent, Folders!Mounted, Folders!RemountedStays, Folders!Told
<1>6. Folders!RemountedStays'
  BY CommandsAssumption DEF RemapCurrent, Before, Recorded, Serialized, Remapping,
     VolumesCurrent, Folders!Mounted, Folders!RemountedStays, Folders!Told
<1>7. StraysAreLoose'
  BY DEF StraysAreLoose
<1> QED BY <1>1, <1>2, <1>3, <1>4, <1>5, <1>6, <1>7

-----------------------------------------------------------------------------
(* All of them *)

CommandsInv == RelayInv /\ JobsInv /\ FoldersInv

\* The first states are in it.
LEMMA InitCommands == ASSUME CommandsAssumption, Init PROVE CommandsInv
<1>1. RelayInv
  <2>1. Relay!TypeOK
    <3>1. \A r \in OneRequest :
            [phase |-> "new", at |-> None, action |-> "start", reply |-> "none"] \in RelayRequests
      BY DEF RelayRequests, Relay!Phases, Relay!Actions
    <3>2. "no" \in Relay!Steps /\ <<>> \in Seq(Relay!Message)
      BY DEF Relay!Steps
    <3>3. /\ relayJob \in [OneRequest -> [Relay!Ways -> Relay!Steps]]
          /\ relayReq \in [OneRequest -> RelayRequests]
          /\ relayInbox \in [Workers -> Seq(Relay!Message)]
      BY <3>1, <3>2 DEF Init, Relay!Init
    <3> QED BY <3>3 DEF Init, Relay!Init, Relay!TypeOK, RelayRequests
  <2>2. \A r \in OneRequest, w \in Workers : relayJob[r][w] = "no" /\ ~Out(r, w)
    BY DEF Init, Relay!Init, Relay!Ways, Out
  <2>3. /\ \A r \in OneRequest : relayJob[r]["local"] = "no" /\ relayReq[r].reply = "none"
                                 /\ relayReq[r].phase = "new"
        /\ \A w \in Workers : relayInbox[w] = <<>> /\ (relayRuns[w] => relayLease = w)
    BY DEF Init, Relay!Init, Relay!Ways
  <2> QED BY <2>1, <2>2, <2>3 DEF RelayInv, LeaseGates, NotSent, Unsent, HeardOnce,
     Distinct, TakenOnce, RepliesAreReal
<1>2. JobsInv
  <2>1. [kind |-> "install", at |-> None, phase |-> "new"] \in JobRequests
    BY DEF JobRequests, Jobs!Kinds, Jobs!Phases
  <2>2. jobsReq \in [Requests -> JobRequests] /\ Placed
    BY <2>1 DEF Init, Jobs!Init, Placed
  <2>3. JobRecordsTyped /\ RestTyped
    BY DEF Init, Jobs!Init, JobRecordsTyped, RestTyped, Jobs!Statuses
  <2>4. PanelTyped
    BY DEF Init, Jobs!Init, PanelTyped, Jobs!Statuses
  <2> QED BY <2>2, <2>3, <2>4, JobTypes DEF JobsInv
<1>3. FoldersInv
  <2>1. Folders!TypeOK
    BY DEF Init, Folders!Init, Folders!TypeOK, Folders!Phases
  <2> QED BY <2>1, CommandsAssumption DEF Init, Folders!Init, FoldersInv, Serialized, Remapping,
     Recorded, VolumesCurrent, RemapCurrent, StraysAreLoose, Before, Folders!RemountedStays,
     Folders!Told, Folders!Mounted
<1> QED BY <1>1, <1>2, <1>3 DEF CommandsInv

\* A step of the relay,
LEMMA RelayStep ==
  ASSUME CommandsAssumption, RelayInv, Relay!Next
  PROVE  RelayInv'
BY DispatchRelays, CheckHeldRelays, CheckFailsOpenRelays, SendCommandRelays, SendFailsRelays,
   DeadlineRelays, TakeReplyRelays, LocalDoneRelays, HearReplyRelays, HearCommandRelays,
   HandlerRepliesRelays, HandlerGivesUpRelays, ReplyFailsRelays, LinkDropsRelays,
   ResubscribeRelays, DoStopRelays, DoStartRelays, StartFailsRelays, RetryFiresRelays,
   ExitsRelays, WorkerDiesRelays, LeaseExpiresRelays
   DEF Relay!Next

\* of the install records,
LEMMA JobsStep ==
  ASSUME CommandsAssumption, JobsInv, Jobs!Next
  PROVE  JobsInv'
BY InstallTyped, UpdateTyped, PinTyped, UninstallTyped, GuardReadsTyped, GuardReadFailsTyped,
   PinWrittenTyped, PinRefusedTyped, UninstalledTyped, InstallsTyped, TaskFailsTyped,
   UpdateReturnsEarlyTyped, MirrorWriteTyped, MirrorWriteFailsTyped, MirrorExpiresTyped,
   FollowTyped, WorkerRestartsTyped, PanelOpensTyped, PanelListensTyped, PanelClosesTyped,
   PushArrivesTyped, LinkDropsTyped, ResubscribeTyped, PushPublishesTyped, PushFailsTyped
   DEF Jobs!Next

\* and of the folders.
LEMMA FoldersStep ==
  ASSUME CommandsAssumption, FoldersInv, Folders!Next
  PROVE  FoldersInv'
BY ListFoldersRemounts, AddFolderRemounts, RemoveFolderRemounts, RemoveUnknownRemounts,
   RequestRemounts, WindowClosesRemounts, LockFailsRemounts, TakeLockRemounts,
   SetVolumesRemounts, DiscardRemounts, CreateRemounts, RemapFailsRemounts, FinishRemounts,
   CallerCancelledRemounts, LeaderCancelledRemounts, StrayDiscardsRemounts,
   StrayCreatesRemounts, StrayFailsRemounts, WorkerRestartsRemounts
   DEF Folders!Next

\* What does not move stays in its invariant.
LEMMA Still ==
  /\ RelayInv /\ UNCHANGED relayVars => RelayInv'
  /\ JobsInv /\ UNCHANGED jobsVars => JobsInv'
  /\ FoldersInv /\ UNCHANGED foldersVars => FoldersInv'
<1>1. ASSUME RelayInv, UNCHANGED relayVars PROVE RelayInv'
  BY <1>1 DEF relayVars, RelayInv, Relay!TypeOK, LeaseGates, NotSent, Unsent, HeardOnce,
     Distinct, TakenOnce, RepliesAreReal, Out, Done
<1>2. ASSUME JobsInv, UNCHANGED jobsVars PROVE JobsInv'
  BY <1>2 DEF jobsVars, JobsInv, Jobs!TypeOK, Placed
<1>3. ASSUME FoldersInv, UNCHANGED foldersVars PROVE FoldersInv'
  BY <1>3 DEF foldersVars, FoldersInv, Folders!TypeOK, Serialized, Recorded, VolumesCurrent,
     RemapCurrent, StraysAreLoose, Before, Folders!RemountedStays, Folders!Told, Folders!Mounted
<1> QED BY <1>1, <1>2, <1>3

\* Every step of whichever component is at work keeps all three.
LEMMA StepCommands == ASSUME CommandsAssumption, CommandsInv, [Next]_vars PROVE CommandsInv'
<1>1. CASE RelayMoves
  BY <1>1, RelayStep, Still DEF RelayMoves, Unmoved, CommandsInv
<1>2. CASE JobsMoves
  BY <1>2, JobsStep, Still DEF JobsMoves, Unmoved, CommandsInv
<1>3. CASE FoldersMoves
  BY <1>3, FoldersStep, Still DEF FoldersMoves, Unmoved, CommandsInv
<1>4. CASE UNCHANGED vars
  BY <1>4, Still DEF vars, CommandsInv
<1> QED BY <1>1, <1>2, <1>3, <1>4 DEF Next

\* The invariant gives the three properties of the relay.
LEMMA RelayIsReal == ASSUME CommandsAssumption, RelayInv PROVE CommandsAreReal
<1>1. Relay!OneProcess
  BY DEF RelayInv, LeaseGates, Relay!OneProcess
<1>2. Relay!CarriedOutOnce
  BY DEF RelayInv, TakenOnce, NotSent, Unsent, Relay!CarriedOutOnce
<1>3. Relay!AnswersAreReal
  BY DEF RelayInv, NotSent, Unsent, RepliesAreReal, Done, Relay!AnswersAreReal
<1> QED BY <1>1, <1>2, <1>3 DEF CommandsAreReal

\* The inductive invariant of the three components holds in every reachable state.
THEOREM CommandsCorrect == ASSUME CommandsAssumption PROVE Spec => []CommandsInv
<1>1. Init => CommandsInv
  BY InitCommands
<1>2. CommandsInv /\ [Next]_vars => CommandsInv'
  BY StepCommands
<1> QED BY <1>1, <1>2, PTL DEF Spec

\* Type correctness of the relay, the install records and the folders.
THEOREM CommandsTypeCorrect == ASSUME CommandsAssumption PROVE Spec => []TypeOK
<1>1. CommandsInv => TypeOK
  BY DEF CommandsInv, RelayInv, JobsInv, FoldersInv, TypeOK
<1> QED BY <1>1, CommandsCorrect, PTL

\* ServiceCommandRelay: one process; a command is carried out by one other worker unless
\* the service changed hands while it was out, and beside that by the requester itself
\* only if no reply came in its time; and who is told of a success can be sure of it, and
\* has not acted himself.
THEOREM CommandsAreRealHolds == ASSUME CommandsAssumption PROVE Spec => []CommandsAreReal
<1>1. CommandsInv => CommandsAreReal
  BY RelayIsReal DEF CommandsInv
<1> QED BY <1>1, CommandsCorrect, PTL

\* folders.py and remap_folders: who was told of a remount, and did not join a remap that
\* had begun, has his folder mounted for as long as it is mapped, unless a remap was
\* cancelled while it recreated the container.
THEOREM RemountedStaysHolds == ASSUME CommandsAssumption PROVE Spec => []RemountedStays
<1>1. CommandsInv => RemountedStays
  BY DEF CommandsInv, FoldersInv, RemountedStays
<1> QED BY <1>1, CommandsCorrect, PTL
=============================================================================

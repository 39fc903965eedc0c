----------------------------- MODULE VpnDialing -----------------------------
(***************************************************************************)
(* VPN profiles and the dialer (src/vpn/profiles.py, src/vpn/dialer.py,    *)
(* src/api/vpn.py).                                                        *)
(*                                                                         *)
(* Profiles live in one directory that every worker and every terminal of  *)
(* the workspace writes: a file per profile and an index.  The index is    *)
(* read, changed and written under a flock.  A dial has two legs on a      *)
(* remote host reached over a bridge that may lose the answer; the host    *)
(* may also take the tunnel down on its own (the dead-man's switch).  What *)
(* the process remembers of its dials is a file (dial_state.json) that all *)
(* workers share.                                                          *)
(*                                                                         *)
(* A profile's text is a sequence of kinds of lines; keys, addresses and   *)
(* redaction are left out, and of an OpenVPN text only whether it is       *)
(* accepted.                                                               *)
(***************************************************************************)
EXTENDS Naturals, Sequences

CONSTANTS
    Workers,     \* worker processes
    Names,       \* profile names
    Texts,       \* WireGuard texts, sequences of Lines
    None,        \* no profile, no holder
    MaxOps,      \* bound: requests
    MaxFaults    \* bound: crashes, lost answers, refusals, reverts, files dropped by hand

Types == {"wireguard", "openvpn"}
Lines == {"[interface]", "[peer]", "private", "public", "hook", "junk"}

VARIABLES
    lock,      \* holder of profiles.json.lock
    files,     \* <<name, type>> -> text on disk, or None
    index,     \* name -> type in profiles.json, or None
    req,       \* worker -> the request it serves
    keyFiles,  \* name -> text in data/vpn/dial/<name>.json, or None
    dial,      \* dial_state.json
    tunnel,    \* the profile whose tunnel the host has up, or None
    routed,    \* the container's egress goes through it
    kept,      \* name -> type of the last answered save, or None (no code)
    answer,    \* what the last status answered, and the tunnel it measured
    ops, faults

vpnVars == <<lock, files, index, req, keyFiles, dial, tunnel, routed, kept,
             answer, ops, faults>>

Idle == [do |-> "nothing", name |-> None, type |-> None, text |-> None, seen |-> None,
         recorded |-> None]
NoFile == <<>>      \* the empty text: validate() refuses it, so it is never stored

TypeOK ==
    /\ lock \in Workers \cup {None}
    /\ files \in [Names \X Types -> Texts \cup {NoFile}]
    /\ index \in [Names -> Types \cup {None}]
    /\ \A w \in Workers :
        req[w].do \in {"nothing", "save", "save index", "delete", "delete index",
                       "list", "read", "up", "route", "record", "give up",
                       "unroute", "down", "forget", "give up down", "measure"}
    /\ keyFiles \in [Names -> Texts \cup {NoFile}]
    /\ dial.action \in {"none", "connecting", "connect", "disconnect"}
    /\ tunnel \in Names \cup {None}
    /\ routed \in BOOLEAN
    /\ kept \in [Names -> Types \cup {None}]
    /\ ops \in 0..MaxOps
    /\ faults \in 0..MaxFaults

Init ==
    /\ lock = None
    /\ files = [f \in Names \X Types |-> NoFile]
    /\ index = [n \in Names |-> None]
    /\ req = [w \in Workers |-> Idle]
    /\ keyFiles = [n \in Names |-> NoFile]
    /\ dial = [action |-> "none", ok |-> FALSE, profile |-> None]
    /\ tunnel = None
    /\ routed = FALSE
    /\ kept = [n \in Names |-> None]
    /\ answer = [state |-> "none", active |-> None, measured |-> None]
    /\ ops = 0
    /\ faults = 0

Fault == faults < MaxFaults /\ faults' = faults + 1

Request(w, r) ==
    /\ req[w] = Idle
    /\ ops < MaxOps
    /\ ops' = ops + 1
    /\ req' = [req EXCEPT ![w] = r]

Goes(w, step) == req' = [req EXCEPT ![w].do = step]
Ends(w) == req' = [req EXCEPT ![w] = Idle]

(***************************************************************************)
(* Texts.  _iter_wg_kv is the one walk both parsers take: a forbidden key, *)
(* a line that is no pair, and a text with no section are refused.         *)
(***************************************************************************)
Walks(text) ==
    /\ \A i \in DOMAIN text : text[i] \notin {"hook", "junk"}
    /\ \E i \in DOMAIN text : text[i] \in {"[interface]", "[peer]"}

Validates(type, text) ==
    /\ text # NoFile
    /\ type = "wireguard" => Walks(text)

\* The section a line stands in: the last header above it.
In(text, i, header) ==
    \E h \in 1..i : /\ text[h] = header
                    /\ \A j \in h + 1..i : text[j] \notin {"[interface]", "[peer]"}

Peers(text) == {i \in DOMAIN text : text[i] = "public" /\ In(text, i, "[peer]")}

\* _parse_wireguard_fields: the walk again, one private key, one peer.
KeysOf(text) ==
    /\ \E i \in DOMAIN text : text[i] = "private" /\ In(text, i, "[interface]")
    /\ \E i \in Peers(text) : \A j \in Peers(text) : i = j

Parses(text) == Walks(text) /\ KeysOf(text)

(***************************************************************************)
(* The store.  _locked(): an RLock in the process, and a flock.            *)
(***************************************************************************)
TakeRLockOnly(w) == UNCHANGED lock

TakeLock(w) == lock = None /\ lock' = w

Save(w, n, type, text) ==
    /\ Validates(type, text)
    /\ Request(w, [Idle EXCEPT !.do = "save", !.name = n, !.type = type,
                   !.text = text])
    /\ UNCHANGED <<lock, files, index, keyFiles, dial, tunnel, routed, kept,
                   answer, faults>>

\* nord_import: a text from the provider's CDN goes the way of any other.
Import(w, n, text) == Save(w, n, "openvpn", text)

\* Locked: the file is truncated and written, then the index is read.
SaveFile(w) ==
    /\ req[w].do = "save"
    /\ TakeLock(w)
    /\ files' = [files EXCEPT ![<<req[w].name, req[w].type>>] = req[w].text]
    /\ req' = [req EXCEPT ![w].do = "save index", ![w].seen = index]
    /\ UNCHANGED <<index, keyFiles, dial, tunnel, routed, kept, answer, ops, faults>>

SaveIndex(w) ==
    /\ req[w].do = "save index"
    /\ index' = [req[w].seen EXCEPT ![req[w].name] = req[w].type]
    /\ kept' = [kept EXCEPT ![req[w].name] = req[w].type]
    /\ lock' = None
    /\ Ends(w)
    /\ UNCHANGED <<files, keyFiles, dial, tunnel, routed, answer, ops, faults>>

Delete(w, n) ==
    /\ Request(w, [Idle EXCEPT !.do = "delete", !.name = n])
    /\ UNCHANGED <<lock, files, index, keyFiles, dial, tunnel, routed, kept,
                   answer, faults>>

\* Locked: no such entry is a 404; else the file of the entry's type goes.
DeleteFile(w) ==
    /\ req[w].do = "delete"
    /\ IF index[req[w].name] = None
       THEN /\ lock = None
            /\ Ends(w)
            /\ UNCHANGED <<lock, files, kept>>
       ELSE /\ TakeLock(w)
            /\ files' = [files EXCEPT ![<<req[w].name, index[req[w].name]>>] = NoFile]
            /\ kept' = [kept EXCEPT ![req[w].name] = None]
            /\ req' = [req EXCEPT ![w].do = "delete index", ![w].seen = index]
    /\ UNCHANGED <<index, keyFiles, dial, tunnel, routed, answer, ops, faults>>

DeleteIndex(w) ==
    /\ req[w].do = "delete index"
    /\ index' = [req[w].seen EXCEPT ![req[w].name] = None]
    /\ lock' = None
    /\ Ends(w)
    /\ UNCHANGED <<files, keyFiles, dial, tunnel, routed, kept, answer, ops, faults>>

OnDisk(n) == {t \in Types : files[<<n, t>>] # NoFile}

\* list_configs writes what it reconciled: a file nobody indexed gets an entry
\* (of either type, as the directory lists them), an entry with no file goes.
List(w) ==
    /\ req[w] = Idle
    /\ lock = None
    /\ ops < MaxOps
    /\ ops' = ops + 1
    /\ index' \in {i \in [Names -> Types \cup {None}] :
                     \A n \in Names :
                        IF OnDisk(n) = {} THEN i[n] = None
                        ELSE IF index[n] # None THEN i[n] = index[n]
                        ELSE i[n] \in OnDisk(n)}
    /\ UNCHANGED <<lock, files, req, keyFiles, dial, tunnel, routed, kept, answer,
                   faults>>

\* A file a terminal of the workspace writes: nothing validates it.
Dropped(n, text) ==
    /\ Fault
    /\ files[<<n, "wireguard">>] = NoFile
    /\ files' = [files EXCEPT ![<<n, "wireguard">>] = text]
    /\ UNCHANGED <<lock, index, req, keyFiles, dial, tunnel, routed, kept, answer,
                   ops>>

(***************************************************************************)
(* connect(): external-up, then external-route.                            *)
(***************************************************************************)
Connect(w, n) ==
    /\ Request(w, [Idle EXCEPT !.do = "read", !.name = n])
    /\ dial' = [action |-> "connecting", ok |-> FALSE, profile |-> n]
    /\ UNCHANGED <<lock, files, index, keyFiles, tunnel, routed, kept, answer, faults>>

Dialable(n) == index[n] = "wireguard" /\ Parses(files[<<n, "wireguard">>])

ReadFields(w) ==
    /\ req[w].do = "read"
    /\ lock = None
    /\ IF Dialable(req[w].name)
       THEN /\ keyFiles' = [keyFiles EXCEPT ![req[w].name] =
                              files[<<req[w].name, "wireguard">>]]
            /\ Goes(w, "up")
       ELSE Goes(w, "give up") /\ UNCHANGED keyFiles
    /\ UNCHANGED <<lock, files, index, dial, tunnel, routed, kept, answer, ops, faults>>

\* The host brings the tunnel up, or refuses, or does it and the answer is
\* lost.  It has one tunnel: a second profile is refused or takes its place.
Up(w) ==
    /\ req[w].do = "up"
    /\ \/ tunnel' = req[w].name /\ Goes(w, "route") /\ UNCHANGED faults
       \/ tunnel' = req[w].name /\ Goes(w, "give up") /\ Fault
       \/ UNCHANGED tunnel /\ Goes(w, "give up") /\ Fault
       \/ /\ tunnel \notin {None, req[w].name}
          /\ UNCHANGED <<tunnel, faults>>
          /\ Goes(w, "give up")
    /\ routed' = (routed /\ tunnel' = tunnel)
    /\ UNCHANGED <<lock, files, index, keyFiles, dial, kept, answer, ops>>

Route(w) ==
    /\ req[w].do = "route"
    /\ \/ /\ tunnel = req[w].name
          /\ routed' = TRUE
          /\ Goes(w, "record")
          /\ UNCHANGED faults
       \/ tunnel # req[w].name /\ Goes(w, "give up") /\ UNCHANGED <<routed, faults>>
       \/ Goes(w, "give up") /\ Fault /\ UNCHANGED routed
    /\ UNCHANGED <<lock, files, index, keyFiles, dial, tunnel, kept, answer, ops>>

\* Either way the outcome is what dial_state.json says from now on.
Connected(w) ==
    /\ req[w].do \in {"record", "give up"}
    /\ dial' = [action |-> "connect", ok |-> req[w].do = "record",
                profile |-> req[w].name]
    /\ Ends(w)
    /\ UNCHANGED <<lock, files, index, keyFiles, tunnel, routed, kept, answer, ops,
                   faults>>

(***************************************************************************)
(* disconnect(): external-unroute, then external-down.                     *)
(***************************************************************************)
Disconnect(w) ==
    /\ Request(w, [Idle EXCEPT !.do = "unroute",
                     !.name = IF dial.action = "connect" /\ dial.ok THEN dial.profile
                              ELSE None])
    /\ UNCHANGED <<lock, files, index, keyFiles, dial, tunnel, routed, kept, answer,
                   faults>>

Unroute(w) ==
    /\ req[w].do = "unroute"
    /\ \/ routed' = FALSE /\ Goes(w, "down") /\ UNCHANGED faults
       \/ Goes(w, "give up down") /\ Fault /\ routed' \in {routed, FALSE}
    /\ UNCHANGED <<lock, files, index, keyFiles, dial, tunnel, kept, answer, ops>>

\* With no interface named the host takes down the tunnel it has.
Down(w) ==
    /\ req[w].do = "down"
    /\ LET down == IF req[w].name \in {None, tunnel} THEN None ELSE tunnel
       IN \/ tunnel' = down /\ Goes(w, "forget") /\ UNCHANGED faults
          \/ Goes(w, "give up down") /\ Fault /\ tunnel' \in {tunnel, down}
    /\ routed' = (routed /\ tunnel' # None)
    /\ UNCHANGED <<lock, files, index, keyFiles, dial, kept, answer, ops>>

Disconnected(w) ==
    /\ req[w].do \in {"forget", "give up down"}
    /\ keyFiles' = IF req[w].do = "forget" /\ req[w].name # None
                   THEN [keyFiles EXCEPT ![req[w].name] = NoFile] ELSE keyFiles
    /\ dial' = [action |-> "disconnect", ok |-> req[w].do = "forget", profile |-> None]
    /\ Ends(w)
    /\ UNCHANGED <<lock, files, index, tunnel, routed, kept, answer, ops, faults>>

\* The host's dead-man's switch, which tells nobody.
Reverts ==
    /\ tunnel # None
    /\ Fault
    /\ tunnel' = None
    /\ routed' = FALSE
    /\ UNCHANGED <<lock, files, index, req, keyFiles, dial, kept, answer, ops>>

(***************************************************************************)
(* status(): the record first, then the measurement.                       *)
(***************************************************************************)
Status(w) ==
    /\ Request(w, [Idle EXCEPT !.do = "measure", !.recorded = dial])
    /\ UNCHANGED <<lock, files, index, keyFiles, dial, tunnel, routed, kept, answer,
                   faults>>

Says(state, active) ==
    answer' = [state |-> state, active |-> active, measured |-> tunnel]

Measure(w) ==
    /\ req[w].do = "measure"
    /\ Ends(w)
    /\ LET recorded == req[w].recorded
           connecting == recorded.action = "connecting"
       IN \/ tunnel # None /\ Says("connected", recorded.profile) /\ UNCHANGED faults
          \/ /\ tunnel = None
             /\ IF connecting THEN Says("connecting", recorded.profile)
                ELSE Says("disconnected", None)
             /\ UNCHANGED faults
          \/ /\ Fault           \* the host could not be asked
             /\ IF connecting THEN Says("connecting", recorded.profile)
                ELSE Says("unknown", None)
    /\ UNCHANGED <<lock, files, index, keyFiles, dial, tunnel, routed, kept, ops>>

\* A worker dies: its request with it, its flock with it.
Dies(w) ==
    /\ req[w] # Idle
    /\ Fault
    /\ lock' = IF lock = w THEN None ELSE lock
    /\ kept' = IF req[w].do = "save index"
               THEN [kept EXCEPT ![req[w].name] = None] ELSE kept
    /\ Ends(w)
    /\ UNCHANGED <<files, index, keyFiles, dial, tunnel, routed, answer, ops>>

Done ==   \* every bound is used up
    /\ \A w \in Workers : req[w] = Idle
    /\ UNCHANGED vpnVars

Next ==
    \/ \E w \in Workers :
        \/ \E n \in Names : Connect(w, n) \/ Delete(w, n)
        \/ \E n \in Names, t \in Texts, type \in Types : Save(w, n, type, t)
        \/ \E n \in Names, t \in Texts : Import(w, n, t)
        \/ SaveFile(w) \/ SaveIndex(w) \/ DeleteFile(w) \/ DeleteIndex(w) \/ List(w)
        \/ ReadFields(w) \/ Up(w) \/ Route(w) \/ Connected(w)
        \/ Disconnect(w) \/ Unroute(w) \/ Down(w) \/ Disconnected(w)
        \/ Status(w) \/ Measure(w) \/ Dies(w)
    \/ \E n \in Names, t \in Texts : Dropped(n, t)
    \/ Reverts
    \/ Done

Spec == Init /\ [][Next]_vpnVars

(***************************************************************************)
(* Properties                                                              *)
(***************************************************************************)
\* A profile whose save was answered stays in the index, with the type it was
\* saved with, until it is saved or deleted again, whatever other workers
\* save, delete or list meanwhile and wherever one of them dies: the lost
\* update _locked() is there for.
SavedStaysIndexed ==
    \A n \in Names :
        kept[n] # None => \/ index[n] = kept[n]
                          \/ \E w \in Workers : lock = w /\ req[w].name = n

\* What is handed to the host to dial is a text both rules accept: no hook, one
\* key, one peer (a key outside [Peer] is ignored); also when the profile was dropped
\* into the directory by hand, indexed by a listing and never validated.
DialsOnlyAccepted ==
    \A n \in Names :
        keyFiles[n] # NoFile =>
            /\ Validates("wireguard", keyFiles[n])
            /\ \A i \in DOMAIN keyFiles[n] : keyFiles[n][i] # "hook"
            /\ \A i, j \in Peers(keyFiles[n]) : i = j

\* status(): the live measurement wins over the record whenever the two
\* disagree, so the profile it names as active is the one whose tunnel is up.
ActiveIsTheTunnel ==
    answer.state = "connected" => answer.active = answer.measured
=============================================================================

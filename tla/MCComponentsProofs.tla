------------------------- MODULE MCComponentsProofs -------------------------
(***************************************************************************)
(* Proofs about MCComponents, whose behaviours are each about one          *)
(* component: the settings that every worker keeps, the install jobs, the  *)
(* loads and unloads of an app, and the passes that install what apps      *)
(* require.  A component's invariant holds whichever component moves, for  *)
(* the others leave its variables alone.  MCHostProofs has what an app has *)
(* on the host.                                                            *)
(***************************************************************************)
EXTENDS MCComponents, FiniteSetTheorems, TLAPS

-----------------------------------------------------------------------------
(* An app's settings.  The invariant has a part for each of the three         *)
(* properties: Floor, what a request is served with, holds as long as the app *)
(* is not uninstalled; Kept, that no acknowledged setting is lost, as long as *)
(* no loss is recorded; Follows, that a worker that has not the mirror's row  *)
(* is on the way to it, as long as none missed the broadcast.                 *)

Values == [SettingKeys -> Nat]
MaybeGone == Values \union {Config!Gone}

Phases == {"new", "gate", "floor", "refresh", "go", "mirror", "stamp", "announce", "done"}
Saving == {"mirror", "stamp", "announce"}
Floored == {"floor", "refresh"}

RequestRecords ==
  [phase : Phases, at : Workers \union {None}, kind : {"read"} \union Config!Changes,
   key : SettingKeys \union {None}, carries : MaybeGone, tok : Nat, since : Values]

ConfigShapes ==
  /\ configMem \in [Workers -> MaybeGone] /\ configRows \in [Workers -> MaybeGone]
  /\ configMirror \in MaybeGone /\ configSnap \in MaybeGone
  /\ configStamped \in Values /\ configAcked \in Values
  /\ configToken \in Nat /\ configSeen \in [Workers -> Nat]
  /\ configLock \in [Workers -> Workers \union Requests \union {None}]
  /\ configGate \in [Workers -> Requests \union {None}]
  /\ configReq \in [Requests -> RequestRecords]
  /\ configSaves \in Nat

\* What a request has with it in each phase.
Underway ==
  /\ \A w \in Workers : configSeen[w] <= configToken
  /\ \A r \in Requests :
       /\ Config!InFlight(r) =>
              configReq[r].at \in Workers /\ configReq[r].key \in SettingKeys
       /\ configReq[r].phase \in Saving =>
              configReq[r].kind = "save" /\ configReq[r].carries \in Values
       /\ configReq[r].phase \in Floored =>
            /\ configReq[r].tok <= configToken
            /\ configSeen[configReq[r].at] < configToken
            /\ configGate[configReq[r].at] = r
       /\ configReq[r].phase = "refresh" => configLock[configReq[r].at] = r

\* While no change has overlapped another, and nobody else stamps what one has read.
Alone == "overlapped" \notin configSlips

OneChange ==
  /\ \A r, s \in Requests :
       Config!InFlight(r) /\ Config!InFlight(s) /\ configReq[r].kind # "read"
           /\ configReq[s].kind # "read" => r = s
  /\ \A r \in Requests :
       configReq[r].phase \in Floored /\ configReq[r].kind # "read" =>
           configReq[r].tok = configToken

\* No setting is newer than the last save, and a save under way is the last.
AtMost(c, n) == c # Config!Gone => \A k \in SettingKeys : c[k] <= n

Sizes ==
  /\ \A w \in Workers : AtMost(configMem[w], configSaves)
         /\ AtMost(configRows[w], configSaves)
  /\ AtMost(configMirror, configSaves) /\ AtMost(configSnap, configSaves)
  /\ AtMost(configStamped, configSaves) /\ AtMost(configAcked, configSaves)
  /\ \A r \in Requests :
       /\ AtMost(configReq[r].since, configSaves)
       /\ configReq[r].phase \in Saving =>
            AtMost(configReq[r].carries, configSaves)
                /\ configReq[r].carries[configReq[r].key] = configSaves

\* A request at w passes the floor as it comes.
UpToDate(w) == configToken = 0 \/ configSeen[w] = configToken

RowIsNew ==
  /\ configMirror # Config!Gone /\ Config!AsNewAs(configMirror, configStamped)
  /\ configToken = 0 => configStamped = Config!Defaults

FloorAt(w) ==
  /\ Config!Loaded(w) \/ configLock[w] = w
  /\ configLock[w] # None => configRows[w] # Config!Gone
  /\ UpToDate(w) =>
       /\ Config!Loaded(w) => Config!AsNewAs(configMem[w], configStamped)
       /\ configLock[w] # None => Config!AsNewAs(configRows[w], configStamped)

FloorOf(r) ==
  /\ Config!AsNewAs(configStamped, configReq[r].since)
  /\ configReq[r].phase = "go" =>
       /\ Config!Loaded(configReq[r].at) =>
              Config!AsNewAs(configMem[configReq[r].at], configReq[r].since)
       /\ configLock[configReq[r].at] # None =>
              Config!AsNewAs(configRows[configReq[r].at], configReq[r].since)
  /\ configReq[r].phase = "refresh" =>
       /\ Config!AsNewAs(configRows[configReq[r].at], configReq[r].since)
       /\ configReq[r].tok = configToken =>
              Config!AsNewAs(configRows[configReq[r].at], configStamped)

Floor ==
  "removed" \notin configSlips =>
    RowIsNew /\ (\A v \in Workers : FloorAt(v)) /\ (\A r \in Requests : FloorOf(r))

\* Every acknowledged setting, and the one that is about to be.
AtLeast(c, d) == \A k \in SettingKeys : c[k] >= d[k]

Safe(c, a, q) ==
  /\ AtLeast(c, a)
  /\ \A r \in Requests : q[r].phase = "announce" => AtLeast(c, q[r].carries)

Keeps(c) == Safe(c, configAcked, configReq)

Lossy == {"unfloored", "unstamped", "cut", "rowless"}

KeptOnDisk ==
  /\ configToken = 0 =>
         configAcked = Config!Defaults
             /\ \A r \in Requests : configReq[r].phase # "announce"
  /\ Keeps(Config!ConfigForInstall)
  /\ configMirror # Config!Gone => Keeps(configMirror)

KeptAt(w) ==
  UpToDate(w) =>
    /\ Config!Loaded(w) => Keeps(configMem[w])
    /\ configLock[w] # None /\ configRows[w] # Config!Gone => Keeps(configRows[w])

KeptBy(r) ==
  /\ configReq[r].phase = "refresh" /\ configReq[r].tok = configToken =>
       configRows[configReq[r].at] = Config!Gone \/ Keeps(configRows[configReq[r].at])
  /\ configReq[r].phase = "go" /\ configReq[r].kind # "read" => UpToDate(configReq[r].at)
  /\ configReq[r].phase \in Saving =>
         AtLeast(configReq[r].carries, configAcked) /\ configSnap = configReq[r].carries
  /\ configReq[r].phase \in {"stamp", "announce"} =>
         configMirror \in {Config!Gone, configReq[r].carries}

Kept ==
  configSlips \cap Lossy = {} =>
    KeptOnDisk /\ (\A v \in Workers : KeptAt(v)) /\ (\A r \in Requests : KeptBy(r))

\* Somebody has yet to tell w, or w has the row, or the lock and the row to take.
Follows ==
  configSlips \cap {"unheard", "cut"} = {} =>
    \A w \in Workers :
      \/ w \in configHeard
      \/ \E r \in Requests : configReq[r].phase \in Saving
      \/ configLock[w] = w /\ configRows[w] = configMirror
      \/ configLock[w] = None /\ configMem[w] = configMirror
      \/ configLock[w] \in Requests /\ configMem[w] = configMirror
             /\ configRows[w] = configMirror

\* What holds however changes overlap, and what holds until they do.
ConfigBase == ConfigShapes /\ Underway /\ Follows

ConfigInv == ConfigBase /\ OneChange /\ Sizes /\ Floor /\ Kept

PropagationInv == ConfigBase /\ (Alone => ConfigInv)

-----------------------------------------------------------------------------
LEMMA GoneIsNoValue == Config!Gone \notin Values /\ Config!Defaults \in Values
<1>1. DOMAIN Config!Gone = {}
  BY DEF Config!Gone
<1> QED BY <1>1, SettingsAssumption DEF Values, Config!Gone, Config!Defaults

LEMMA Newer ==
  /\ \A a, b, c \in Values : Config!AsNewAs(a, b) /\ Config!AsNewAs(b, c) =>
         Config!AsNewAs(a, c)
  /\ \A a \in Values : Config!AsNewAs(a, a) /\ Config!AsNewAs(a, Config!Defaults)
<1>1. ASSUME NEW a \in Values, NEW b \in Values, NEW c \in Values, Config!AsNewAs(a, b),
             Config!AsNewAs(b, c)
      PROVE  Config!AsNewAs(a, c)
  <2> SUFFICES ASSUME NEW k \in SettingKeys PROVE \E j \in SettingKeys : a[j] >= c[k]
    BY DEF Config!AsNewAs
  <2>1. PICK i \in SettingKeys : b[i] >= c[k]
    BY <1>1 DEF Config!AsNewAs
  <2>2. PICK j \in SettingKeys : a[j] >= b[i]
    BY <1>1 DEF Config!AsNewAs
  <2> QED BY <2>1, <2>2 DEF Values
<1>2. \A a \in Values : Config!AsNewAs(a, a) /\ Config!AsNewAs(a, Config!Defaults)
  BY DEF Config!AsNewAs, Values, Config!Defaults
<1> QED BY <1>1, <1>2

\* A config with the last save in it is as new as any.
LEMMA Newest ==
  \A a, b \in Values, n \in Nat, k \in SettingKeys :
    a[k] = n /\ AtMost(b, n) /\ b # Config!Gone => Config!AsNewAs(a, b)
BY DEF Config!AsNewAs, Values, AtMost

LEMMA Dominates ==
  /\ \A a, b, c \in Values : AtLeast(a, b) /\ AtLeast(b, c) => AtLeast(a, c)
  /\ \A a \in Values : AtLeast(a, a) /\ AtLeast(a, Config!Defaults)
  /\ \A a, b, c \in Values, k \in SettingKeys :
       AtLeast(a, b) /\ AtLeast(a, c) => AtLeast(a, [b EXCEPT ![k] = c[k]])
  /\ \A a, b \in Values, n \in Nat, k \in SettingKeys :
       AtLeast(a, b) /\ AtMost(b, n) /\ b # Config!Gone =>
           AtLeast([a EXCEPT ![k] = n + 1], b)
BY DEF AtLeast, Values, AtMost, Config!Defaults

LEMMA Zeroes == \A n \in Nat : AtMost(Config!Defaults, n)
BY DEF AtMost, Config!Defaults

LEMMA Grows == \A c \in MaybeGone, n \in Nat : AtMost(c, n) => AtMost(c, n + 1)
BY DEF AtMost, MaybeGone, Values

\* One request moves; the rest stay.
LEMMA Moves ==
  ASSUME configReq \in [Requests -> RequestRecords], NEW r \in Requests,
         NEW rec \in RequestRecords, configReq' = [configReq EXCEPT ![r] = rec]
  PROVE  /\ configReq' \in [Requests -> RequestRecords] /\ configReq'[r] = rec
         /\ \A s \in Requests \ {r} : configReq'[s] = configReq[s]
OBVIOUS

LEMMA Goes ==
  ASSUME configReq \in [Requests -> RequestRecords], NEW r \in Requests, NEW p \in Phases,
         Config!To(r, p)
  PROVE  /\ configReq' \in [Requests -> RequestRecords] /\ configReq'[r].phase = p
         /\ configReq'[r].at = configReq[r].at /\ configReq'[r].kind = configReq[r].kind
         /\ configReq'[r].key = configReq[r].key
         /\ configReq'[r].carries = configReq[r].carries
         /\ configReq'[r].tok = configReq[r].tok
         /\ configReq'[r].since = configReq[r].since
         /\ \A s \in Requests \ {r} : configReq'[s] = configReq[s]
BY DEF Config!To, RequestRecords

LEMMA Blank ==
  /\ Config!Idle \in RequestRecords /\ Config!Over \in RequestRecords
  /\ Config!Over.phase = "done" /\ Config!Over.since = Config!Defaults
  /\ Config!Idle.phase = "new" /\ Config!Idle.since = Config!Defaults
BY GoneIsNoValue DEF Config!Idle, Config!Over, RequestRecords, MaybeGone, Phases

\* What the shapes say, one thing at a time.
LEMMA Typed ==
  ASSUME ConfigShapes
  PROVE  /\ \A w \in Workers : configMem[w] \in MaybeGone /\ configRows[w] \in MaybeGone
                /\ configSeen[w] \in Nat
         /\ \A w \in Workers : Config!Loaded(w) => configMem[w] \in Values
         /\ \A w \in Workers : configRows[w] # Config!Gone => configRows[w] \in Values
         /\ configMirror # Config!Gone => configMirror \in Values
         /\ configSnap # Config!Gone => configSnap \in Values
         /\ configStamped \in Values /\ configAcked \in Values
         /\ configToken \in Nat /\ configSaves \in Nat
         /\ \A r \in Requests : configReq[r] \in RequestRecords
                /\ configReq[r].since \in Values
         /\ \A r \in Requests : configReq[r].tok \in Nat
BY DEF ConfigShapes, MaybeGone, RequestRecords, Config!Loaded

\* Every request under way has a worker of its own, and its state tells it apart.
LEMMA Located ==
  ASSUME Underway
  PROVE  /\ \A r \in Requests : configReq[r].phase \notin {"new", "done"} =>
                configReq[r].at \in Workers
         /\ \A r \in Requests : configReq[r].phase \in Saving =>
                configReq[r].carries \in Values
         /\ \A r \in Requests : configReq[r].phase = "refresh" =>
                configLock[configReq[r].at] = r
BY DEF Underway, Config!InFlight

LEMMA InitConfig == ASSUME Config!Init PROVE ConfigInv
<1> USE DEF Config!Init
<1>1. \A r \in Requests : configReq[r].phase = "new"
          /\ configReq[r].since = Config!Defaults
  BY DEF Config!Idle
<1>2. ConfigShapes
  BY Blank, GoneIsNoValue DEF ConfigShapes, MaybeGone
<1>3. Underway /\ OneChange
  BY <1>1 DEF Underway, OneChange, Config!InFlight, Saving, Floored
<1>4. Sizes
  BY <1>1 DEF Sizes, AtMost, Config!Defaults, Saving, Config!Gone
<1>5. Floor
  BY <1>1, Newer, GoneIsNoValue DEF Floor, RowIsNew, FloorAt, FloorOf, Config!Loaded
<1>6. Kept
  <2>1. Config!ConfigForInstall = Config!Defaults
    BY DEF Config!ConfigForInstall
  <2> QED BY <2>1, <1>1, Dominates, GoneIsNoValue DEF Kept, KeptOnDisk, KeptAt, KeptBy,
     Keeps, Safe, Saving
<1>7. Follows
  BY DEF Follows
<1> QED BY <1>2, <1>3, <1>4, <1>5, <1>6, <1>7 DEF ConfigInv, ConfigBase

LEMMA StutterBase ==
  ASSUME ConfigBase, UNCHANGED Config!configVars
  PROVE  ConfigBase'
<1> USE DEF ConfigBase
<1>1. ConfigShapes'
  BY DEF ConfigShapes, Config!configVars
<1>2. Underway'
  BY DEF Underway, Config!InFlight, Config!configVars
<1>3. Follows'
  BY DEF Follows, Config!configVars
<1> QED BY <1>1, <1>2, <1>3

LEMMA StutterKeeps ==
  ASSUME ConfigInv, UNCHANGED Config!configVars
  PROVE  ConfigInv'
<1> USE DEF ConfigInv, ConfigBase
<1>1. UNCHANGED Config!configVars
  OBVIOUS
<1>2. ConfigBase'
  BY StutterBase
<1>3. OneChange'
  BY DEF OneChange, Config!InFlight, Floored, Config!configVars
<1>4. Sizes'
  BY DEF Sizes, Config!configVars
<1>5. Floor'
  BY DEF Floor, RowIsNew, FloorAt, FloorOf, UpToDate, Config!Loaded, Config!configVars
<1>6. Kept'
  BY DEF Kept, KeptOnDisk, KeptAt, KeptBy, Keeps, Config!ConfigForInstall, UpToDate,
     Config!Loaded, Config!configVars
<1> QED BY <1>2, <1>3, <1>4, <1>5, <1>6

LEMMA ServeBase ==
  ASSUME ConfigBase, NEW r \in Requests, Config!Serve(r)
  PROVE  ConfigBase'
<1> USE DEF ConfigBase
<1>1. /\ configReq' \in [Requests -> RequestRecords] /\ configReq'[r].phase = "done"
      /\ configReq'[r].since = Config!Defaults
      /\ \A s \in Requests \ {r} : configReq'[s] = configReq[s]
  BY Blank DEF ConfigShapes, Config!Serve, Config!Ends
<1>2. /\ UNCHANGED <<configMem, configMirror, configSnap, configToken, configSeen,
                     configHeard, configLock, configGate, configRows, configSaves,
                     configFaults, configStamped, configAcked, configSlips>>
      /\ configReq[r].phase = "go"
  BY DEF Config!Serve, Config!shared, Config!history
<1>3. ConfigShapes'
  BY <1>1, <1>2 DEF ConfigShapes
<1>4. Underway'
  BY <1>1, <1>2 DEF Underway, Config!InFlight, Saving, Floored
<1>5. Follows'
  BY <1>1, <1>2 DEF Follows, Saving
<1> QED BY <1>3, <1>4, <1>5

LEMMA ServeKeeps ==
  ASSUME ConfigInv, NEW r \in Requests, Config!Serve(r)
  PROVE  ConfigInv'
<1> USE DEF ConfigInv, ConfigBase
<1>1. /\ configReq' \in [Requests -> RequestRecords] /\ configReq'[r].phase = "done"
      /\ configReq'[r].since = Config!Defaults
      /\ \A s \in Requests \ {r} : configReq'[s] = configReq[s]
  BY Blank DEF ConfigShapes, Config!Serve, Config!Ends
<1>2. /\ UNCHANGED <<configMem, configMirror, configSnap, configToken, configSeen,
                     configHeard, configLock, configGate, configRows, configSaves,
                     configFaults, configStamped, configAcked, configSlips>>
      /\ configReq[r].phase = "go"
  BY DEF Config!Serve, Config!shared, Config!history
<1>3. ConfigBase'
  BY ServeBase
<1>4. OneChange'
  BY <1>1, <1>2 DEF OneChange, Config!InFlight, Floored
<1>5. Sizes'
  BY <1>1, <1>2, Typed, Zeroes DEF Sizes, Saving
<1>6. Floor'
  BY <1>1, <1>2, Typed, Newer DEF Floor, RowIsNew, FloorAt, FloorOf, UpToDate,
     Config!Loaded
<1>7. Kept'
  BY <1>1, <1>2 DEF Kept, KeptOnDisk, KeptAt, KeptBy, Keeps, Safe,
     Config!ConfigForInstall, UpToDate, Config!Loaded, Saving
<1> QED BY <1>3, <1>4, <1>5, <1>6, <1>7

LEMMA BeginRefreshBase ==
  ASSUME ConfigBase, NEW r \in Requests, Config!BeginRefresh(r)
  PROVE  ConfigBase'
<1> USE DEF ConfigBase
<1>1. /\ configReq' \in [Requests -> RequestRecords] /\ configReq'[r].phase = "refresh"
      /\ configReq'[r].at = configReq[r].at /\ configReq'[r].kind = configReq[r].kind
      /\ configReq'[r].key = configReq[r].key
      /\ configReq'[r].carries = configReq[r].carries
      /\ configReq'[r].tok = configReq[r].tok /\ configReq'[r].since = configReq[r].since
      /\ \A s \in Requests \ {r} : configReq'[s] = configReq[s]
  BY Goes DEF ConfigShapes, Config!BeginRefresh, Phases
<1>2. /\ UNCHANGED <<configMem, configMirror, configSnap, configToken, configSeen,
                     configHeard, configGate, configSaves, configStamped, configAcked,
                     configSlips>>
      /\ configReq[r].phase = "floor" /\ configReq[r].at \in Workers
      /\ configLock[configReq[r].at] = None
  BY DEF Config!BeginRefresh, Config!shared, Config!history, Underway, Config!InFlight
<1>3. /\ configLock' = [configLock EXCEPT ![configReq[r].at] = r]
      /\ configRows' = [configRows EXCEPT ![configReq[r].at] = configMirror]
      /\ configLock'[configReq[r].at] = r /\ configRows'[configReq[r].at] = configMirror
      /\ \A v \in Workers \ {configReq[r].at} : configLock'[v] = configLock[v]
             /\ configRows'[v] = configRows[v]
  BY <1>2 DEF Config!BeginRefresh, ConfigShapes
<1>4. ConfigShapes'
  BY <1>1, <1>2, <1>3 DEF ConfigShapes
<1>5. Underway'
  BY <1>1, <1>2, <1>3 DEF Underway, Config!InFlight, Saving, Floored
<1>6. Follows'
  BY <1>1, <1>2, <1>3, SettingsAssumption DEF Follows, Saving
<1> QED BY <1>4, <1>5, <1>6

LEMMA BeginRefreshKeeps ==
  ASSUME ConfigInv, NEW r \in Requests, Config!BeginRefresh(r)
  PROVE  ConfigInv'
<1> USE DEF ConfigInv, ConfigBase
<1>1. /\ configReq' \in [Requests -> RequestRecords] /\ configReq'[r].phase = "refresh"
      /\ configReq'[r].at = configReq[r].at /\ configReq'[r].kind = configReq[r].kind
      /\ configReq'[r].key = configReq[r].key
      /\ configReq'[r].carries = configReq[r].carries
      /\ configReq'[r].tok = configReq[r].tok /\ configReq'[r].since = configReq[r].since
      /\ \A s \in Requests \ {r} : configReq'[s] = configReq[s]
  BY Goes DEF ConfigShapes, Config!BeginRefresh, Phases
<1>2. /\ UNCHANGED <<configMem, configMirror, configSnap, configToken, configSeen,
                     configHeard, configGate, configSaves, configStamped, configAcked,
                     configSlips>>
      /\ configReq[r].phase = "floor" /\ configReq[r].at \in Workers
      /\ configLock[configReq[r].at] = None
  BY DEF Config!BeginRefresh, Config!shared, Config!history, Underway, Config!InFlight
<1>3. /\ configLock' = [configLock EXCEPT ![configReq[r].at] = r]
      /\ configRows' = [configRows EXCEPT ![configReq[r].at] = configMirror]
      /\ configLock'[configReq[r].at] = r /\ configRows'[configReq[r].at] = configMirror
      /\ \A v \in Workers \ {configReq[r].at} : configLock'[v] = configLock[v]
             /\ configRows'[v] = configRows[v]
  BY <1>2 DEF Config!BeginRefresh, ConfigShapes
<1>4. ConfigBase'
  BY BeginRefreshBase
<1>5. OneChange'
  BY <1>1, <1>2 DEF OneChange, Config!InFlight, Floored
<1>6. Sizes'
  BY <1>1, <1>2, <1>3 DEF Sizes, Saving
<1>7. Floor'
  BY <1>1, <1>2, <1>3, Typed, Newer, SettingsAssumption DEF Floor, RowIsNew, FloorAt,
     FloorOf, UpToDate, Config!Loaded
<1>8. Kept'
  BY <1>1, <1>2, <1>3 DEF Kept, KeptOnDisk, KeptAt, KeptBy, Keeps, Safe,
     Config!ConfigForInstall, UpToDate, Config!Loaded, Saving
<1> QED BY <1>4, <1>5, <1>6, <1>7, <1>8

LEMMA ArriveBase ==
  ASSUME ConfigBase, NEW r \in Requests, NEW w \in Workers,
         NEW kind \in {"read"} \union Config!Changes, NEW k \in SettingKeys,
         Config!Arrive(r, w, kind, k)
  PROVE  ConfigBase'
<1> USE DEF ConfigBase
<1>1. /\ configReq' \in [Requests -> RequestRecords]
      /\ configReq'[r].phase = IF configToken \in {0, configSeen[w]} THEN "go" ELSE "gate"
      /\ configReq'[r].at = w /\ configReq'[r].kind = kind /\ configReq'[r].key = k
      /\ configReq'[r].since = configStamped
      /\ \A s \in Requests \ {r} : configReq'[s] = configReq[s]
  BY Blank DEF Config!Arrive, ConfigShapes, RequestRecords, Phases
<1>2. /\ UNCHANGED <<configMem, configMirror, configSnap, configToken, configSeen,
                     configHeard, configLock, configGate, configRows, configSaves,
                     configFaults, configStamped, configAcked>>
      /\ configReq[r].phase = "new"
      /\ configSlips' \in {configSlips, configSlips \union {"overlapped"}}
  BY SettingsAssumption DEF Config!Arrive, Config!shared
<1>3. ConfigShapes'
  BY <1>1, <1>2 DEF ConfigShapes
<1>4. Underway'
  BY <1>1, <1>2 DEF Underway, Config!InFlight, Saving, Floored
<1>5. Follows'
  BY <1>1, <1>2 DEF Follows, Saving
<1> QED BY <1>3, <1>4, <1>5

LEMMA ArriveKeeps ==
  ASSUME ConfigInv, NEW r \in Requests, NEW w \in Workers,
         NEW kind \in {"read"} \union Config!Changes, NEW k \in SettingKeys,
         Config!Arrive(r, w, kind, k), Alone'
  PROVE  ConfigInv'
<1> USE DEF ConfigInv, ConfigBase
<1>1. /\ configReq' \in [Requests -> RequestRecords]
      /\ configReq'[r].phase = IF configToken \in {0, configSeen[w]} THEN "go" ELSE "gate"
      /\ configReq'[r].at = w /\ configReq'[r].kind = kind /\ configReq'[r].key = k
      /\ configReq'[r].since = configStamped
      /\ \A s \in Requests \ {r} : configReq'[s] = configReq[s]
  BY Blank DEF Config!Arrive, ConfigShapes, RequestRecords, Phases
<1>2. /\ UNCHANGED <<configMem, configMirror, configSnap, configToken, configSeen,
                     configHeard, configLock, configGate, configRows, configSaves,
                     configFaults, configStamped, configAcked, configSlips>>
      /\ configReq[r].phase = "new"
      /\ kind # "read" => \A s \in Requests : Config!InFlight(s) =>
             configReq[s].kind = "read"
  BY SettingsAssumption DEF Config!Arrive, Config!shared, Config!Changes, Alone
<1>3. ConfigBase'
  BY ArriveBase
<1>4. OneChange'
  BY <1>1, <1>2 DEF OneChange, Config!InFlight, Floored
<1>5. Sizes'
  BY <1>1, <1>2 DEF Sizes, Saving
<1>6. Floor'
  BY <1>1, <1>2, Typed, Newer DEF Floor, RowIsNew, FloorAt, FloorOf, UpToDate,
     Config!Loaded
<1>7. Kept'
  BY <1>1, <1>2 DEF Kept, KeptOnDisk, KeptAt, KeptBy, Keeps, Safe,
     Config!ConfigForInstall, UpToDate, Config!Loaded, Saving
<1> QED BY <1>3, <1>4, <1>5, <1>6, <1>7

LEMMA GateBase ==
  ASSUME ConfigBase, NEW r \in Requests, Config!Gate(r)
  PROVE  ConfigBase'
<1> USE DEF ConfigBase
<1>1. /\ configReq[r].phase = "gate" /\ configReq[r].at \in Workers
      /\ configGate[configReq[r].at] = None
      /\ UNCHANGED <<configMem, configMirror, configSnap, configToken, configSeen,
                     configHeard, configLock, configRows, configSaves, configFaults,
                     configStamped, configAcked, configSlips>>
  BY DEF Config!Gate, Config!shared, Config!history, Underway, Config!InFlight
<1>2. /\ configReq' \in [Requests -> RequestRecords]
      /\ configReq'[r].at = configReq[r].at /\ configReq'[r].kind = configReq[r].kind
      /\ configReq'[r].key = configReq[r].key
      /\ configReq'[r].since = configReq[r].since
      /\ \A s \in Requests \ {r} : configReq'[s] = configReq[s]
  BY DEF Config!Gate, Config!To, ConfigShapes, RequestRecords, Phases
<1>3. \/ /\ configToken = configSeen[configReq[r].at] /\ configReq'[r].phase = "go"
         /\ configGate' = configGate
      \/ /\ configToken # configSeen[configReq[r].at] /\ configReq'[r].phase = "floor"
         /\ configReq'[r].tok = configToken
         /\ configGate' = [configGate EXCEPT ![configReq[r].at] = r]
         /\ configGate'[configReq[r].at] = r
         /\ \A v \in Workers \ {configReq[r].at} : configGate'[v] = configGate[v]
  BY <1>1 DEF Config!Gate, Config!To, ConfigShapes, RequestRecords
<1>4. ConfigShapes'
  BY <1>1, <1>2, <1>3 DEF ConfigShapes
<1>5. Underway'
  BY <1>1, <1>2, <1>3, Typed, SettingsAssumption DEF Underway, Config!InFlight, Saving,
     Floored
<1>6. Follows'
  BY <1>1, <1>2 DEF Follows, Saving
<1> QED BY <1>4, <1>5, <1>6

LEMMA GateKeeps ==
  ASSUME ConfigInv, NEW r \in Requests, Config!Gate(r)
  PROVE  ConfigInv'
<1> USE DEF ConfigInv, ConfigBase
<1>1. /\ configReq[r].phase = "gate" /\ configReq[r].at \in Workers
      /\ configGate[configReq[r].at] = None
      /\ UNCHANGED <<configMem, configMirror, configSnap, configToken, configSeen,
                     configHeard, configLock, configRows, configSaves, configFaults,
                     configStamped, configAcked, configSlips>>
  BY DEF Config!Gate, Config!shared, Config!history, Underway, Config!InFlight
<1>2. /\ configReq' \in [Requests -> RequestRecords]
      /\ configReq'[r].at = configReq[r].at /\ configReq'[r].kind = configReq[r].kind
      /\ configReq'[r].key = configReq[r].key
      /\ configReq'[r].since = configReq[r].since
      /\ \A s \in Requests \ {r} : configReq'[s] = configReq[s]
  BY DEF Config!Gate, Config!To, ConfigShapes, RequestRecords, Phases
<1>3. \/ /\ configToken = configSeen[configReq[r].at] /\ configReq'[r].phase = "go"
         /\ configGate' = configGate
      \/ /\ configToken # configSeen[configReq[r].at] /\ configReq'[r].phase = "floor"
         /\ configReq'[r].tok = configToken
         /\ configGate' = [configGate EXCEPT ![configReq[r].at] = r]
         /\ configGate'[configReq[r].at] = r
         /\ \A v \in Workers \ {configReq[r].at} : configGate'[v] = configGate[v]
  BY <1>1 DEF Config!Gate, Config!To, ConfigShapes, RequestRecords
<1>4. ConfigBase'
  BY GateBase
<1>5. OneChange'
  BY <1>1, <1>2, <1>3, Typed DEF OneChange, Config!InFlight, Floored
<1>6. Sizes'
  BY <1>1, <1>2, <1>3 DEF Sizes, Saving
<1>7. Floor'
  BY <1>1, <1>2, <1>3, Typed, Newer DEF Floor, RowIsNew, FloorAt, FloorOf, UpToDate,
     Config!Loaded
<1>8. Kept'
  BY <1>1, <1>2, <1>3 DEF Kept, KeptOnDisk, KeptAt, KeptBy, Keeps, Safe,
     Config!ConfigForInstall, UpToDate, Config!Loaded, Saving
<1> QED BY <1>4, <1>5, <1>6, <1>7, <1>8

LEMMA RefreshBase ==
  ASSUME ConfigBase, NEW r \in Requests, Config!Refresh(r)
  PROVE  ConfigBase'
<1> USE DEF ConfigBase
<1>1. /\ configReq[r].phase = "refresh" /\ configReq[r].at \in Workers
      /\ configLock[configReq[r].at] = r /\ configGate[configReq[r].at] = r
      /\ configSeen[configReq[r].at] < configToken /\ configReq[r].tok <= configToken
      /\ UNCHANGED <<configMirror, configSnap, configToken, configHeard, configSaves,
                     configFaults, configStamped, configAcked>>
  BY DEF Config!Refresh, Config!shared, Underway, Config!InFlight, Floored
<1>2. /\ configReq' \in [Requests -> RequestRecords] /\ configReq'[r].phase = "go"
      /\ configReq'[r].at = configReq[r].at /\ configReq'[r].kind = configReq[r].kind
      /\ configReq'[r].key = configReq[r].key
      /\ configReq'[r].carries = configReq[r].carries
      /\ configReq'[r].tok = configReq[r].tok /\ configReq'[r].since = configReq[r].since
      /\ \A s \in Requests \ {r} : configReq'[s] = configReq[s]
  BY Goes DEF ConfigShapes, Config!Refresh, Phases
<1>3. /\ configLock' = [configLock EXCEPT ![configReq[r].at] = None]
      /\ configGate' = [configGate EXCEPT ![configReq[r].at] = None]
      /\ configRows' = [configRows EXCEPT ![configReq[r].at] = Config!Gone]
      /\ configLock'[configReq[r].at] = None /\ configGate'[configReq[r].at] = None
      /\ configRows'[configReq[r].at] = Config!Gone
      /\ \A v \in Workers \ {configReq[r].at} :
           configLock'[v] = configLock[v] /\ configRows'[v] = configRows[v]
               /\ configGate'[v] = configGate[v]
  BY <1>1 DEF Config!Refresh, Config!LeaveFloor, ConfigShapes
<1>4. /\ configSeen' = [configSeen EXCEPT ![configReq[r].at] = configReq[r].tok]
      /\ configSeen'[configReq[r].at] = configReq[r].tok
      /\ \A v \in Workers \ {configReq[r].at} : configSeen'[v] = configSeen[v]
  BY <1>1 DEF Config!Refresh, ConfigShapes
<1>5. /\ configMem' \in [Workers -> MaybeGone]
      /\ \/ configMem'[configReq[r].at] = configRows[configReq[r].at]
                /\ Config!Loaded(configReq[r].at)
                /\ configRows[configReq[r].at] # Config!Gone
         \/ configMem'[configReq[r].at] = configMem[configReq[r].at]
                /\ (~Config!Loaded(configReq[r].at)
                       \/ configRows[configReq[r].at] = Config!Gone)
      /\ \A v \in Workers \ {configReq[r].at} : configMem'[v] = configMem[v]
  BY <1>1 DEF Config!Refresh, ConfigShapes, Config!Loaded
<1>6. configSlips' = IF Config!Loaded(configReq[r].at)
                          /\ configRows[configReq[r].at] = Config!Gone
                       THEN configSlips \union {"rowless"}
                       ELSE configSlips
  BY DEF Config!Refresh
<1>7. ConfigShapes'
  BY <1>1, <1>2, <1>3, <1>4, <1>5, Typed DEF ConfigShapes, MaybeGone
<1>8. Underway'
  BY <1>1, <1>2, <1>3, <1>4 DEF Underway, Config!InFlight, Saving, Floored
<1>9. Follows'
  BY <1>1, <1>2, <1>3, <1>5, <1>6, SettingsAssumption DEF Follows, Saving
<1> QED BY <1>7, <1>8, <1>9

LEMMA RefreshKeeps ==
  ASSUME ConfigInv, NEW r \in Requests, Config!Refresh(r)
  PROVE  ConfigInv'
<1> USE DEF ConfigInv, ConfigBase
<1>1. /\ configReq[r].phase = "refresh" /\ configReq[r].at \in Workers
      /\ configLock[configReq[r].at] = r /\ configGate[configReq[r].at] = r
      /\ configSeen[configReq[r].at] < configToken /\ configReq[r].tok <= configToken
      /\ UNCHANGED <<configMirror, configSnap, configToken, configHeard, configSaves,
                     configFaults, configStamped, configAcked>>
  BY DEF Config!Refresh, Config!shared, Underway, Config!InFlight, Floored
<1>2. /\ configReq' \in [Requests -> RequestRecords] /\ configReq'[r].phase = "go"
      /\ configReq'[r].at = configReq[r].at /\ configReq'[r].kind = configReq[r].kind
      /\ configReq'[r].key = configReq[r].key
      /\ configReq'[r].carries = configReq[r].carries
      /\ configReq'[r].tok = configReq[r].tok /\ configReq'[r].since = configReq[r].since
      /\ \A s \in Requests \ {r} : configReq'[s] = configReq[s]
  BY Goes DEF ConfigShapes, Config!Refresh, Phases
<1>3. /\ configLock' = [configLock EXCEPT ![configReq[r].at] = None]
      /\ configGate' = [configGate EXCEPT ![configReq[r].at] = None]
      /\ configRows' = [configRows EXCEPT ![configReq[r].at] = Config!Gone]
      /\ configLock'[configReq[r].at] = None /\ configGate'[configReq[r].at] = None
      /\ configRows'[configReq[r].at] = Config!Gone
      /\ \A v \in Workers \ {configReq[r].at} :
           configLock'[v] = configLock[v] /\ configRows'[v] = configRows[v]
               /\ configGate'[v] = configGate[v]
  BY <1>1 DEF Config!Refresh, Config!LeaveFloor, ConfigShapes
<1>4. /\ configSeen' = [configSeen EXCEPT ![configReq[r].at] = configReq[r].tok]
      /\ configSeen'[configReq[r].at] = configReq[r].tok
      /\ \A v \in Workers \ {configReq[r].at} : configSeen'[v] = configSeen[v]
  BY <1>1 DEF Config!Refresh, ConfigShapes
<1>5. /\ configMem' \in [Workers -> MaybeGone]
      /\ \/ configMem'[configReq[r].at] = configRows[configReq[r].at]
                /\ Config!Loaded(configReq[r].at)
                /\ configRows[configReq[r].at] # Config!Gone
         \/ configMem'[configReq[r].at] = configMem[configReq[r].at]
                /\ (~Config!Loaded(configReq[r].at)
                       \/ configRows[configReq[r].at] = Config!Gone)
      /\ \A v \in Workers \ {configReq[r].at} : configMem'[v] = configMem[v]
  BY <1>1 DEF Config!Refresh, ConfigShapes, Config!Loaded
<1>6. configSlips' = IF Config!Loaded(configReq[r].at)
                          /\ configRows[configReq[r].at] = Config!Gone
                       THEN configSlips \union {"rowless"}
                       ELSE configSlips
  BY DEF Config!Refresh
<1>7. \A s \in Requests \ {r} : configReq[s].phase \in Floored =>
          configReq[s].at # configReq[r].at
  BY <1>1 DEF Underway
<1>8. ConfigBase'
  BY RefreshBase
<1>9. OneChange'
  BY <1>1, <1>2 DEF OneChange, Config!InFlight, Floored
<1>10. Sizes'
  BY <1>1, <1>2, <1>3, <1>5 DEF Sizes, Saving, AtMost
<1>11. Floor'
  <2> SUFFICES ASSUME "removed" \notin configSlips'
               PROVE  (RowIsNew /\ (\A v \in Workers : FloorAt(v))
                          /\ (\A s \in Requests : FloorOf(s)))'
    BY DEF Floor
  <2>1. RowIsNew /\ (\A v \in Workers : FloorAt(v)) /\ (\A s \in Requests : FloorOf(s))
    BY <1>6 DEF Floor
  <2>2. RowIsNew'
    BY <1>1, <2>1 DEF RowIsNew
  <2>3. ASSUME NEW v \in Workers PROVE FloorAt(v)'
    BY <1>1, <1>3, <1>4, <1>5, <2>1, SettingsAssumption DEF FloorAt, FloorOf, UpToDate,
       Config!Loaded
  <2>4. ASSUME NEW s \in Requests PROVE FloorOf(s)'
    BY <1>1, <1>2, <1>3, <1>5, <2>1, Located, SettingsAssumption DEF FloorAt, FloorOf,
       Config!Loaded
  <2> QED BY <2>2, <2>3, <2>4
<1>12. Kept'
  <2> SUFFICES ASSUME configSlips' \intersect Lossy = {}
               PROVE  (KeptOnDisk /\ (\A v \in Workers : KeptAt(v))
                          /\ (\A s \in Requests : KeptBy(s)))'
    BY DEF Kept
  <2>1. KeptOnDisk /\ (\A v \in Workers : KeptAt(v)) /\ (\A s \in Requests : KeptBy(s))
    BY <1>6 DEF Kept
  <2>5. \A c : Safe(c, configAcked, configReq) => Safe(c, configAcked', configReq')
    BY <1>1, <1>2 DEF Safe
  <2>2. KeptOnDisk'
    BY <1>1, <2>1, <2>5, Typed DEF KeptOnDisk, Keeps, Config!ConfigForInstall
  <2>3. ASSUME NEW v \in Workers PROVE KeptAt(v)'
    <3>1. ~(Config!Loaded(configReq[r].at) /\ configRows[configReq[r].at] = Config!Gone)
      BY <1>6 DEF Lossy
    <3>2. CASE v # configReq[r].at
      BY <1>3, <1>4, <1>5, <2>1, <2>5, <3>2, <1>1 DEF KeptAt, Keeps, UpToDate,
         Config!Loaded
    <3>3. CASE v = configReq[r].at
      BY <1>1, <1>3, <1>4, <1>5, <2>1, <2>5, <3>1, Typed DEF KeptAt, KeptBy, Keeps,
         UpToDate, Config!Loaded
    <3> QED BY <3>2, <3>3
  <2>4. ASSUME NEW s \in Requests PROVE KeptBy(s)'
    <3>1. CASE s = r
      BY <1>1, <1>2, <1>4, <3>1 DEF KeptBy, UpToDate, Saving, Underway, OneChange,
         Floored
    <3>2. CASE s # r /\ configReq[s].phase = "go"
      BY <1>1, <1>2, <1>4, <2>1, <3>2, Typed DEF KeptBy, UpToDate
    <3>3. CASE s # r /\ configReq[s].phase = "refresh"
      BY <1>1, <1>2, <1>3, <2>1, <2>5, <3>3 DEF KeptBy, Keeps
    <3>4. CASE s # r /\ configReq[s].phase \notin {"go", "refresh"}
      BY <1>1, <1>2, <2>1, <3>4 DEF KeptBy
    <3> QED BY <3>1, <3>2, <3>3, <3>4
  <2> QED BY <2>2, <2>3, <2>4
<1> QED BY <1>8, <1>9, <1>10, <1>11, <1>12

LEMMA RefreshFailsBase ==
  ASSUME ConfigBase, NEW r \in Requests, Config!RefreshFails(r)
  PROVE  ConfigBase'
<1> USE DEF ConfigBase
<1>1. /\ configReq[r].phase = "refresh" /\ configReq[r].at \in Workers
      /\ configLock[configReq[r].at] = r /\ configGate[configReq[r].at] = r
      /\ UNCHANGED <<configMem, configMirror, configSnap, configToken, configSeen,
                     configHeard, configSaves, configStamped, configAcked>>
  BY DEF Config!RefreshFails, Config!shared, Underway, Config!InFlight, Floored
<1>2. /\ configReq' \in [Requests -> RequestRecords] /\ configReq'[r].phase = "go"
      /\ configReq'[r].at = configReq[r].at /\ configReq'[r].kind = configReq[r].kind
      /\ configReq'[r].key = configReq[r].key
      /\ configReq'[r].since = Config!Defaults
      /\ \A s \in Requests \ {r} : configReq'[s] = configReq[s]
  BY GoneIsNoValue DEF Config!RefreshFails, ConfigShapes, RequestRecords, Phases
<1>3. /\ configLock' = [configLock EXCEPT ![configReq[r].at] = None]
      /\ configGate' = [configGate EXCEPT ![configReq[r].at] = None]
      /\ configRows' = [configRows EXCEPT ![configReq[r].at] = Config!Gone]
      /\ configLock'[configReq[r].at] = None /\ configGate'[configReq[r].at] = None
      /\ configRows'[configReq[r].at] = Config!Gone
      /\ \A v \in Workers \ {configReq[r].at} :
           configLock'[v] = configLock[v] /\ configRows'[v] = configRows[v]
               /\ configGate'[v] = configGate[v]
  BY <1>1 DEF Config!RefreshFails, Config!LeaveFloor, ConfigShapes
<1>4. configSlips' = configSlips \union {"unfloored"}
  BY DEF Config!RefreshFails
<1>5. ConfigShapes'
  BY <1>1, <1>2, <1>3 DEF ConfigShapes, MaybeGone
<1>6. Underway'
  BY <1>1, <1>2, <1>3 DEF Underway, Config!InFlight, Saving, Floored
<1>7. Follows'
  BY <1>1, <1>2, <1>3, <1>4, SettingsAssumption DEF Follows, Saving
<1> QED BY <1>5, <1>6, <1>7

LEMMA RefreshFailsKeeps ==
  ASSUME ConfigInv, NEW r \in Requests, Config!RefreshFails(r)
  PROVE  ConfigInv'
<1> USE DEF ConfigInv, ConfigBase
<1>1. /\ configReq[r].phase = "refresh" /\ configReq[r].at \in Workers
      /\ configLock[configReq[r].at] = r /\ configGate[configReq[r].at] = r
      /\ UNCHANGED <<configMem, configMirror, configSnap, configToken, configSeen,
                     configHeard, configSaves, configStamped, configAcked>>
  BY DEF Config!RefreshFails, Config!shared, Underway, Config!InFlight, Floored
<1>2. /\ configReq' \in [Requests -> RequestRecords] /\ configReq'[r].phase = "go"
      /\ configReq'[r].at = configReq[r].at /\ configReq'[r].kind = configReq[r].kind
      /\ configReq'[r].key = configReq[r].key
      /\ configReq'[r].since = Config!Defaults
      /\ \A s \in Requests \ {r} : configReq'[s] = configReq[s]
  BY GoneIsNoValue DEF Config!RefreshFails, ConfigShapes, RequestRecords, Phases
<1>3. /\ configLock' = [configLock EXCEPT ![configReq[r].at] = None]
      /\ configGate' = [configGate EXCEPT ![configReq[r].at] = None]
      /\ configRows' = [configRows EXCEPT ![configReq[r].at] = Config!Gone]
      /\ configLock'[configReq[r].at] = None /\ configGate'[configReq[r].at] = None
      /\ configRows'[configReq[r].at] = Config!Gone
      /\ \A v \in Workers \ {configReq[r].at} :
           configLock'[v] = configLock[v] /\ configRows'[v] = configRows[v]
               /\ configGate'[v] = configGate[v]
  BY <1>1 DEF Config!RefreshFails, Config!LeaveFloor, ConfigShapes
<1>4. configSlips' = configSlips \union {"unfloored"}
  BY DEF Config!RefreshFails
<1>5. \A s \in Requests \ {r} : configReq[s].phase \in Floored =>
          configReq[s].at # configReq[r].at
  BY <1>1 DEF Underway
<1>6. ConfigBase'
  BY RefreshFailsBase
<1>7. OneChange'
  BY <1>1, <1>2 DEF OneChange, Config!InFlight, Floored
<1>8. Sizes'
  BY <1>1, <1>2, <1>3, <1>5, Typed, Zeroes DEF Sizes, Saving, AtMost
<1>9. Floor'
  <2> SUFFICES ASSUME "removed" \notin configSlips'
               PROVE  (RowIsNew /\ (\A v \in Workers : FloorAt(v))
                          /\ (\A s \in Requests : FloorOf(s)))'
    BY DEF Floor
  <2>1. RowIsNew /\ (\A v \in Workers : FloorAt(v)) /\ (\A s \in Requests : FloorOf(s))
    BY <1>4 DEF Floor
  <2>2. RowIsNew'
    BY <1>1, <2>1 DEF RowIsNew
  <2>3. ASSUME NEW v \in Workers PROVE FloorAt(v)'
    BY <1>1, <1>3, <2>1, SettingsAssumption DEF FloorAt, UpToDate, Config!Loaded
  <2>4. ASSUME NEW s \in Requests PROVE FloorOf(s)'
    BY <1>1, <1>2, <1>3, <2>1, Typed, Located, Newer DEF FloorOf, Config!Loaded
  <2> QED BY <2>2, <2>3, <2>4
<1>10. Kept'
  BY <1>4 DEF Kept, Lossy
<1> QED BY <1>6, <1>7, <1>8, <1>9, <1>10

LEMMA HearBase ==
  ASSUME ConfigBase, NEW w \in Workers, Config!Hear(w)
  PROVE  ConfigBase'
<1> USE DEF ConfigBase
<1>1. UNCHANGED <<configMem, configMirror, configSnap, configToken, configSeen,
                  configGate, configReq, configSaves, configFaults, configStamped,
                  configAcked, configSlips>>
  BY DEF Config!Hear, Config!shared, Config!history
<1>2. /\ configLock[w] = None /\ configLock' = [configLock EXCEPT ![w] = w]
      /\ configRows' = [configRows EXCEPT ![w] = configMirror]
      /\ configLock'[w] = w /\ configRows'[w] = configMirror
      /\ configHeard' = configHeard \ {w}
      /\ \A v \in Workers \ {w} : configLock'[v] = configLock[v]
             /\ configRows'[v] = configRows[v]
  BY DEF Config!Hear, ConfigShapes
<1>3. ConfigShapes'
  BY <1>1, <1>2 DEF ConfigShapes
<1>4. Underway'
  BY <1>1, <1>2, SettingsAssumption DEF Underway, Config!InFlight
<1>5. Follows'
  BY <1>1, <1>2 DEF Follows
<1> QED BY <1>3, <1>4, <1>5

LEMMA HearKeeps ==
  ASSUME ConfigInv, NEW w \in Workers, Config!Hear(w)
  PROVE  ConfigInv'
<1> USE DEF ConfigInv, ConfigBase
<1>1. UNCHANGED <<configMem, configMirror, configSnap, configToken, configSeen,
                  configGate, configReq, configSaves, configFaults, configStamped,
                  configAcked, configSlips>>
  BY DEF Config!Hear, Config!shared, Config!history
<1>2. /\ configLock[w] = None /\ configLock' = [configLock EXCEPT ![w] = w]
      /\ configRows' = [configRows EXCEPT ![w] = configMirror]
      /\ configLock'[w] = w /\ configRows'[w] = configMirror
      /\ configHeard' = configHeard \ {w}
      /\ \A v \in Workers \ {w} : configLock'[v] = configLock[v]
             /\ configRows'[v] = configRows[v]
  BY DEF Config!Hear, ConfigShapes
<1>3. ConfigBase'
  BY HearBase
<1>4. OneChange'
  BY <1>1, <1>2 DEF OneChange, Config!InFlight, Floored
<1>5. Sizes'
  BY <1>1, <1>2 DEF Sizes
<1>6. Floor'
  <2> SUFFICES ASSUME "removed" \notin configSlips'
               PROVE  (RowIsNew /\ (\A v \in Workers : FloorAt(v))
                          /\ (\A s \in Requests : FloorOf(s)))'
    BY DEF Floor
  <2>1. RowIsNew /\ (\A v \in Workers : FloorAt(v)) /\ (\A s \in Requests : FloorOf(s))
    BY <1>1 DEF Floor
  <2>2. RowIsNew'
    BY <1>1, <2>1 DEF RowIsNew
  <2>3. ASSUME NEW v \in Workers PROVE FloorAt(v)'
    <3>1. CASE v # w
      BY <1>1, <1>2, <2>1, <3>1 DEF FloorAt, UpToDate, Config!Loaded
    <3>2. CASE v = w
      BY <1>1, <1>2, <2>1 DEF FloorAt, RowIsNew, UpToDate, Config!Loaded
    <3> QED BY <3>1, <3>2
  <2>4. ASSUME NEW s \in Requests PROVE FloorOf(s)'
    <3>1. CASE configReq[s].at # w \/ configReq[s].phase \notin {"go", "refresh"}
      BY <1>1, <1>2, <2>1, <3>1 DEF FloorOf, Config!Loaded
    <3>2. CASE configReq[s].at = w /\ configReq[s].phase = "refresh"
      BY <1>2, <3>2, Located, SettingsAssumption
    <3>3. CASE configReq[s].at = w /\ configReq[s].phase = "go"
      <4>1. Config!AsNewAs(configMirror, configReq[s].since)
        BY <2>1, Typed, Newer DEF FloorOf, RowIsNew
      <4> QED BY <1>1, <1>2, <2>1, <3>3, <4>1 DEF FloorOf, Config!Loaded
    <3> QED BY <3>1, <3>2, <3>3
  <2> QED BY <2>2, <2>3, <2>4
<1>7. Kept'
  <2> SUFFICES ASSUME configSlips' \intersect Lossy = {}
               PROVE  (KeptOnDisk /\ (\A v \in Workers : KeptAt(v))
                          /\ (\A s \in Requests : KeptBy(s)))'
    BY DEF Kept
  <2>1. KeptOnDisk /\ (\A v \in Workers : KeptAt(v)) /\ (\A s \in Requests : KeptBy(s))
    BY <1>1 DEF Kept
  <2>5. \A c : Safe(c, configAcked, configReq) => Safe(c, configAcked', configReq')
    BY <1>1
  <2>2. KeptOnDisk'
    BY <1>1, <2>1 DEF KeptOnDisk, Keeps, Config!ConfigForInstall
  <2>3. ASSUME NEW v \in Workers PROVE KeptAt(v)'
    <3>1. CASE v # w
      BY <1>1, <1>2, <2>1, <3>1 DEF KeptAt, Keeps, UpToDate, Config!Loaded
    <3>2. CASE v = w
      BY <1>1, <1>2, <2>1 DEF KeptAt, KeptOnDisk, Keeps, UpToDate, Config!Loaded
    <3> QED BY <3>1, <3>2
  <2>4. ASSUME NEW s \in Requests PROVE KeptBy(s)'
    <3>1. configReq[s].phase = "refresh" => configReq[s].at \in Workers \ {w}
      BY <1>2, Located, SettingsAssumption
    <3> QED BY <1>1, <1>2, <2>1, <2>5, <3>1 DEF KeptBy, Keeps, UpToDate
  <2> QED BY <2>2, <2>3, <2>4
<1> QED BY <1>3, <1>4, <1>5, <1>6, <1>7

LEMMA ConvergeBase ==
  ASSUME ConfigBase, NEW w \in Workers, Config!Converge(w)
  PROVE  ConfigBase'
<1> USE DEF ConfigBase
<1>1. UNCHANGED <<configMirror, configSnap, configToken, configSeen, configHeard,
                  configGate, configReq, configSaves, configFaults, configStamped,
                  configAcked, configSlips>>
  BY DEF Config!Converge, Config!shared, Config!history
<1>2. /\ configLock[w] = w /\ configLock' = [configLock EXCEPT ![w] = None]
      /\ configRows' = [configRows EXCEPT ![w] = Config!Gone]
      /\ configMem' = [configMem EXCEPT ![w] = configRows[w]]
      /\ configLock'[w] = None /\ configRows'[w] = Config!Gone
      /\ configMem'[w] = configRows[w]
      /\ \A v \in Workers \ {w} :
           configLock'[v] = configLock[v] /\ configRows'[v] = configRows[v]
               /\ configMem'[v] = configMem[v]
  BY DEF Config!Converge, ConfigShapes
<1>3. ConfigShapes'
  BY <1>1, <1>2 DEF ConfigShapes, MaybeGone
<1>4. Underway'
  BY <1>1, <1>2, SettingsAssumption DEF Underway, Config!InFlight
<1>5. Follows'
  BY <1>1, <1>2, SettingsAssumption DEF Follows
<1> QED BY <1>3, <1>4, <1>5

LEMMA ConvergeKeeps ==
  ASSUME ConfigInv, NEW w \in Workers, Config!Converge(w)
  PROVE  ConfigInv'
<1> USE DEF ConfigInv, ConfigBase
<1>1. UNCHANGED <<configMirror, configSnap, configToken, configSeen, configHeard,
                  configGate, configReq, configSaves, configFaults, configStamped,
                  configAcked, configSlips>>
  BY DEF Config!Converge, Config!shared, Config!history
<1>2. /\ configLock[w] = w /\ configLock' = [configLock EXCEPT ![w] = None]
      /\ configRows' = [configRows EXCEPT ![w] = Config!Gone]
      /\ configMem' = [configMem EXCEPT ![w] = configRows[w]]
      /\ configLock'[w] = None /\ configRows'[w] = Config!Gone
      /\ configMem'[w] = configRows[w]
      /\ \A v \in Workers \ {w} :
           configLock'[v] = configLock[v] /\ configRows'[v] = configRows[v]
               /\ configMem'[v] = configMem[v]
  BY DEF Config!Converge, ConfigShapes
<1>3. ConfigBase'
  BY ConvergeBase
<1>4. OneChange'
  BY <1>1, <1>2 DEF OneChange, Config!InFlight, Floored
<1>5. Sizes'
  BY <1>1, <1>2 DEF Sizes, AtMost
<1>6. Floor'
  <2> SUFFICES ASSUME "removed" \notin configSlips'
               PROVE  (RowIsNew /\ (\A v \in Workers : FloorAt(v))
                          /\ (\A s \in Requests : FloorOf(s)))'
    BY DEF Floor
  <2>1. RowIsNew /\ (\A v \in Workers : FloorAt(v)) /\ (\A s \in Requests : FloorOf(s))
    BY <1>1 DEF Floor
  <2>2. RowIsNew'
    BY <1>1, <2>1 DEF RowIsNew
  <2>3. ASSUME NEW v \in Workers PROVE FloorAt(v)'
    BY <1>1, <1>2, <2>1, SettingsAssumption DEF FloorAt, UpToDate, Config!Loaded
  <2>4. ASSUME NEW s \in Requests PROVE FloorOf(s)'
    BY <1>1, <1>2, <2>1, Located, SettingsAssumption DEF FloorOf, Config!Loaded
  <2> QED BY <2>2, <2>3, <2>4
<1>7. Kept'
  <2> SUFFICES ASSUME configSlips' \intersect Lossy = {}
               PROVE  (KeptOnDisk /\ (\A v \in Workers : KeptAt(v))
                          /\ (\A s \in Requests : KeptBy(s)))'
    BY DEF Kept
  <2>1. KeptOnDisk /\ (\A v \in Workers : KeptAt(v)) /\ (\A s \in Requests : KeptBy(s))
    BY <1>1 DEF Kept
  <2>5. \A c : Safe(c, configAcked, configReq) => Safe(c, configAcked', configReq')
    BY <1>1
  <2>2. KeptOnDisk'
    BY <1>1, <2>1 DEF KeptOnDisk, Keeps, Config!ConfigForInstall
  <2>3. ASSUME NEW v \in Workers PROVE KeptAt(v)'
    BY <1>1, <1>2, <2>1, SettingsAssumption DEF KeptAt, Keeps, UpToDate, Config!Loaded
  <2>4. ASSUME NEW s \in Requests PROVE KeptBy(s)'
    BY <1>1, <1>2, <2>1 DEF KeptBy, Keeps, UpToDate
  <2> QED BY <2>2, <2>3, <2>4
<1> QED BY <1>3, <1>4, <1>5, <1>6, <1>7

LEMMA SaveMirrorBase ==
  ASSUME ConfigBase, NEW r \in Requests, Config!SaveMirror(r)
  PROVE  ConfigBase'
<1> USE DEF ConfigBase
<1>1. /\ configReq' \in [Requests -> RequestRecords] /\ configReq'[r].phase = "stamp"
      /\ configReq'[r].at = configReq[r].at /\ configReq'[r].kind = configReq[r].kind
      /\ configReq'[r].key = configReq[r].key
      /\ configReq'[r].carries = configReq[r].carries
      /\ configReq'[r].tok = configReq[r].tok /\ configReq'[r].since = configReq[r].since
      /\ \A s \in Requests \ {r} : configReq'[s] = configReq[s]
  BY Goes DEF ConfigShapes, Config!SaveMirror, Phases
<1>2. /\ UNCHANGED <<configMem, configSnap, configToken, configSeen, configHeard,
                     configLock, configGate, configRows, configSaves, configFaults,
                     configStamped, configAcked, configSlips>>
      /\ configReq[r].phase = "mirror" /\ configReq[r].key \in SettingKeys
      /\ configReq[r].carries \in Values
      /\ configReq[r].carries # Config!Gone
  BY GoneIsNoValue DEF Config!SaveMirror, Config!history, Underway, Config!InFlight,
     Saving
<1>3. configMirror' =
        IF configMirror = Config!Gone THEN Config!Gone ELSE configReq[r].carries
  BY DEF Config!SaveMirror
<1>4. ConfigShapes'
  BY <1>1, <1>2, <1>3 DEF ConfigShapes, MaybeGone
<1>5. Underway'
  BY <1>1, <1>2 DEF Underway, Config!InFlight, Saving, Floored
<1>6. Follows'
  BY <1>1 DEF Follows, Saving
<1> QED BY <1>4, <1>5, <1>6

LEMMA SaveMirrorKeeps ==
  ASSUME ConfigInv, NEW r \in Requests, Config!SaveMirror(r)
  PROVE  ConfigInv'
<1> USE DEF ConfigInv, ConfigBase
<1>1. /\ configReq' \in [Requests -> RequestRecords] /\ configReq'[r].phase = "stamp"
      /\ configReq'[r].at = configReq[r].at /\ configReq'[r].kind = configReq[r].kind
      /\ configReq'[r].key = configReq[r].key
      /\ configReq'[r].carries = configReq[r].carries
      /\ configReq'[r].tok = configReq[r].tok /\ configReq'[r].since = configReq[r].since
      /\ \A s \in Requests \ {r} : configReq'[s] = configReq[s]
  BY Goes DEF ConfigShapes, Config!SaveMirror, Phases
<1>2. /\ UNCHANGED <<configMem, configSnap, configToken, configSeen, configHeard,
                     configLock, configGate, configRows, configSaves, configFaults,
                     configStamped, configAcked, configSlips>>
      /\ configReq[r].phase = "mirror" /\ configReq[r].key \in SettingKeys
      /\ configReq[r].carries \in Values
      /\ configReq[r].carries # Config!Gone
  BY GoneIsNoValue DEF Config!SaveMirror, Config!history, Underway, Config!InFlight,
     Saving
<1>3. configMirror' =
        IF configMirror = Config!Gone THEN Config!Gone ELSE configReq[r].carries
  BY DEF Config!SaveMirror
<1>4. \A s \in Requests \ {r} : configReq[s].phase \notin Saving
  BY <1>2 DEF OneChange, Underway, Config!InFlight, Saving
<1>5. Config!AsNewAs(configReq[r].carries, configStamped)
  BY <1>2, Typed, Newest, GoneIsNoValue DEF Sizes, Saving
<1>6. ConfigBase'
  BY SaveMirrorBase
<1>7. OneChange'
  BY <1>1, <1>2 DEF OneChange, Config!InFlight, Floored
<1>8. Sizes'
  BY <1>1, <1>2, <1>3 DEF Sizes, Saving
<1>9. Floor'
  <2> SUFFICES ASSUME "removed" \notin configSlips'
               PROVE  (RowIsNew /\ (\A v \in Workers : FloorAt(v))
                          /\ (\A s \in Requests : FloorOf(s)))'
    BY DEF Floor
  <2>1. RowIsNew /\ (\A v \in Workers : FloorAt(v)) /\ (\A s \in Requests : FloorOf(s))
    BY <1>2 DEF Floor
  <2>2. RowIsNew'
    BY <1>2, <1>3, <1>5, <2>1 DEF RowIsNew
  <2>3. ASSUME NEW v \in Workers PROVE FloorAt(v)'
    BY <1>2, <2>1 DEF FloorAt, UpToDate, Config!Loaded
  <2>4. ASSUME NEW s \in Requests PROVE FloorOf(s)'
    BY <1>1, <1>2, <1>4, <2>1 DEF FloorOf, Config!Loaded
  <2> QED BY <2>2, <2>3, <2>4
<1>10. Kept'
  <2> SUFFICES ASSUME configSlips' \intersect Lossy = {}
               PROVE  (KeptOnDisk /\ (\A v \in Workers : KeptAt(v))
                          /\ (\A s \in Requests : KeptBy(s)))'
    BY DEF Kept
  <2>1. KeptOnDisk /\ (\A v \in Workers : KeptAt(v)) /\ (\A s \in Requests : KeptBy(s))
    BY <1>2 DEF Kept
  <2>5. \A c : Safe(c, configAcked, configReq) => Safe(c, configAcked', configReq')
    BY <1>1, <1>2 DEF Safe
  <2>2. KeptOnDisk'
    <3>1. Safe(configReq[r].carries, configAcked, configReq)
              /\ configSnap = configReq[r].carries
      BY <1>2, <1>4, <2>1 DEF KeptBy, Safe, Saving
    <3>2. Config!ConfigForInstall' \in {configReq[r].carries, Config!ConfigForInstall}
      BY <1>2, <1>3, <3>1 DEF Config!ConfigForInstall
    <3>3. Safe(Config!ConfigForInstall', configAcked', configReq')
      BY <2>1, <2>5, <3>1, <3>2 DEF KeptOnDisk, Keeps
    <3>4. configMirror' # Config!Gone => Safe(configMirror', configAcked', configReq')
      BY <1>3, <2>5, <3>1
    <3>5. configToken' = 0 =>
              configAcked' = Config!Defaults
                  /\ \A s \in Requests : configReq'[s].phase # "announce"
      BY <1>1, <1>2, <2>1 DEF KeptOnDisk
    <3> QED BY <3>3, <3>4, <3>5 DEF KeptOnDisk, Keeps
  <2>3. ASSUME NEW v \in Workers PROVE KeptAt(v)'
    BY <1>2, <2>1, <2>5 DEF KeptAt, Keeps, UpToDate, Config!Loaded
  <2>4. ASSUME NEW s \in Requests PROVE KeptBy(s)'
    BY <1>1, <1>2, <1>3, <2>1, <2>5 DEF KeptBy, Keeps, UpToDate, Saving
  <2> QED BY <2>2, <2>3, <2>4
<1> QED BY <1>6, <1>7, <1>8, <1>9, <1>10

LEMMA StampBase ==
  ASSUME ConfigBase, NEW r \in Requests, Config!Stamp(r)
  PROVE  ConfigBase'
<1> USE DEF ConfigBase
<1>1. /\ configReq' \in [Requests -> RequestRecords] /\ configReq'[r].phase = "announce"
      /\ configReq'[r].at = configReq[r].at /\ configReq'[r].kind = configReq[r].kind
      /\ configReq'[r].key = configReq[r].key
      /\ configReq'[r].carries = configReq[r].carries
      /\ configReq'[r].tok = configReq[r].tok /\ configReq'[r].since = configReq[r].since
      /\ \A s \in Requests \ {r} : configReq'[s] = configReq[s]
  BY Goes DEF ConfigShapes, Config!Stamp, Phases
<1>2. /\ UNCHANGED <<configMem, configMirror, configSnap, configSeen, configHeard,
                     configLock, configGate, configRows, configSaves, configFaults,
                     configAcked, configSlips>>
      /\ configReq[r].phase = "stamp" /\ configReq[r].carries \in Values
      /\ configReq[r].kind = "save"
      /\ configToken' = configToken + 1
      /\ configStamped' = IF configMirror = Config!Gone THEN configStamped ELSE configMirror
  BY DEF Config!Stamp, Underway, Saving
<1>3. ConfigShapes'
  BY <1>1, <1>2 DEF ConfigShapes, MaybeGone
<1>4. Underway'
  BY <1>1, <1>2, Typed DEF Underway, Config!InFlight, Floored
<1>5. Follows'
  BY <1>1 DEF Follows, Saving
<1> QED BY <1>3, <1>4, <1>5

LEMMA StampKeeps ==
  ASSUME ConfigInv, NEW r \in Requests, Config!Stamp(r)
  PROVE  ConfigInv'
<1> USE DEF ConfigInv, ConfigBase
<1>1. /\ configReq' \in [Requests -> RequestRecords] /\ configReq'[r].phase = "announce"
      /\ configReq'[r].at = configReq[r].at /\ configReq'[r].kind = configReq[r].kind
      /\ configReq'[r].key = configReq[r].key
      /\ configReq'[r].carries = configReq[r].carries
      /\ configReq'[r].tok = configReq[r].tok /\ configReq'[r].since = configReq[r].since
      /\ \A s \in Requests \ {r} : configReq'[s] = configReq[s]
  BY Goes DEF ConfigShapes, Config!Stamp, Phases
<1>2. /\ UNCHANGED <<configMem, configMirror, configSnap, configSeen, configHeard,
                     configLock, configGate, configRows, configSaves, configFaults,
                     configAcked, configSlips>>
      /\ configReq[r].phase = "stamp" /\ configReq[r].carries \in Values
      /\ configReq[r].kind = "save"
      /\ configToken' = configToken + 1
      /\ configStamped' = IF configMirror = Config!Gone THEN configStamped ELSE configMirror
  BY DEF Config!Stamp, Underway, Saving
<1>3. \A s \in Requests \ {r} : configReq[s].phase \notin Saving /\ (Config!InFlight(s) =>
          configReq[s].kind = "read")
  BY <1>2 DEF OneChange, Underway, Config!InFlight, Saving
<1>4. \A w \in Workers : configToken' # configSeen'[w] /\ configToken' # 0
  BY <1>2, Typed DEF Underway
<1>5. ConfigBase'
  BY StampBase
<1>6. OneChange'
  BY <1>1, <1>3 DEF OneChange, Config!InFlight, Floored
<1>7. Sizes'
  BY <1>1, <1>2 DEF Sizes, Saving
<1>8. Floor'
  <2> SUFFICES ASSUME "removed" \notin configSlips'
               PROVE  (RowIsNew /\ (\A v \in Workers : FloorAt(v))
                          /\ (\A s \in Requests : FloorOf(s)))'
    BY DEF Floor
  <2>1. RowIsNew /\ (\A v \in Workers : FloorAt(v)) /\ (\A s \in Requests : FloorOf(s))
    BY <1>2 DEF Floor
  <2>2. RowIsNew'
    BY <1>2, <2>1, Typed, Newer DEF RowIsNew
  <2>3. ASSUME NEW v \in Workers PROVE FloorAt(v)'
    BY <1>2, <1>4, <2>1 DEF FloorAt, UpToDate, Config!Loaded
  <2>4. ASSUME NEW s \in Requests PROVE FloorOf(s)'
    <3>1. Config!AsNewAs(configStamped', configReq[s].since)
      BY <1>2, <2>1, Typed, Newer DEF FloorOf, RowIsNew
    <3>2. CASE s = r
      BY <1>1, <3>1, <3>2 DEF FloorOf
    <3>3. CASE s # r
      <4>1. configReq[s].phase = "refresh" => configReq[s].tok # configToken'
        BY <1>2, Typed DEF Underway, Floored
      <4> QED BY <1>1, <1>2, <2>1, <3>1, <3>3, <4>1 DEF FloorOf, Config!Loaded
    <3> QED BY <3>2, <3>3
  <2> QED BY <2>2, <2>3, <2>4
<1>9. Kept'
  <2> SUFFICES ASSUME configSlips' \intersect Lossy = {}
               PROVE  (KeptOnDisk /\ (\A v \in Workers : KeptAt(v))
                          /\ (\A s \in Requests : KeptBy(s)))'
    BY DEF Kept
  <2>1. KeptOnDisk /\ (\A v \in Workers : KeptAt(v)) /\ (\A s \in Requests : KeptBy(s))
    BY <1>2 DEF Kept
  <2>2. KeptOnDisk'
    <3>1. \A c : Safe(c, configAcked, configReq) /\ AtLeast(c, configReq[r].carries) =>
              Safe(c, configAcked', configReq')
      BY <1>1, <1>2 DEF Safe
    <3>2. configMirror \in {Config!Gone, configReq[r].carries}
              /\ configSnap = configReq[r].carries /\ configReq[r].carries # Config!Gone
      BY <1>2, <2>1, GoneIsNoValue DEF KeptBy, Saving
    <3>3. Config!ConfigForInstall = configReq[r].carries
              /\ Config!ConfigForInstall' = Config!ConfigForInstall
      BY <1>2, <3>2 DEF Config!ConfigForInstall
    <3>4. AtLeast(configReq[r].carries, configReq[r].carries)
      BY <1>2, Dominates
    <3>5. Safe(configReq[r].carries, configAcked', configReq')
      BY <2>1, <3>1, <3>3, <3>4 DEF KeptOnDisk, Keeps
    <3>6. configToken' # 0
      BY <1>2, Typed
    <3> QED BY <1>2, <3>2, <3>3, <3>5, <3>6 DEF KeptOnDisk, Keeps
  <2>3. ASSUME NEW v \in Workers PROVE KeptAt(v)'
    BY <1>4 DEF KeptAt, UpToDate
  <2>4. ASSUME NEW s \in Requests PROVE KeptBy(s)'
    <3>1. CASE s = r
      BY <1>1, <1>2, <2>1, <3>1 DEF KeptBy, Saving
    <3>2. CASE s # r
      <4>1. configReq[s].phase = "refresh" => configReq[s].tok # configToken'
        BY <1>2, Typed DEF Underway, Floored
      <4> QED BY <1>1, <1>3, <3>2, <4>1 DEF KeptBy, Saving, Config!InFlight
    <3> QED BY <3>1, <3>2
  <2> QED BY <2>2, <2>3, <2>4
<1> QED BY <1>5, <1>6, <1>7, <1>8, <1>9

LEMMA StampFailsBase ==
  ASSUME ConfigBase, NEW r \in Requests, Config!StampFails(r)
  PROVE  ConfigBase'
<1> USE DEF ConfigBase
<1>1. /\ configReq' \in [Requests -> RequestRecords] /\ configReq'[r].phase = "announce"
      /\ configReq'[r].at = configReq[r].at /\ configReq'[r].kind = configReq[r].kind
      /\ configReq'[r].key = configReq[r].key
      /\ configReq'[r].carries = configReq[r].carries
      /\ configReq'[r].tok = configReq[r].tok /\ configReq'[r].since = configReq[r].since
      /\ \A s \in Requests \ {r} : configReq'[s] = configReq[s]
  BY Goes DEF ConfigShapes, Config!StampFails, Phases
<1>2. /\ UNCHANGED <<configMem, configMirror, configSnap, configToken, configSeen,
                     configHeard, configLock, configGate, configRows, configSaves,
                     configStamped, configAcked>>
      /\ configReq[r].phase = "stamp" /\ configSlips' = configSlips \union {"unstamped"}
  BY DEF Config!StampFails, Config!shared
<1>3. ConfigShapes'
  BY <1>1, <1>2 DEF ConfigShapes
<1>4. Underway'
  BY <1>1, <1>2 DEF Underway, Config!InFlight, Saving, Floored
<1>5. Follows'
  BY <1>1 DEF Follows, Saving
<1> QED BY <1>3, <1>4, <1>5

LEMMA StampFailsKeeps ==
  ASSUME ConfigInv, NEW r \in Requests, Config!StampFails(r)
  PROVE  ConfigInv'
<1> USE DEF ConfigInv, ConfigBase
<1>1. /\ configReq' \in [Requests -> RequestRecords] /\ configReq'[r].phase = "announce"
      /\ configReq'[r].at = configReq[r].at /\ configReq'[r].kind = configReq[r].kind
      /\ configReq'[r].key = configReq[r].key
      /\ configReq'[r].carries = configReq[r].carries
      /\ configReq'[r].tok = configReq[r].tok /\ configReq'[r].since = configReq[r].since
      /\ \A s \in Requests \ {r} : configReq'[s] = configReq[s]
  BY Goes DEF ConfigShapes, Config!StampFails, Phases
<1>2. /\ UNCHANGED <<configMem, configMirror, configSnap, configToken, configSeen,
                     configHeard, configLock, configGate, configRows, configSaves,
                     configStamped, configAcked>>
      /\ configReq[r].phase = "stamp" /\ configSlips' = configSlips \union {"unstamped"}
  BY DEF Config!StampFails, Config!shared
<1>3. ConfigBase'
  BY StampFailsBase
<1>4. OneChange'
  BY <1>1, <1>2 DEF OneChange, Config!InFlight, Floored
<1>5. Sizes'
  BY <1>1, <1>2 DEF Sizes, Saving
<1>6. Floor'
  BY <1>1, <1>2 DEF Floor, RowIsNew, FloorAt, FloorOf, UpToDate, Config!Loaded
<1>7. Kept'
  BY <1>2 DEF Kept, Lossy
<1> QED BY <1>3, <1>4, <1>5, <1>6, <1>7

LEMMA SaveLocalBase ==
  ASSUME ConfigBase, NEW r \in Requests, Config!SaveLocal(r)
  PROVE  ConfigBase'
<1> USE DEF ConfigBase
<1>1. /\ UNCHANGED <<configMirror, configToken, configSeen, configHeard, configLock,
                     configGate, configRows, configFaults, configStamped, configAcked,
                     configSlips>>
      /\ configReq[r].phase = "go" /\ configReq[r].kind = "save"
      /\ Config!Loaded(configReq[r].at) /\ configSaves' = configSaves + 1
      /\ configReq[r].at \in Workers /\ configReq[r].key \in SettingKeys
  BY DEF Config!SaveLocal, Config!history, Underway, Config!InFlight
<1>2. PICK merged \in Values :
        /\ merged =
               [configMem[configReq[r].at] EXCEPT ![configReq[r].key] = configSaves + 1]
        /\ merged[configReq[r].key] = configSaves + 1
        /\ \A k \in SettingKeys \ {configReq[r].key} :
                      merged[k] = configMem[configReq[r].at][k]
        /\ configMem' = [configMem EXCEPT ![configReq[r].at] = merged]
        /\ configReq' = [configReq EXCEPT ![r].phase = "mirror", ![r].carries = merged]
        /\ Config!Snapshot(merged)
    <2> DEFINE m ==
           [configMem[configReq[r].at] EXCEPT ![configReq[r].key] = configSaves + 1]
    <2>1. configMem[configReq[r].at] \in Values /\ configSaves \in Nat
      BY <1>1, Typed
    <2>2. /\ m \in Values /\ m[configReq[r].key] = configSaves + 1
          /\ \A k \in SettingKeys \ {configReq[r].key} :
                 m[k] = configMem[configReq[r].at][k]
      BY <1>1, <2>1 DEF Values
    <2> QED BY <2>2 DEF Config!SaveLocal
<1>3. /\ configMem' \in [Workers -> MaybeGone] /\ configMem'[configReq[r].at] = merged
      /\ \A v \in Workers \ {configReq[r].at} : configMem'[v] = configMem[v]
  BY <1>1, <1>2 DEF ConfigShapes, MaybeGone
<1>4. /\ configReq' \in [Requests -> RequestRecords] /\ configReq'[r].phase = "mirror"
      /\ configReq'[r].carries = merged
      /\ configReq'[r].at = configReq[r].at /\ configReq'[r].kind = configReq[r].kind
      /\ configReq'[r].key = configReq[r].key
      /\ configReq'[r].since = configReq[r].since
      /\ \A s \in Requests \ {r} : configReq'[s] = configReq[s]
    <2> DEFINE rec == [configReq[r] EXCEPT !.phase = "mirror", !.carries = merged]
    <2>1. rec \in RequestRecords
      BY Typed DEF RequestRecords, MaybeGone, Phases
    <2>2. /\ rec.phase = "mirror" /\ rec.carries = merged
          /\ rec.at = configReq[r].at /\ rec.kind = configReq[r].kind
          /\ rec.key = configReq[r].key
          /\ rec.since = configReq[r].since
      BY DEF RequestRecords
    <2>3. configReq' = [configReq EXCEPT ![r] = rec]
      BY <1>2
    <2> HIDE DEF rec
    <2> QED BY <2>1, <2>2, <2>3, Moves DEF ConfigShapes
<1>5. /\ configSnap' = merged /\ merged # Config!Gone /\ merged # Config!Defaults
      /\ configSaves \in Nat
  BY <1>1, <1>2, Typed, GoneIsNoValue DEF Config!Snapshot, Config!Defaults
<1>6. ConfigShapes'
  BY <1>1, <1>2, <1>3, <1>4, <1>5, Typed DEF ConfigShapes, MaybeGone
<1>7. Underway'
  BY <1>1, <1>2, <1>3, <1>4, <1>5 DEF Underway, Config!InFlight, Saving,
     Floored
<1>8. Follows'
  BY <1>4 DEF Follows, Saving
<1> QED BY <1>6, <1>7, <1>8

LEMMA SaveLocalKeeps ==
  ASSUME ConfigInv, NEW r \in Requests, Config!SaveLocal(r)
  PROVE  ConfigInv'
<1> USE DEF ConfigInv, ConfigBase
<1>1. /\ UNCHANGED <<configMirror, configToken, configSeen, configHeard, configLock,
                     configGate, configRows, configFaults, configStamped, configAcked,
                     configSlips>>
      /\ configReq[r].phase = "go" /\ configReq[r].kind = "save"
      /\ Config!Loaded(configReq[r].at) /\ configSaves' = configSaves + 1
      /\ configReq[r].at \in Workers /\ configReq[r].key \in SettingKeys
  BY DEF Config!SaveLocal, Config!history, Underway, Config!InFlight
<1>2. PICK merged \in Values :
        /\ merged =
               [configMem[configReq[r].at] EXCEPT ![configReq[r].key] = configSaves + 1]
        /\ merged[configReq[r].key] = configSaves + 1
        /\ \A k \in SettingKeys \ {configReq[r].key} :
                      merged[k] = configMem[configReq[r].at][k]
        /\ configMem' = [configMem EXCEPT ![configReq[r].at] = merged]
        /\ configReq' = [configReq EXCEPT ![r].phase = "mirror", ![r].carries = merged]
        /\ Config!Snapshot(merged)
    <2> DEFINE m ==
           [configMem[configReq[r].at] EXCEPT ![configReq[r].key] = configSaves + 1]
    <2>1. configMem[configReq[r].at] \in Values /\ configSaves \in Nat
      BY <1>1, Typed
    <2>2. /\ m \in Values /\ m[configReq[r].key] = configSaves + 1
          /\ \A k \in SettingKeys \ {configReq[r].key} :
                 m[k] = configMem[configReq[r].at][k]
      BY <1>1, <2>1 DEF Values
    <2> QED BY <2>2 DEF Config!SaveLocal
<1>3. /\ configMem' \in [Workers -> MaybeGone] /\ configMem'[configReq[r].at] = merged
      /\ \A v \in Workers \ {configReq[r].at} : configMem'[v] = configMem[v]
  BY <1>1, <1>2 DEF ConfigShapes, MaybeGone
<1>4. /\ configReq' \in [Requests -> RequestRecords] /\ configReq'[r].phase = "mirror"
      /\ configReq'[r].carries = merged
      /\ configReq'[r].at = configReq[r].at /\ configReq'[r].kind = configReq[r].kind
      /\ configReq'[r].key = configReq[r].key
      /\ configReq'[r].since = configReq[r].since
      /\ \A s \in Requests \ {r} : configReq'[s] = configReq[s]
    <2> DEFINE rec == [configReq[r] EXCEPT !.phase = "mirror", !.carries = merged]
    <2>1. rec \in RequestRecords
      BY Typed DEF RequestRecords, MaybeGone, Phases
    <2>2. /\ rec.phase = "mirror" /\ rec.carries = merged
          /\ rec.at = configReq[r].at /\ rec.kind = configReq[r].kind
          /\ rec.key = configReq[r].key
          /\ rec.since = configReq[r].since
      BY DEF RequestRecords
    <2>3. configReq' = [configReq EXCEPT ![r] = rec]
      BY <1>2
    <2> HIDE DEF rec
    <2> QED BY <2>1, <2>2, <2>3, Moves DEF ConfigShapes
<1>5. /\ configSnap' = merged /\ merged # Config!Gone /\ merged # Config!Defaults
      /\ configSaves \in Nat
  BY <1>1, <1>2, Typed, GoneIsNoValue DEF Config!Snapshot, Config!Defaults
<1>6. \A s \in Requests \ {r} : configReq[s].phase \notin Saving /\ (Config!InFlight(s) =>
          configReq[s].kind = "read")
  BY <1>1 DEF OneChange, Underway, Config!InFlight, Saving
<1>7. \A c \in Values : AtMost(c, configSaves) => Config!AsNewAs(merged, c)
    <2> SUFFICES ASSUME NEW c \in Values, AtMost(c, configSaves)
                            PROVE Config!AsNewAs(merged, c)
      OBVIOUS
    <2>1. AtMost(c, configSaves + 1) /\ configSaves + 1 \in Nat /\ c # Config!Gone
      BY <1>5, Grows, GoneIsNoValue DEF MaybeGone
    <2> QED BY <1>1, <1>2, <2>1, Newest
<1>8. ConfigBase'
  BY SaveLocalBase
<1>9. OneChange'
  BY <1>4, <1>6 DEF OneChange, Config!InFlight, Floored
<1>10. Sizes'
  <2>1. AtMost(merged, configSaves + 1)
    BY <1>1, <1>2, Typed DEF Sizes, AtMost, Config!Loaded, Values
  <2>2. \A w \in Workers : AtMost(configMem'[w], configSaves + 1)
            /\ AtMost(configRows[w], configSaves + 1)
    BY <1>3, <2>1, Grows, Typed DEF Sizes
  <2>3. AtMost(configMirror, configSaves + 1) /\ AtMost(configStamped, configSaves + 1)
            /\ AtMost(configAcked, configSaves + 1)
    BY Grows DEF Sizes, ConfigShapes, MaybeGone
  <2>4. \A s \in Requests : AtMost(configReq'[s].since, configSaves + 1)
    BY <1>4, Grows, Typed DEF Sizes, MaybeGone
  <2>5. \A s \in Requests : configReq'[s].phase \in Saving => s = r
    BY <1>6, <1>4
  <2> QED BY <1>1, <1>2, <1>4, <1>5, <2>1, <2>2, <2>3, <2>4, <2>5 DEF Sizes
<1>11. Floor'
  <2> SUFFICES ASSUME "removed" \notin configSlips'
               PROVE  (RowIsNew /\ (\A v \in Workers : FloorAt(v))
                          /\ (\A s \in Requests : FloorOf(s)))'
    BY DEF Floor
  <2>1. RowIsNew /\ (\A v \in Workers : FloorAt(v)) /\ (\A s \in Requests : FloorOf(s))
    BY <1>1 DEF Floor
  <2>2. RowIsNew'
    BY <1>1, <2>1 DEF RowIsNew
  <2>3. ASSUME NEW v \in Workers PROVE FloorAt(v)'
    <3>1. Config!AsNewAs(merged, configStamped)
      BY <1>7, Typed DEF Sizes
    <3> QED BY <1>1, <1>3, <1>5, <2>1, <3>1 DEF FloorAt, UpToDate, Config!Loaded
  <2>4. ASSUME NEW s \in Requests PROVE FloorOf(s)'
    <3>1. Config!AsNewAs(merged, configReq[s].since)
      BY <1>7, Typed DEF Sizes
    <3>2. CASE s = r
      BY <1>1, <1>4, <2>1, <3>2 DEF FloorOf
    <3>3. CASE s # r
      BY <1>1, <1>3, <1>4, <2>1, <3>1, Located DEF FloorOf, Config!Loaded
    <3> QED BY <3>2, <3>3
  <2> QED BY <2>2, <2>3, <2>4
<1>12. Kept'
  <2> SUFFICES ASSUME configSlips' \intersect Lossy = {}
               PROVE  (KeptOnDisk /\ (\A v \in Workers : KeptAt(v))
                          /\ (\A s \in Requests : KeptBy(s)))'
    BY DEF Kept
  <2>1. KeptOnDisk /\ (\A v \in Workers : KeptAt(v)) /\ (\A s \in Requests : KeptBy(s))
    BY <1>1 DEF Kept
  <2>5. \A c : Safe(c, configAcked, configReq) => Safe(c, configAcked', configReq')
    BY <1>1, <1>4 DEF Safe
  <2>6. Safe(merged, configAcked, configReq)
    BY <1>1, <1>2, <1>5, <1>6, <2>1, Typed, Dominates, GoneIsNoValue DEF KeptAt, KeptBy,
       Keeps, Safe, Sizes, Saving, Config!Loaded
  <2>2. KeptOnDisk'
    <3>1. Safe(merged, configAcked, configReq)
      BY <2>6
    <3>2. Config!ConfigForInstall' \in {merged, configMirror}
              /\ (Config!ConfigForInstall' = configMirror => configMirror # Config!Gone)
      BY <1>1, <1>5 DEF Config!ConfigForInstall
    <3> QED BY <1>1, <1>4, <2>1, <2>5, <3>1, <3>2 DEF KeptOnDisk, Keeps
  <2>3. ASSUME NEW v \in Workers PROVE KeptAt(v)'
    BY <1>1, <1>3, <2>1, <2>5, <2>6 DEF KeptAt, Keeps, UpToDate, Config!Loaded
  <2>4. ASSUME NEW s \in Requests PROVE KeptBy(s)'
    <3>1. CASE s = r
      BY <1>1, <1>4, <1>5, <2>6, <3>1 DEF KeptBy, Safe
    <3>2. CASE s # r
      BY <1>1, <1>4, <1>6, <2>1, <2>5, <3>2 DEF KeptBy, Keeps, UpToDate
    <3> QED BY <3>1, <3>2
  <2> QED BY <2>2, <2>3, <2>4
<1> QED BY <1>8, <1>9, <1>10, <1>11, <1>12

LEMMA AnnounceBase ==
  ASSUME ConfigBase, NEW r \in Requests, Config!Announce(r)
  PROVE  ConfigBase'
<1> USE DEF ConfigBase
<1>1. /\ configReq' \in [Requests -> RequestRecords] /\ configReq'[r].phase = "done"
      /\ configReq'[r].since = Config!Defaults
      /\ \A s \in Requests \ {r} : configReq'[s] = configReq[s]
  BY Blank DEF ConfigShapes, Config!Announce, Config!Ends
<1>2. /\ UNCHANGED <<configMem, configMirror, configSnap, configToken, configSeen,
                     configLock, configGate, configRows, configSaves, configStamped>>
      /\ configReq[r].phase = "announce" /\ configReq[r].key \in SettingKeys
      /\ configReq[r].carries \in Values
      /\ configAcked' = [configAcked EXCEPT 
           ![configReq[r].key] = configReq[r].carries[configReq[r].key]]
  BY DEF Config!Announce, Config!shared, Underway, Config!InFlight, Saving
<1>3. \/ configHeard' = Workers /\ configSlips' = configSlips
      \/ configSlips' = configSlips \union {"unheard"} /\ configHeard' = configHeard
  BY DEF Config!Announce
<1>4. configAcked' \in Values
  BY <1>2, Typed DEF Values
<1>5. ConfigShapes'
  BY <1>1, <1>2, <1>4 DEF ConfigShapes
<1>6. Underway'
  BY <1>1, <1>2 DEF Underway, Config!InFlight, Saving, Floored
<1>7. Follows'
  BY <1>3 DEF Follows
<1> QED BY <1>5, <1>6, <1>7

LEMMA AnnounceKeeps ==
  ASSUME ConfigInv, NEW r \in Requests, Config!Announce(r)
  PROVE  ConfigInv'
<1> USE DEF ConfigInv, ConfigBase
<1>1. /\ configReq' \in [Requests -> RequestRecords] /\ configReq'[r].phase = "done"
      /\ configReq'[r].since = Config!Defaults
      /\ \A s \in Requests \ {r} : configReq'[s] = configReq[s]
  BY Blank DEF ConfigShapes, Config!Announce, Config!Ends
<1>2. /\ UNCHANGED <<configMem, configMirror, configSnap, configToken, configSeen,
                     configLock, configGate, configRows, configSaves, configStamped>>
      /\ configReq[r].phase = "announce" /\ configReq[r].key \in SettingKeys
      /\ configReq[r].carries \in Values
      /\ configAcked' = [configAcked EXCEPT 
           ![configReq[r].key] = configReq[r].carries[configReq[r].key]]
  BY DEF Config!Announce, Config!shared, Underway, Config!InFlight, Saving
<1>3. \/ configHeard' = Workers /\ configSlips' = configSlips
      \/ configSlips' = configSlips \union {"unheard"} /\ configHeard' = configHeard
  BY DEF Config!Announce
<1>4. configAcked' \in Values
  BY <1>2, Typed DEF Values
<1>5. ConfigBase'
  BY AnnounceBase
<1>6. OneChange'
  BY <1>1, <1>2 DEF OneChange, Config!InFlight, Floored
<1>7. Sizes'
  BY <1>1, <1>2, Typed, Zeroes, GoneIsNoValue DEF Sizes, Saving, AtMost
<1>8. Floor'
  BY <1>1, <1>2, <1>3, Typed, Newer DEF Floor, RowIsNew, FloorAt, FloorOf, UpToDate,
     Config!Loaded
<1>9. Kept'
  <2> SUFFICES ASSUME configSlips' \intersect Lossy = {}
               PROVE  (KeptOnDisk /\ (\A v \in Workers : KeptAt(v))
                          /\ (\A s \in Requests : KeptBy(s)))'
    BY DEF Kept
  <2>1. KeptOnDisk /\ (\A v \in Workers : KeptAt(v)) /\ (\A s \in Requests : KeptBy(s))
    BY <1>3 DEF Kept
  <2>2. \A c \in Values : Safe(c, configAcked, configReq) =>
            Safe(c, configAcked', configReq')
    <3> SUFFICES ASSUME NEW c \in Values, Safe(c, configAcked, configReq)
                            PROVE Safe(c, configAcked', configReq')
      OBVIOUS
    <3>1. AtLeast(c, configAcked) /\ AtLeast(c, configReq[r].carries)
      BY <1>2 DEF Safe
    <3>2. AtLeast(c, configAcked')
      BY <1>2, <3>1, Typed, Dominates
    <3> QED BY <1>1, <3>2 DEF Safe
  <2>3. configMirror # Config!Gone => configMirror \in Values
    BY Typed
  <2>4. Config!ConfigForInstall \in Values
            /\ Config!ConfigForInstall' = Config!ConfigForInstall
    BY <1>2, Typed, GoneIsNoValue DEF Config!ConfigForInstall
  <2>5. KeptOnDisk'
    BY <1>2, <2>1, <2>2, <2>3, <2>4 DEF KeptOnDisk, Keeps
  <2>6. ASSUME NEW w \in Workers PROVE KeptAt(w)'
    BY <1>2, <2>1, <2>2, Typed DEF KeptAt, Keeps, UpToDate, Config!Loaded
  <2>7. ASSUME NEW s \in Requests PROVE KeptBy(s)'
    <3>1. configReq[s].phase \in Saving => s = r
      BY <1>2 DEF OneChange, Underway, Config!InFlight, Saving
    <3> QED BY <1>1, <1>2, <2>1, <2>2, <3>1, Typed, Located DEF KeptBy, Keeps, Saving,
       UpToDate
  <2> QED BY <2>5, <2>6, <2>7
<1> QED BY <1>5, <1>6, <1>7, <1>8, <1>9

LEMMA UninstallBase ==
  ASSUME ConfigBase, NEW r \in Requests, Config!Uninstall(r)
  PROVE  ConfigBase'
<1> USE DEF ConfigBase
<1>1. /\ configReq' \in [Requests -> RequestRecords] /\ configReq'[r].phase = "done"
      /\ configReq'[r].since = Config!Defaults
      /\ \A s \in Requests \ {r} : configReq'[s] = configReq[s]
  BY Blank DEF ConfigShapes, Config!Uninstall, Config!Ends
<1>2. /\ UNCHANGED <<configToken, configSeen, configLock, configGate, configRows,
                     configSaves, configFaults, configStamped, configAcked>>
      /\ configReq[r].phase = "go" /\ configReq[r].kind = "uninstall"
      /\ configReq[r].at \in Workers
      /\ Config!Loaded(configReq[r].at) \/ configMirror # Config!Gone
  BY DEF Config!Uninstall, Underway, Config!InFlight
<1>3. /\ configMem' = [configMem EXCEPT ![configReq[r].at] = Config!Gone]
      /\ configMem'[configReq[r].at] = Config!Gone
      /\ \A v \in Workers \ {configReq[r].at} : configMem'[v] = configMem[v]
      /\ configMirror' = Config!Gone /\ configHeard' = Workers
  BY <1>2 DEF Config!Uninstall, ConfigShapes
<1>4. Config!Snapshot(IF Config!Loaded(configReq[r].at) THEN configMem[configReq[r].at]
                      ELSE configMirror)
  BY DEF Config!Uninstall
<1>5. configSnap' \in {configSnap, configMirror, configMem[configReq[r].at]}
  BY <1>4 DEF Config!Snapshot
<1>6. ConfigShapes'
  BY <1>1, <1>2, <1>3, <1>5 DEF ConfigShapes, MaybeGone
<1>7. Underway'
  BY <1>1, <1>2 DEF Underway, Config!InFlight, Saving, Floored
<1>8. Follows'
  BY <1>3 DEF Follows
<1> QED BY <1>6, <1>7, <1>8

LEMMA UninstallKeeps ==
  ASSUME ConfigInv, NEW r \in Requests, Config!Uninstall(r)
  PROVE  ConfigInv'
<1> USE DEF ConfigInv, ConfigBase
<1>1. /\ configReq' \in [Requests -> RequestRecords] /\ configReq'[r].phase = "done"
      /\ configReq'[r].since = Config!Defaults
      /\ \A s \in Requests \ {r} : configReq'[s] = configReq[s]
  BY Blank DEF ConfigShapes, Config!Uninstall, Config!Ends
<1>2. /\ UNCHANGED <<configToken, configSeen, configLock, configGate, configRows,
                     configSaves, configFaults, configStamped, configAcked>>
      /\ configReq[r].phase = "go" /\ configReq[r].kind = "uninstall"
      /\ configReq[r].at \in Workers
      /\ Config!Loaded(configReq[r].at) \/ configMirror # Config!Gone
  BY DEF Config!Uninstall, Underway, Config!InFlight
<1>3. /\ configMem' = [configMem EXCEPT ![configReq[r].at] = Config!Gone]
      /\ configMem'[configReq[r].at] = Config!Gone
      /\ \A v \in Workers \ {configReq[r].at} : configMem'[v] = configMem[v]
      /\ configMirror' = Config!Gone /\ configHeard' = Workers
  BY <1>2 DEF Config!Uninstall, ConfigShapes
<1>4. Config!Snapshot(IF Config!Loaded(configReq[r].at) THEN configMem[configReq[r].at]
                      ELSE configMirror)
  BY DEF Config!Uninstall
<1>5. configSlips' = configSlips \union {"removed"}
  BY DEF Config!Uninstall
<1>6. \A s \in Requests : configReq[s].phase \notin Saving
  BY <1>2 DEF OneChange, Underway, Config!InFlight, Saving
<1>7. configSnap' \in {configSnap, configMirror, configMem[configReq[r].at]}
  BY <1>4 DEF Config!Snapshot
<1>8. ConfigBase'
  BY UninstallBase
<1>9. OneChange'
  BY <1>1, <1>2 DEF OneChange, Config!InFlight, Floored
<1>10. Sizes'
  <2>1. AtMost(Config!Gone, configSaves) /\ AtMost(configSnap', configSaves)
    BY <1>2, <1>7 DEF Sizes, AtMost
  <2> QED BY <1>1, <1>2, <1>3, <2>1, Typed, Zeroes DEF Sizes, Saving
<1>11. Floor'
  BY <1>5 DEF Floor
<1>12. Kept'
  <2> SUFFICES ASSUME configSlips' \intersect Lossy = {}
               PROVE  (KeptOnDisk /\ (\A v \in Workers : KeptAt(v))
                          /\ (\A s \in Requests : KeptBy(s)))'
    BY DEF Kept
  <2>1. KeptOnDisk /\ (\A v \in Workers : KeptAt(v)) /\ (\A s \in Requests : KeptBy(s))
    BY <1>5 DEF Kept
  <2>2. \A c : Safe(c, configAcked, configReq) => Safe(c, configAcked', configReq')
    BY <1>1, <1>2 DEF Safe
  <2>3. \A c : AtLeast(c, configAcked) => Safe(c, configAcked, configReq)
    BY <1>6 DEF Safe, Saving
  <2>4. PICK c \in Values : Safe(c, configAcked, configReq)
                 /\ configSnap' = IF c = Config!Defaults THEN configSnap ELSE c
    <3>1. CASE Config!Loaded(configReq[r].at)
      BY <1>2, <1>4, <2>1, <3>1, Typed DEF KeptAt, KeptBy, Keeps, Config!Snapshot,
         Config!Loaded
    <3>2. CASE ~Config!Loaded(configReq[r].at)
      BY <1>2, <1>4, <2>1, <3>2, Typed DEF KeptOnDisk, Keeps, Config!Snapshot
    <3> QED BY <3>1, <3>2
  <2>5. configSnap' # Config!Gone => Safe(configSnap', configAcked, configReq)
    <3>1. CASE c # Config!Defaults
      BY <2>4, <3>1
    <3>2. CASE c = Config!Defaults /\ configSnap # Config!Gone
      <4>1. AtLeast(configSnap, Config!Defaults) /\ AtLeast(Config!Defaults, configAcked)
        BY <2>4, <3>2, Typed, Dominates DEF Safe
      <4> QED BY <2>3, <2>4, <3>2, <4>1, Typed, Dominates, GoneIsNoValue
    <3>3. CASE c = Config!Defaults /\ configSnap = Config!Gone
      BY <2>4, <3>3
    <3> QED BY <3>1, <3>2, <3>3
  <2>6. configSnap' = Config!Gone => Safe(Config!Defaults, configAcked, configReq)
    BY <2>4, GoneIsNoValue
  <2>7. KeptOnDisk'
    <3>1. Config!ConfigForInstall' = IF configSnap'
              # Config!Gone THEN configSnap' ELSE Config!Defaults
      BY <1>3 DEF Config!ConfigForInstall
    <3>2. Safe(Config!ConfigForInstall', configAcked', configReq')
      BY <2>2, <2>5, <2>6, <3>1
    <3> QED BY <1>1, <1>2, <1>3, <2>1, <3>2 DEF KeptOnDisk, Keeps
  <2>8. ASSUME NEW w \in Workers PROVE KeptAt(w)'
    BY <1>2, <1>3, <2>1, <2>2 DEF KeptAt, Keeps, UpToDate, Config!Loaded
  <2>9. ASSUME NEW s \in Requests PROVE KeptBy(s)'
    BY <1>1, <1>2, <1>6, <2>1, <2>2 DEF KeptBy, Keeps, Saving, UpToDate
  <2> QED BY <2>7, <2>8, <2>9
<1> QED BY <1>8, <1>9, <1>10, <1>11, <1>12

LEMMA InstallBase ==
  ASSUME ConfigBase, NEW r \in Requests, Config!Install(r)
  PROVE  ConfigBase'
<1> USE DEF ConfigBase
<1>1. /\ configReq' \in [Requests -> RequestRecords] /\ configReq'[r].phase = "done"
      /\ configReq'[r].since = Config!Defaults
      /\ \A s \in Requests \ {r} : configReq'[s] = configReq[s]
  BY Blank DEF ConfigShapes, Config!Install, Config!Ends
<1>2. /\ UNCHANGED <<configToken, configSeen, configLock, configGate, configRows,
                     configSaves, configFaults, configStamped, configAcked, configSlips>>
      /\ configReq[r].phase = "go" /\ configReq[r].kind = "install"
      /\ configReq[r].at \in Workers
      /\ ~Config!Loaded(configReq[r].at) /\ configLock[configReq[r].at] = None
  BY DEF Config!Install, Config!history, Underway, Config!InFlight
<1>3. /\ configMem' = [configMem EXCEPT ![configReq[r].at] = Config!ConfigForInstall]
      /\ configMem'[configReq[r].at] = Config!ConfigForInstall
      /\ \A v \in Workers \ {configReq[r].at} : configMem'[v] = configMem[v]
      /\ configMirror' = Config!ConfigForInstall /\ configHeard' = Workers
  BY <1>2 DEF Config!Install, ConfigShapes
<1>4. Config!Snapshot(Config!ConfigForInstall)
  BY DEF Config!Install
<1>5. Config!ConfigForInstall \in Values
          /\ Config!ConfigForInstall \in {configMirror, configSnap, Config!Defaults}
  BY Typed, GoneIsNoValue DEF Config!ConfigForInstall
<1>6. configSnap' \in {configSnap, Config!ConfigForInstall}
  BY <1>4 DEF Config!Snapshot
<1>7. ConfigShapes'
  BY <1>1, <1>2, <1>3, <1>5, <1>6 DEF ConfigShapes, MaybeGone
<1>8. Underway'
  BY <1>1, <1>2 DEF Underway, Config!InFlight, Saving, Floored
<1>9. Follows'
  BY <1>3 DEF Follows
<1> QED BY <1>7, <1>8, <1>9

LEMMA InstallKeeps ==
  ASSUME ConfigInv, NEW r \in Requests, Config!Install(r)
  PROVE  ConfigInv'
<1> USE DEF ConfigInv, ConfigBase
<1>1. /\ configReq' \in [Requests -> RequestRecords] /\ configReq'[r].phase = "done"
      /\ configReq'[r].since = Config!Defaults
      /\ \A s \in Requests \ {r} : configReq'[s] = configReq[s]
  BY Blank DEF ConfigShapes, Config!Install, Config!Ends
<1>2. /\ UNCHANGED <<configToken, configSeen, configLock, configGate, configRows,
                     configSaves, configFaults, configStamped, configAcked, configSlips>>
      /\ configReq[r].phase = "go" /\ configReq[r].kind = "install"
      /\ configReq[r].at \in Workers
      /\ ~Config!Loaded(configReq[r].at) /\ configLock[configReq[r].at] = None
  BY DEF Config!Install, Config!history, Underway, Config!InFlight
<1>3. /\ configMem' = [configMem EXCEPT ![configReq[r].at] = Config!ConfigForInstall]
      /\ configMem'[configReq[r].at] = Config!ConfigForInstall
      /\ \A v \in Workers \ {configReq[r].at} : configMem'[v] = configMem[v]
      /\ configMirror' = Config!ConfigForInstall /\ configHeard' = Workers
  BY <1>2 DEF Config!Install, ConfigShapes
<1>4. Config!Snapshot(Config!ConfigForInstall)
  BY DEF Config!Install
<1>5. \A s \in Requests : configReq[s].phase \notin Saving
  BY <1>2 DEF OneChange, Underway, Config!InFlight, Saving
<1>6. Config!ConfigForInstall \in Values
          /\ Config!ConfigForInstall \in {configMirror, configSnap, Config!Defaults}
  BY Typed, GoneIsNoValue DEF Config!ConfigForInstall
<1>7. configSnap' \in {configSnap, Config!ConfigForInstall}
  BY <1>4 DEF Config!Snapshot
<1>8. ConfigBase'
  BY InstallBase
<1>9. OneChange'
  BY <1>1, <1>2 DEF OneChange, Config!InFlight, Floored
<1>10. Sizes'
  <2>1. AtMost(Config!ConfigForInstall, configSaves) /\ AtMost(configSnap', configSaves)
    BY <1>6, <1>7, Typed, Zeroes DEF Sizes
  <2> QED BY <1>1, <1>2, <1>3, <2>1, Typed, Zeroes DEF Sizes, Saving
<1>11. Floor'
  BY <1>2, SettingsAssumption DEF Floor, FloorAt
<1>12. Kept'
  <2> SUFFICES ASSUME configSlips' \intersect Lossy = {}
               PROVE  (KeptOnDisk /\ (\A v \in Workers : KeptAt(v))
                          /\ (\A s \in Requests : KeptBy(s)))'
    BY DEF Kept
  <2>1. KeptOnDisk /\ (\A v \in Workers : KeptAt(v)) /\ (\A s \in Requests : KeptBy(s))
    BY <1>2 DEF Kept
  <2>2. \A c : Safe(c, configAcked, configReq) => Safe(c, configAcked', configReq')
    BY <1>1, <1>2 DEF Safe
  <2>3. Safe(Config!ConfigForInstall, configAcked', configReq')
    BY <2>1, <2>2 DEF KeptOnDisk, Keeps
  <2>4. Config!ConfigForInstall' = Config!ConfigForInstall
    BY <1>3, <1>4 DEF Config!ConfigForInstall, Config!Snapshot
  <2>5. KeptOnDisk'
    BY <1>1, <1>2, <1>3, <2>1, <2>3, <2>4 DEF KeptOnDisk, Keeps
  <2>6. ASSUME NEW w \in Workers PROVE KeptAt(w)'
    BY <1>2, <1>3, <2>1, <2>2, <2>3 DEF KeptAt, Keeps, UpToDate, Config!Loaded
  <2>7. ASSUME NEW s \in Requests PROVE KeptBy(s)'
    BY <1>1, <1>2, <1>5, <2>1, <2>2 DEF KeptBy, Keeps, Saving, UpToDate
  <2> QED BY <2>5, <2>6, <2>7
<1> QED BY <1>8, <1>9, <1>10, <1>11, <1>12

LEMMA RestartBase ==
  ASSUME ConfigBase, NEW w \in Workers, Config!Restart(w)
  PROVE  ConfigBase'
<1> USE DEF ConfigBase
<1>1. UNCHANGED <<configMirror, configSnap, configToken, configSaves, configStamped,
                  configAcked>>
  BY DEF Config!Restart, Config!shared
<1>2. /\ configMem' = [configMem EXCEPT ![w] = Config!Gone]
      /\ configSeen' = [configSeen EXCEPT ![w] = 0]
      /\ configGate' = [configGate EXCEPT ![w] = None]
      /\ configLock' = [configLock EXCEPT ![w] = w]
      /\ configRows' = [configRows EXCEPT ![w] = configMirror]
      /\ configHeard' = configHeard \ {w}
      /\ configMem'[w] = Config!Gone /\ configSeen'[w] = 0 /\ configGate'[w] = None
      /\ configLock'[w] = w /\ configRows'[w] = configMirror
      /\ \A v \in Workers \ {w} : /\ configMem'[v] = configMem[v]
             /\ configSeen'[v] = configSeen[v] /\ configGate'[v] = configGate[v]
                                 /\ configLock'[v] = configLock[v]
                                 /\ configRows'[v] = configRows[v]
  BY DEF Config!Restart, ConfigShapes
<1>3. /\ configReq' \in [Requests -> RequestRecords]
      /\ \A s \in Requests : IF configReq[s].at = w THEN configReq'[s].phase = "done"
             /\ configReq'[s].since = Config!Defaults
                              ELSE configReq'[s] = configReq[s]
  BY Blank DEF Config!Restart, ConfigShapes
<1>4. configSlips' = configSlips \/ configSlips' = configSlips \union {"cut"}
  BY DEF Config!Restart
<1>5. configSlips' = configSlips =>
          "cut" \in configSlips \/ \A s \in Requests : configReq[s].at = w =>
              configReq[s].phase \notin Saving
  BY DEF Config!Restart, Saving
<1>6. ConfigShapes'
  BY <1>1, <1>2, <1>3 DEF ConfigShapes, MaybeGone
<1>7. Underway'
  BY <1>1, <1>2, <1>3, Typed DEF Underway, Config!InFlight, Saving, Floored
<1>8. Follows'
  BY <1>1, <1>2, <1>3, <1>4, <1>5, SettingsAssumption DEF Follows, Saving
<1> QED BY <1>6, <1>7, <1>8

LEMMA RestartKeeps ==
  ASSUME ConfigInv, NEW w \in Workers, Config!Restart(w)
  PROVE  ConfigInv'
<1> USE DEF ConfigInv, ConfigBase
<1>1. UNCHANGED <<configMirror, configSnap, configToken, configSaves, configStamped,
                  configAcked>>
  BY DEF Config!Restart, Config!shared
<1>2. /\ configMem' = [configMem EXCEPT ![w] = Config!Gone]
      /\ configSeen' = [configSeen EXCEPT ![w] = 0]
      /\ configGate' = [configGate EXCEPT ![w] = None]
      /\ configLock' = [configLock EXCEPT ![w] = w]
      /\ configRows' = [configRows EXCEPT ![w] = configMirror]
      /\ configHeard' = configHeard \ {w}
      /\ configMem'[w] = Config!Gone /\ configSeen'[w] = 0 /\ configGate'[w] = None
      /\ configLock'[w] = w /\ configRows'[w] = configMirror
      /\ \A v \in Workers \ {w} : /\ configMem'[v] = configMem[v]
             /\ configSeen'[v] = configSeen[v] /\ configGate'[v] = configGate[v]
                                 /\ configLock'[v] = configLock[v]
                                 /\ configRows'[v] = configRows[v]
  BY DEF Config!Restart, ConfigShapes
<1>3. /\ configReq' \in [Requests -> RequestRecords]
      /\ \A s \in Requests : IF configReq[s].at = w THEN configReq'[s].phase = "done"
             /\ configReq'[s].since = Config!Defaults
                              ELSE configReq'[s] = configReq[s]
  BY Blank DEF Config!Restart, ConfigShapes
<1>4. configSlips' = configSlips \/ configSlips' = configSlips \union {"cut"}
  BY DEF Config!Restart
<1>5. configSlips' = configSlips =>
          "cut" \in configSlips \/ \A s \in Requests : configReq[s].at = w =>
              configReq[s].phase \notin Saving
  BY DEF Config!Restart, Saving
<1>6. ConfigBase'
  BY RestartBase
<1>7. OneChange'
  BY <1>1, <1>3 DEF OneChange, Config!InFlight, Floored
<1>8. Sizes'
  BY <1>1, <1>2, <1>3, Typed, Zeroes DEF Sizes, Saving, AtMost
<1>9. Floor'
  <2> SUFFICES ASSUME "removed" \notin configSlips'
               PROVE  (RowIsNew /\ (\A v \in Workers : FloorAt(v))
                          /\ (\A s \in Requests : FloorOf(s)))'
    BY DEF Floor
  <2>1. RowIsNew /\ (\A v \in Workers : FloorAt(v)) /\ (\A s \in Requests : FloorOf(s))
    BY <1>4 DEF Floor
  <2>2. RowIsNew'
    BY <1>1, <2>1 DEF RowIsNew
  <2>3. ASSUME NEW v \in Workers PROVE FloorAt(v)'
    <3>1. CASE v = w
      BY <1>1, <1>2, <2>1, <3>1 DEF FloorAt, RowIsNew, Config!Loaded
    <3>2. CASE v # w
      BY <1>1, <1>2, <2>1, <3>2 DEF FloorAt, UpToDate, Config!Loaded
    <3> QED BY <3>1, <3>2
  <2>4. ASSUME NEW s \in Requests PROVE FloorOf(s)'
    <3>1. CASE configReq[s].at = w
      BY <1>1, <1>3, <3>1, Typed, Newer DEF FloorOf
    <3>2. CASE configReq[s].at # w
      BY <1>1, <1>2, <1>3, <2>1, <3>2 DEF FloorOf, Config!Loaded
    <3> QED BY <3>1, <3>2
  <2> QED BY <2>2, <2>3, <2>4
<1>10. Kept'
  <2> SUFFICES ASSUME configSlips' \intersect Lossy = {}
               PROVE  (KeptOnDisk /\ (\A v \in Workers : KeptAt(v))
                          /\ (\A s \in Requests : KeptBy(s)))'
    BY DEF Kept
  <2>1. KeptOnDisk /\ (\A v \in Workers : KeptAt(v)) /\ (\A s \in Requests : KeptBy(s))
    BY <1>4 DEF Kept
  <2>2. \A c : Safe(c, configAcked, configReq) => Safe(c, configAcked', configReq')
    BY <1>1, <1>3 DEF Safe
  <2>3. KeptOnDisk'
    <3>1. Config!ConfigForInstall' = Config!ConfigForInstall
      BY <1>1 DEF Config!ConfigForInstall
    <3> QED BY <1>1, <1>3, <2>1, <2>2, <3>1 DEF KeptOnDisk, Keeps
  <2>4. ASSUME NEW v \in Workers PROVE KeptAt(v)'
    BY <1>1, <1>2, <2>1, <2>2 DEF KeptAt, KeptOnDisk, Keeps, UpToDate, Config!Loaded
  <2>5. ASSUME NEW s \in Requests PROVE KeptBy(s)'
    BY <1>1, <1>2, <1>3, <2>1, <2>2 DEF KeptBy, Keeps, Saving, UpToDate
  <2> QED BY <2>3, <2>4, <2>5
<1> QED BY <1>6, <1>7, <1>8, <1>9, <1>10

\* The settings' own actions, as StepConfig takes them.
Requested(r) ==
  \/ Config!Gate(r) \/ Config!BeginRefresh(r) \/ Config!Refresh(r) \/ Config!RefreshFails(r)
  \/ Config!Serve(r) \/ Config!SaveLocal(r) \/ Config!SaveMirror(r)
  \/ Config!Stamp(r) \/ Config!StampFails(r)
  \/ Config!Announce(r) \/ Config!Uninstall(r) \/ Config!Install(r)

\* What has overlapped stays recorded.
LEMMA SlipsStay ==
  ASSUME [Config!Next]_(Config!configVars), Alone'
  PROVE  Alone
<1> SUFFICES configSlips \subseteq configSlips'
  BY DEF Alone
<1>1. CASE UNCHANGED Config!configVars
  BY <1>1 DEF Config!configVars
<1>2. ASSUME NEW r \in Requests, NEW w \in Workers,
             NEW kind \in {"read"} \union Config!Changes, NEW k \in SettingKeys,
             Config!Arrive(r, w, kind, k)
      PROVE  configSlips \subseteq configSlips'
  BY <1>2 DEF Config!Arrive
<1>3. ASSUME NEW r \in Requests, Requested(r) PROVE configSlips \subseteq configSlips'
  <2>1. CASE Config!Gate(r) \/ Config!BeginRefresh(r) \/ Config!Serve(r)
    BY <2>1 DEF Config!Gate, Config!BeginRefresh, Config!Serve, Config!history
  <2>2. CASE Config!Refresh(r) \/ Config!RefreshFails(r)
    BY <2>2 DEF Config!Refresh, Config!RefreshFails
  <2>3. CASE Config!SaveLocal(r) \/ Config!SaveMirror(r) \/ Config!Install(r)
    BY <2>3 DEF Config!SaveLocal, Config!SaveMirror, Config!Install, Config!history
  <2>4. CASE Config!Stamp(r) \/ Config!StampFails(r) \/ Config!Announce(r)
    BY <2>4 DEF Config!Stamp, Config!StampFails, Config!Announce
  <2>5. CASE Config!Uninstall(r)
    BY <2>5 DEF Config!Uninstall
  <2> QED BY <1>3, <2>1, <2>2, <2>3, <2>4, <2>5 DEF Requested
<1>4. ASSUME NEW w \in Workers, Config!Hear(w) \/ Config!Converge(w) \/ Config!Restart(w)
      PROVE  configSlips \subseteq configSlips'
  BY <1>4 DEF Config!Hear, Config!Converge, Config!Restart, Config!history
<1> QED BY <1>1, <1>2, <1>3, <1>4 DEF Config!Next, Requested

LEMMA StepConfig ==
  ASSUME PropagationInv, [Config!Next]_(Config!configVars)
  PROVE  PropagationInv'
<1> USE DEF PropagationInv
<1>1. ConfigBase'
  <2>1. CASE UNCHANGED Config!configVars
    BY <2>1, StutterBase
  <2>2. ASSUME NEW r \in Requests, NEW w \in Workers,
               NEW kind \in {"read"} \union Config!Changes, NEW k \in SettingKeys,
               Config!Arrive(r, w, kind, k)
        PROVE  ConfigBase'
    BY <2>2, ArriveBase
  <2>3. ASSUME NEW r \in Requests, Requested(r) PROVE ConfigBase'
    BY <2>3, GateBase, BeginRefreshBase, RefreshBase, RefreshFailsBase, ServeBase,
       SaveLocalBase, SaveMirrorBase, StampBase, StampFailsBase, AnnounceBase,
       UninstallBase, InstallBase DEF Requested
  <2>4. ASSUME NEW w \in Workers,
               Config!Hear(w) \/ Config!Converge(w) \/ Config!Restart(w)
        PROVE  ConfigBase'
    BY <2>4, HearBase, ConvergeBase, RestartBase
  <2> QED BY <2>1, <2>2, <2>3, <2>4 DEF Config!Next, Requested
<1>2. ASSUME Alone' PROVE ConfigInv'
  <2>1. ConfigInv
    BY <1>2, SlipsStay
  <2>2. CASE UNCHANGED Config!configVars
    BY <2>1, <2>2, StutterKeeps
  <2>3. ASSUME NEW r \in Requests, NEW w \in Workers,
               NEW kind \in {"read"} \union Config!Changes, NEW k \in SettingKeys,
               Config!Arrive(r, w, kind, k)
        PROVE  ConfigInv'
    BY <1>2, <2>1, <2>3, ArriveKeeps
  <2>4. ASSUME NEW r \in Requests, Requested(r) PROVE ConfigInv'
    BY <2>1, <2>4, GateKeeps, BeginRefreshKeeps, RefreshKeeps, RefreshFailsKeeps,
       ServeKeeps, SaveLocalKeeps, SaveMirrorKeeps, StampKeeps, StampFailsKeeps,
       AnnounceKeeps, UninstallKeeps, InstallKeeps DEF Requested
  <2>5. ASSUME NEW w \in Workers,
               Config!Hear(w) \/ Config!Converge(w) \/ Config!Restart(w)
        PROVE  ConfigInv'
    BY <2>1, <2>5, HearKeeps, ConvergeKeeps, RestartKeeps
  <2> QED BY <2>2, <2>3, <2>4, <2>5 DEF Config!Next, Requested
<1> QED BY <1>1, <1>2

\* What the invariant says of the three properties.
LEMMA SettingsFollow ==
  ASSUME PropagationInv
  PROVE  /\ Alone => Config!FloorHolds /\ Config!SettingsKept
         /\ Config!QuietMeansSame
<1> USE DEF PropagationInv
<1>1. ASSUME Alone PROVE Config!FloorHolds
  <2>1. Floor
    BY <1>1 DEF ConfigInv
  <2> QED BY <2>1 DEF Config!FloorHolds, Floor, FloorOf
<1>2. ASSUME Alone PROVE Config!SettingsKept
  <2>1. Kept
    BY <1>2 DEF ConfigInv
  <2> QED BY <2>1 DEF Config!SettingsKept, Kept, Lossy, KeptOnDisk, Keeps, Safe, AtLeast
<1>3. Config!QuietMeansSame
  <2> SUFFICES ASSUME configSlips \cap {"unheard", "cut"} = {}, configHeard = {},
                      \A r \in Requests : ~Config!InFlight(r),
                      \A w \in Workers : configLock[w] = None,
                      NEW w \in Workers
               PROVE  configMem[w] = configMirror
    BY DEF Config!QuietMeansSame
  <2>1. \A r \in Requests : configReq[r].phase \notin Saving
    BY DEF Config!InFlight, Saving
  <2>2. Follows
    BY DEF ConfigBase
  <2> QED BY <2>1, <2>2, SettingsAssumption DEF Follows
<1> QED BY <1>1, <1>2, <1>3

-----------------------------------------------------------------------------
\* Only the settings' own moves change their variables.
LEMMA SettingsAlone == [Next]_vars => [Config!Next]_(Config!configVars)
<1>1. Next => ConfigMoves \/ UNCHANGED configVars
  BY SMT DEF Next, VpnMoves, JobsMoves, MixedMoves, TwinsMoves, BoxesMoves,
     SettingsMoves, TreesMoves, DepsMoves, ToolsMoves, SeedsMoves, Unmoved
<1>2. UNCHANGED vars => UNCHANGED configVars
  BY DEF vars
<1>3. UNCHANGED configVars => UNCHANGED Config!configVars
  BY DEF configVars, Config!configVars
<1> QED BY <1>1, <1>2, <1>3 DEF ConfigMoves

\* SettingsAgree: whatever requests, saves, broadcasts, convergences, restarts and
\* uninstalls do, with nothing under way and nothing lost the workers have the mirror's
\* row, however changes overlap; and until two changes do, a request is served with
\* settings as new as the last save announced before it came and no acknowledged setting
\* is lost unless the model records how, for any workers, requests, settings and bounds
\* (config_store.py, the middleware of app.py, refresh_configs_in_process).
THEOREM SettingsAgreeHolds == Spec => []SettingsAgree
<1>1. Init => PropagationInv
  BY InitConfig DEF Init, PropagationInv, ConfigInv
<1>2. PropagationInv /\ [Next]_vars => PropagationInv'
  BY SettingsAlone, StepConfig
<1>3. PropagationInv => SettingsAgree
  BY SettingsFollow DEF SettingsAgree, Alone
<1> QED BY <1>1, <1>2, <1>3, PTL DEF Spec

-----------------------------------------------------------------------------
(* The panel that follows an install.  A worker says "installing" only while  *)
(* a task of its own is at it; and what an open panel is owed is owed by the  *)
(* worker it is connected to, whose link is up, and is on the way to it.      *)

JobRequests == [kind : Jobs!Kinds, at : Workers \cup {None}, phase : Jobs!Phases]
Views == [phase : {"new", "replaying", "open", "closed"}, at : Workers \cup {None},
          shows : Jobs!Statuses]

Recorded ==
  /\ jobsJob \in [Workers -> Jobs!Statuses] /\ jobsMirror \in Jobs!Statuses
  /\ jobsSending \subseteq Jobs!Message

Shown ==
  /\ jobsPushes \subseteq Jobs!Push /\ jobsLinked \in BOOLEAN
  /\ jobsInbox \in Seq(Jobs!Push)
  /\ jobsPanel \in Views /\ jobsDue \subseteq Jobs!Push

Around ==
  jobsLoaded \subseteq Workers /\ jobsWanted \in BOOLEAN /\ jobsFaults \in 0..MaxJobsFaults

\* A request that has come has a worker.
Placed ==
  /\ jobsReq \in [Panels -> JobRequests]
  /\ \A r \in Panels : jobsReq[r].phase # "new" => jobsReq[r].at \in Workers

OnTheWay(p) == p \in jobsPushes \/ \E i \in 1..Len(jobsInbox) : jobsInbox[i] = p

\* What is owed is owed to an open panel, by its own worker, whose link is up.
Owed ==
  \A p \in jobsDue :
    jobsPanel.phase = "open" /\ jobsPanel.at = p.at /\ jobsLinked /\ OnTheWay(p)

JobsInv == Recorded /\ Shown /\ Around /\ Placed /\ Jobs!NoStuckJob /\ Owed

-----------------------------------------------------------------------------
\* A job says "installing" for a request whose task has just begun, or as before.
LEMMA Stuck ==
  ASSUME Jobs!NoStuckJob, NEW r \in Panels,
         \A s \in Panels \ {r} : jobsReq'[s] = jobsReq[s],
         \A w \in Workers : jobsJob'[w] = "installing" =>
           \/ jobsReq'[r].phase = "task" /\ jobsReq'[r].at = w
           \/ jobsJob[w] = "installing"
                  /\ ~(jobsReq[r].phase = "task" /\ jobsReq[r].at = w)
  PROVE  Jobs!NoStuckJob'
BY DEF Jobs!NoStuckJob

\* Mark writes one status, and schedules what tells others of it.
LEMMA Marked ==
  ASSUME JobsInv, NEW r \in Panels, NEW w \in Workers, NEW s \in Jobs!Statuses,
         Jobs!Mark(r, w, s)
  PROVE  /\ Recorded' /\ Shown' /\ Owed'
         /\ jobsJob'[w] = s /\ \A v \in Workers \ {w} : jobsJob'[v] = jobsJob[v]
<1> DEFINE p == [at |-> w, by |-> r, status |-> s]
           m == [at |-> w, by |-> r, op |-> s]
<1>1. p \in Jobs!Push /\ p.at = w /\ m \in Jobs!Message
  BY DEF Jobs!Push, Jobs!Message
<1>2. /\ jobsSending' = jobsSending \cup {m} /\ jobsJob' = [jobsJob EXCEPT ![w] = s]
      /\ jobsPushes' = IF jobsPanel.phase \in {"replaying", "open"}
                         THEN jobsPushes \cup {p} ELSE jobsPushes
      /\ jobsDue' = IF jobsPanel.phase = "open" /\ jobsPanel.at = w /\ jobsLinked
                      THEN jobsDue \cup {p} ELSE jobsDue
      /\ UNCHANGED <<jobsMirror, jobsLinked, jobsInbox, jobsPanel>>
  BY DEF Jobs!Mark
<1> HIDE DEF p, m
<1>3. Recorded' /\ jobsJob'[w] = s /\ \A v \in Workers \ {w} : jobsJob'[v] = jobsJob[v]
  BY <1>1, <1>2 DEF JobsInv, Recorded
<1>4. Shown'
  BY <1>1, <1>2 DEF JobsInv, Shown
<1>5. Owed'
  BY <1>1, <1>2 DEF JobsInv, Owed, OnTheWay
<1> QED BY <1>3, <1>4, <1>5

\* A request's step: what becomes of the request, and what is marked.
LEMMA Moved ==
  ASSUME JobsInv, NEW r \in Panels, NEW q \in JobRequests,
         jobsReq' = [jobsReq EXCEPT ![r] = q],
         q.at \in Workers, q.phase # "new", Around',
         \/ Jobs!Mark(r, q.at, "installing") /\ q.phase = "task"
                /\ jobsReq[r].phase # "task"
         \/ (\E s \in Jobs!Statuses \ {"installing"} : Jobs!Mark(r, q.at, s))
                /\ q.at = jobsReq[r].at
         \/ UNCHANGED <<Jobs!records, Jobs!live>> /\ jobsReq[r].phase # "task"
         \/ /\ UNCHANGED <<jobsMirror, Jobs!live>> /\ jobsReq[r].phase # "task"
            /\ jobsJob' = [jobsJob EXCEPT ![q.at] = "none"]
            /\ jobsSending' = jobsSending \cup {[at |-> q.at, by |-> r, op |-> "none"]}
  PROVE  JobsInv'
<1>1. Placed' /\ jobsReq'[r] = q /\ \A s \in Panels \ {r} : jobsReq'[s] = jobsReq[s]
  BY DEF JobsInv, Placed
<1>2. CASE Jobs!Mark(r, q.at, "installing") /\ q.phase = "task"
               /\ jobsReq[r].phase # "task"
  <2>1. "installing" \in Jobs!Statuses
    BY DEF Jobs!Statuses
  <2>2. Recorded' /\ Shown' /\ Owed'
            /\ \A v \in Workers \ {q.at} : jobsJob'[v] = jobsJob[v]
    BY <1>2, <2>1, Marked
  <2>3. Jobs!NoStuckJob'
    BY <1>1, <1>2, <2>2, Stuck DEF JobsInv
  <2> QED BY <1>1, <2>2, <2>3 DEF JobsInv
<1>3. CASE (\E s \in Jobs!Statuses \ {"installing"} : Jobs!Mark(r, q.at, s))
               /\ q.at = jobsReq[r].at
  <2>1. PICK s \in Jobs!Statuses \ {"installing"} : Jobs!Mark(r, q.at, s)
    BY <1>3
  <2>2. /\ Recorded' /\ Shown' /\ Owed' /\ jobsJob'[q.at] = s
        /\ \A v \in Workers \ {q.at} : jobsJob'[v] = jobsJob[v]
    BY <2>1, Marked
  <2>3. Jobs!NoStuckJob'
    BY <1>1, <1>3, <2>1, <2>2 DEF JobsInv, Jobs!NoStuckJob
  <2> QED BY <1>1, <2>2, <2>3 DEF JobsInv
<1>4. CASE UNCHANGED <<Jobs!records, Jobs!live>> /\ jobsReq[r].phase # "task"
  <2>1. Recorded' /\ Shown' /\ Owed'
    BY <1>4 DEF JobsInv, Recorded, Shown, Owed, OnTheWay, Jobs!records, Jobs!live
  <2>2. Jobs!NoStuckJob'
    BY <1>1, <1>4, Stuck DEF JobsInv, Jobs!records
  <2> QED BY <1>1, <2>1, <2>2 DEF JobsInv
<1>5. CASE /\ UNCHANGED <<jobsMirror, Jobs!live>> /\ jobsReq[r].phase # "task"
           /\ jobsJob' = [jobsJob EXCEPT ![q.at] = "none"]
           /\ jobsSending' = jobsSending \cup {[at |-> q.at, by |-> r, op |-> "none"]}
  <2>1. "none" \in Jobs!Statuses
            /\ [at |-> q.at, by |-> r, op |-> "none"] \in Jobs!Message
    BY DEF Jobs!Statuses, Jobs!Message
  <2>2. Recorded' /\ \A w \in Workers : jobsJob'[w] \in {jobsJob[w], "none"}
    BY <1>5, <2>1 DEF JobsInv, Recorded
  <2>3. Shown' /\ Owed'
    BY <1>5 DEF JobsInv, Shown, Owed, OnTheWay, Jobs!live
  <2>4. Jobs!NoStuckJob'
    BY <1>1, <1>5, <2>2, Stuck DEF JobsInv
  <2> QED BY <1>1, <2>2, <2>3, <2>4 DEF JobsInv
<1> QED BY <1>2, <1>3, <1>4, <1>5

\* The four routes.
LEMMA RoutesKeep ==
  ASSUME JobsInv, NEW r \in Panels, NEW w \in Workers,
         Jobs!Install(r, w) \/ Jobs!Update(r, w) \/ Jobs!Pin(r, w) \/ Jobs!Uninstall(r, w)
  PROVE  JobsInv'
<1>1. jobsReq[r].phase = "new" /\ Around'
  BY DEF Jobs!Install, Jobs!Update, Jobs!Pin, Jobs!Uninstall, JobsInv, Around
<1>2. ASSUME NEW k \in Jobs!Kinds, NEW p \in Jobs!Phases, p # "new",
             jobsReq' = [jobsReq EXCEPT ![r] = [kind |-> k, at |-> w, phase |-> p]],
             \/ p = "task" /\ Jobs!Mark(r, w, "installing")
             \/ UNCHANGED <<Jobs!records, Jobs!live>>
      PROVE  JobsInv'
  <2> DEFINE q == [kind |-> k, at |-> w, phase |-> p]
  <2>1. q \in JobRequests /\ q.at = w /\ q.phase = p
            /\ jobsReq' = [jobsReq EXCEPT ![r] = q]
    BY <1>2 DEF JobRequests
  <2> HIDE DEF q
  <2> QED BY <1>1, <1>2, <2>1, Moved
<1>3. ASSUME NEW k \in Jobs!Kinds, NEW p \in Jobs!Phases,
             jobsReq' = [jobsReq EXCEPT ![r] = [kind |-> k, at |-> w, phase |-> p]]
      PROVE  jobsReq'[r].phase = p
  BY <1>3 DEF JobsInv, Placed
<1>4. CASE Jobs!Install(r, w)
  <2> DEFINE p == IF w \in jobsLoaded \/ jobsJob[w] = "installing" THEN "done"
                  ELSE IF jobsJob[w] = "none" THEN "reading" ELSE "task"
  <2>1. /\ p \in Jobs!Phases /\ p # "new" /\ "install" \in Jobs!Kinds
        /\ jobsReq' = [jobsReq EXCEPT ![r] = [kind |-> "install", at |-> w, phase |-> p]]
    BY <1>4 DEF Jobs!Install, Jobs!Phases, Jobs!Kinds
  <2> HIDE DEF p
  <2>2. jobsReq'[r].phase = p
    BY <1>3, <2>1
  <2>3. \/ p = "task" /\ Jobs!Mark(r, w, "installing")
        \/ UNCHANGED <<Jobs!records, Jobs!live>>
    BY <1>4, <2>2 DEF Jobs!Install
  <2> QED BY <1>2, <2>1, <2>3
<1>5. CASE Jobs!Update(r, w)
  <2>1. "done" \in Jobs!Phases /\ "task" \in Jobs!Phases /\ "update" \in Jobs!Kinds
    BY DEF Jobs!Phases, Jobs!Kinds
  <2>2. CASE jobsJob[w] = "installing"
    BY <1>2, <1>5, <2>1, <2>2 DEF Jobs!Update
  <2>3. CASE jobsJob[w] # "installing"
    BY <1>2, <1>5, <2>1, <2>3 DEF Jobs!Update
  <2> QED BY <2>2, <2>3
<1>6. CASE Jobs!Pin(r, w)
  <2>1. "done" \in Jobs!Phases /\ "writing" \in Jobs!Phases /\ "version" \in Jobs!Kinds
    BY DEF Jobs!Phases, Jobs!Kinds
  <2>2. CASE jobsJob[w] = "installing"
    BY <1>2, <1>6, <2>1, <2>2 DEF Jobs!Pin
  <2>3. CASE jobsJob[w] # "installing"
    BY <1>2, <1>6, <2>1, <2>3 DEF Jobs!Pin
  <2> QED BY <2>2, <2>3
<1>7. CASE Jobs!Uninstall(r, w)
  <2>1. "done" \in Jobs!Phases /\ "removing" \in Jobs!Phases /\ "uninstall" \in Jobs!Kinds
    BY DEF Jobs!Phases, Jobs!Kinds
  <2>2. CASE w \in jobsLoaded \/ jobsWanted
    BY <1>2, <1>7, <2>1, <2>2 DEF Jobs!Uninstall
  <2>3. CASE ~(w \in jobsLoaded \/ jobsWanted)
    BY <1>2, <1>7, <2>1, <2>3 DEF Jobs!Uninstall
  <2> QED BY <2>2, <2>3
<1> QED BY <1>4, <1>5, <1>6, <1>7

\* What follows on a route, and the background tasks.
LEMMA TasksKeep ==
  ASSUME JobsInv, NEW r \in Panels,
         \/ Jobs!GuardReads(r) \/ Jobs!GuardReadFails(r) \/ Jobs!PinWritten(r)
                \/ Jobs!PinRefused(r)
         \/ Jobs!Uninstalled(r) \/ Jobs!Installs(r) \/ Jobs!TaskFails(r)
                \/ Jobs!UpdateReturnsEarly(r)
  PROVE  JobsInv'
<1>1. /\ jobsReq[r] \in JobRequests /\ jobsReq[r].at \in Workers
      /\ jobsReq[r].phase \in {"reading", "writing", "removing", "task"}
  BY DEF Jobs!GuardReads, Jobs!GuardReadFails, Jobs!PinWritten, Jobs!PinRefused,
     Jobs!Uninstalled, Jobs!Installs, Jobs!TaskFails, Jobs!UpdateReturnsEarly, JobsInv,
     Placed
<1>2. Around'
  <2> USE DEF Jobs!GuardReads, Jobs!GuardReadFails, Jobs!PinWritten, Jobs!PinRefused,
              Jobs!Uninstalled, Jobs!Installs, Jobs!TaskFails, Jobs!UpdateReturnsEarly
  <2>1. jobsLoaded' \subseteq jobsLoaded \cup {jobsReq[r].at}
            /\ jobsWanted' \in {jobsWanted, TRUE, FALSE}
    OBVIOUS
  <2>2. jobsFaults' = jobsFaults \/ Jobs!Fault
    OBVIOUS
  <2>3. jobsFaults' \in 0..MaxJobsFaults
    BY <2>2, JobsAssumption DEF JobsInv, Around, Jobs!Fault
  <2>4. jobsLoaded' \subseteq Workers /\ jobsWanted' \in BOOLEAN
    BY <1>1, <2>1 DEF JobsInv, Around
  <2> QED BY <2>3, <2>4 DEF Around
<1>3. ASSUME NEW p \in {"task", "done"}, Jobs!To(r, p),
         \/ Jobs!Mark(r, jobsReq[r].at, "installing") /\ p = "task"
                /\ jobsReq[r].phase # "task"
         \/ \E s \in Jobs!Statuses \ {"installing"} : Jobs!Mark(r, jobsReq[r].at, s)
         \/ UNCHANGED <<Jobs!records, Jobs!live>> /\ jobsReq[r].phase # "task"
         \/ /\ UNCHANGED <<jobsMirror, Jobs!live>> /\ jobsReq[r].phase # "task"
            /\ jobsJob' = [jobsJob EXCEPT ![jobsReq[r].at] = "none"]
            /\ jobsSending' =
                 jobsSending \cup {[at |-> jobsReq[r].at, by |-> r, op |-> "none"]}
      PROVE  JobsInv'
  <2> DEFINE q == [jobsReq[r] EXCEPT !.phase = p]
  <2>1. q \in JobRequests /\ q.at = jobsReq[r].at /\ q.phase = p
    BY <1>1 DEF JobRequests, Jobs!Phases
  <2>2. jobsReq' = [jobsReq EXCEPT ![r] = q]
    BY <1>3 DEF Jobs!To
  <2> HIDE DEF q
  <2> QED BY <1>1, <1>2, <1>3, <2>1, <2>2, Moved
<1>4. {"installed", "failed"} \subseteq Jobs!Statuses \ {"installing"}
  BY DEF Jobs!Statuses
<1>5. CASE Jobs!GuardReads(r) \/ Jobs!GuardReadFails(r) \/ Jobs!PinWritten(r)
               \/ Jobs!PinRefused(r)
  BY <1>3, <1>5 DEF Jobs!GuardReads, Jobs!GuardReadFails, Jobs!PinWritten, Jobs!PinRefused
<1>6. CASE Jobs!Uninstalled(r)
  BY <1>3, <1>6 DEF Jobs!Uninstalled
<1>7. CASE Jobs!Installs(r) \/ Jobs!TaskFails(r) \/ Jobs!UpdateReturnsEarly(r)
  BY <1>3, <1>4, <1>7 DEF Jobs!Installs, Jobs!TaskFails, Jobs!UpdateReturnsEarly
<1> QED BY <1>5, <1>6, <1>7

\* The mirror in Redis, and the other workers that attach or detach the app.
LEMMA MirrorKeeps ==
  ASSUME JobsInv,
         \/ \E m \in jobsSending : Jobs!MirrorWrite(m) \/ Jobs!MirrorWriteFails(m)
         \/ Jobs!MirrorExpires \/ \E w \in Workers : Jobs!Follow(w)
  PROVE  JobsInv'
<1>1. /\ UNCHANGED <<Jobs!live, jobsReq, jobsJob>>
      /\ jobsMirror' \in Jobs!Statuses /\ jobsSending' \subseteq jobsSending /\ Around'
  BY JobsAssumption DEF Jobs!MirrorWrite, Jobs!MirrorWriteFails, Jobs!MirrorExpires,
     Jobs!Follow, Jobs!records, JobsInv, Recorded, Around, Jobs!Fault, Jobs!Message,
     Jobs!Statuses
<1>2. Recorded' /\ Placed' /\ Jobs!NoStuckJob'
  BY <1>1 DEF JobsInv, Recorded, Placed, Jobs!NoStuckJob
<1>3. Shown' /\ Owed'
  BY <1>1 DEF JobsInv, Shown, Owed, OnTheWay, Jobs!live
<1> QED BY <1>1, <1>2, <1>3 DEF JobsInv

\* The panel opens, closes and loses its link.
LEMMA PanelKeeps ==
  ASSUME JobsInv,
         (\E w \in Workers : Jobs!PanelOpens(w)) \/ Jobs!PanelListens \/ Jobs!PanelCloses
           \/ Jobs!LinkDrops \/ Jobs!Resubscribe
  PROVE  JobsInv'
<1>1. UNCHANGED <<Jobs!records, jobsLoaded, jobsWanted, jobsReq>> /\ Around'
  BY JobsAssumption DEF Jobs!PanelOpens, Jobs!PanelListens, Jobs!PanelCloses,
     Jobs!LinkDrops, Jobs!Resubscribe, JobsInv, Around, Jobs!Fault
<1>2. Recorded' /\ Placed' /\ Jobs!NoStuckJob'
  BY <1>1 DEF JobsInv, Recorded, Placed, Jobs!NoStuckJob, Jobs!records
<1>3. <<>> \in Seq(Jobs!Push)
  OBVIOUS
<1>4. CASE (\E w \in Workers : Jobs!PanelOpens(w)) \/ Jobs!PanelListens
  <2>1. UNCHANGED <<jobsPushes, jobsLinked, jobsInbox, jobsDue>>
            /\ jobsPanel.phase \in {"new", "replaying"}
    BY <1>4 DEF Jobs!PanelOpens, Jobs!PanelListens
  <2>2. jobsPanel' \in Views
    BY <1>4 DEF Jobs!PanelOpens, Jobs!PanelListens, Jobs!Answer, JobsInv, Recorded, Shown,
       Views
  <2> QED BY <1>1, <1>2, <2>1, <2>2 DEF JobsInv, Shown, Owed
<1>5. CASE Jobs!PanelCloses
  BY <1>1, <1>2, <1>3, <1>5 DEF Jobs!PanelCloses, JobsInv, Shown, Owed, Views
<1>6. CASE Jobs!LinkDrops
  BY <1>1, <1>2, <1>3, <1>6 DEF Jobs!LinkDrops, JobsInv, Shown, Owed
<1>7. CASE Jobs!Resubscribe
  BY <1>1, <1>2, <1>7 DEF Jobs!Resubscribe, JobsInv, Shown, Owed, OnTheWay
<1> QED BY <1>4, <1>5, <1>6, <1>7

\* A push is published, delivered here when that fails, and arrives.
LEMMA PushesKeep ==
  ASSUME JobsInv,
         \/ Jobs!PushArrives
         \/ \E p \in jobsPushes : Jobs!PushPublishes(p) \/ Jobs!PushFails(p)
  PROVE  JobsInv'
<1>1. UNCHANGED <<Jobs!records, jobsLoaded, jobsWanted, jobsReq, jobsLinked>> /\ Around'
  BY JobsAssumption DEF Jobs!PushArrives, Jobs!PushPublishes, Jobs!PushFails, JobsInv,
     Around, Jobs!Fault
<1>2. Recorded' /\ Placed' /\ Jobs!NoStuckJob'
  BY <1>1 DEF JobsInv, Recorded, Placed, Jobs!NoStuckJob, Jobs!records
<1>3. ASSUME NEW p \in Jobs!Push, Jobs!SendAll(p)
      PROVE  /\ jobsPanel' \in Views /\ jobsPanel'.at = jobsPanel.at
             /\ jobsPanel'.phase = jobsPanel.phase
             /\ jobsDue' = jobsDue \ {p}
  <2>1. p.status \in Jobs!Statuses
    BY DEF Jobs!Push
  <2> QED BY <1>3, <2>1 DEF Jobs!SendAll, JobsInv, Shown, Views
<1>4. CASE Jobs!PushArrives
  <2>1. /\ Len(jobsInbox) \in Nat \ {0} /\ Head(jobsInbox) = jobsInbox[1]
        /\ Head(jobsInbox) \in Jobs!Push
        /\ jobsInbox' = Tail(jobsInbox) /\ Tail(jobsInbox) \in Seq(Jobs!Push)
        /\ \A i \in 2..Len(jobsInbox) : i - 1 \in 1..Len(jobsInbox')
               /\ jobsInbox'[i - 1] = jobsInbox[i]
    BY <1>4 DEF Jobs!PushArrives, JobsInv, Shown
  <2>2. /\ jobsPanel' \in Views /\ jobsPanel'.at = jobsPanel.at
        /\ jobsPanel'.phase = jobsPanel.phase
        /\ jobsDue' = jobsDue \ {Head(jobsInbox)} /\ jobsPushes' = jobsPushes
    BY <1>3, <1>4, <2>1 DEF Jobs!PushArrives
  <2>3. Shown'
    BY <1>1, <2>1, <2>2 DEF JobsInv, Shown
  <2>4. ASSUME NEW p \in jobsDue' PROVE OnTheWay(p)'
    <3>1. p \in jobsDue /\ OnTheWay(p) /\ p # jobsInbox[1]
      BY <2>1, <2>2 DEF JobsInv, Owed
    <3>2. CASE p \in jobsPushes
      BY <2>2, <3>2 DEF OnTheWay
    <3>3. CASE p \notin jobsPushes
      <4>1. PICK i \in 1..Len(jobsInbox) : jobsInbox[i] = p
        BY <3>1, <3>3 DEF OnTheWay
      <4>2. i \in 2..Len(jobsInbox)
        BY <2>1, <3>1, <4>1
      <4> QED BY <2>1, <4>1, <4>2 DEF OnTheWay
    <3> QED BY <3>2, <3>3
  <2> QED BY <1>1, <1>2, <2>2, <2>3, <2>4 DEF JobsInv, Owed
<1>5. ASSUME NEW p \in jobsPushes, Jobs!PushPublishes(p) PROVE JobsInv'
  <2>1. p \in Jobs!Push /\ jobsInbox \in Seq(Jobs!Push)
    BY DEF JobsInv, Shown
  <2>2. /\ Append(jobsInbox, p) \in Seq(Jobs!Push)
        /\ Len(Append(jobsInbox, p)) = Len(jobsInbox) + 1
        /\ Append(jobsInbox, p)[Len(jobsInbox) + 1] = p /\ Len(jobsInbox) \in Nat
        /\ \A i \in 1..Len(jobsInbox) : Append(jobsInbox, p)[i] = jobsInbox[i]
    BY <2>1
  <2>3. /\ jobsPushes' = jobsPushes \ {p} /\ UNCHANGED <<jobsPanel, jobsDue>>
        /\ jobsInbox' = IF jobsLinked THEN Append(jobsInbox, p) ELSE jobsInbox
    BY <1>5 DEF Jobs!PushPublishes
  <2>4. Shown'
    BY <1>1, <2>1, <2>2, <2>3 DEF JobsInv, Shown
  <2>5. ASSUME NEW q \in jobsDue' PROVE OnTheWay(q)'
    <3>1. q \in jobsDue /\ OnTheWay(q) /\ jobsInbox' = Append(jobsInbox, p)
      BY <2>3 DEF JobsInv, Owed
    <3>2. Len(jobsInbox') = Len(jobsInbox) + 1
              /\ Len(jobsInbox) + 1 \in 1..Len(jobsInbox')
      BY <2>2, <3>1
    <3> QED BY <2>2, <2>3, <3>1, <3>2 DEF OnTheWay
  <2> QED BY <1>1, <1>2, <2>3, <2>4, <2>5 DEF JobsInv, Owed
<1>6. ASSUME NEW p \in jobsPushes, Jobs!PushFails(p) PROVE JobsInv'
  <2>1. p \in Jobs!Push
    BY DEF JobsInv, Shown
  <2>2. jobsPushes' = jobsPushes \ {p} /\ jobsInbox' = jobsInbox
    BY <1>6 DEF Jobs!PushFails
  <2>3. /\ jobsPanel' \in Views /\ jobsPanel'.at = jobsPanel.at
        /\ jobsPanel'.phase = jobsPanel.phase
        /\ jobsDue' = IF p.at = jobsPanel.at THEN jobsDue \ {p} ELSE jobsDue
    BY <1>3, <1>6, <2>1 DEF Jobs!PushFails, JobsInv, Shown
  <2>4. Shown'
    BY <1>1, <2>2, <2>3 DEF JobsInv, Shown
  <2>5. Owed'
    BY <1>1, <2>2, <2>3 DEF JobsInv, Owed, OnTheWay
  <2> QED BY <1>1, <1>2, <2>4, <2>5 DEF JobsInv
<1> QED BY <1>4, <1>5, <1>6

\* A worker is replaced: its jobs, tasks and pushes are gone with it.
LEMMA JobRestartKeeps ==
  ASSUME JobsInv, NEW w \in Workers, Jobs!WorkerRestarts(w)
  PROVE  JobsInv'
<1>1. Recorded' /\ Around'
  BY JobsAssumption DEF Jobs!WorkerRestarts, JobsInv, Recorded, Around, Jobs!Fault,
     Jobs!Statuses
<1>2. ASSUME NEW r \in Panels
      PROVE  /\ jobsReq'[r] \in JobRequests /\ jobsReq'[r].at = jobsReq[r].at
             /\ jobsReq[r].at # w => jobsReq'[r] = jobsReq[r]
             /\ jobsReq[r].at = w => jobsReq'[r].phase = "done"
  <2>1. jobsReq[r] \in JobRequests
    BY DEF JobsInv, Placed
  <2>2. jobsReq'[r] = IF jobsReq[r].at = w
                        THEN [jobsReq[r] EXCEPT !.phase = "done"] ELSE jobsReq[r]
    BY DEF Jobs!WorkerRestarts
  <2>3. "done" \in Jobs!Phases
    BY DEF Jobs!Phases
  <2> QED BY <2>1, <2>2, <2>3 DEF JobRequests
<1>3. Placed'
  BY <1>2 DEF Jobs!WorkerRestarts, JobsInv, Placed
<1>4. Jobs!NoStuckJob'
  <2>1. jobsJob'[w] = "none" /\ \A v \in Workers \ {w} : jobsJob'[v] = jobsJob[v]
    BY DEF Jobs!WorkerRestarts, JobsInv, Recorded
  <2> QED BY <1>2, <2>1 DEF JobsInv, Jobs!NoStuckJob
<1>5. Shown' /\ Owed'
  <2>1. jobsPushes' = {p \in jobsPushes : p.at # w}
    BY DEF Jobs!WorkerRestarts
  <2>2. CASE jobsPanel.at = w
    <3>1. <<>> \in Seq(Jobs!Push)
      OBVIOUS
    <3> QED BY <2>1, <2>2, <3>1 DEF Jobs!WorkerRestarts, JobsInv, Shown, Owed, Views
  <2>3. CASE jobsPanel.at # w
    BY <2>1, <2>3 DEF Jobs!WorkerRestarts, JobsInv, Shown, Owed, OnTheWay
  <2> QED BY <2>2, <2>3
<1> QED BY <1>1, <1>3, <1>4, <1>5 DEF JobsInv

LEMMA InitJobs == Jobs!Init => JobsInv
<1> SUFFICES ASSUME Jobs!Init PROVE JobsInv
  OBVIOUS
<1>1. <<>> \in Seq(Jobs!Push) /\ Len(<<>>) = 0
  OBVIOUS
<1>2. Recorded /\ Around /\ Jobs!NoStuckJob
  BY JobsAssumption DEF Jobs!Init, Recorded, Around, Jobs!NoStuckJob, Jobs!Statuses
<1>3. Shown /\ Owed
  BY <1>1 DEF Jobs!Init, Shown, Owed, Views, Jobs!Statuses
<1>4. Placed
  BY DEF Jobs!Init, Placed, JobRequests, Jobs!Kinds, Jobs!Phases
<1> QED BY <1>2, <1>3, <1>4 DEF JobsInv

LEMMA StepJobs == JobsInv /\ [Jobs!Next]_(Jobs!jobVars) => JobsInv'
<1>1. ASSUME JobsInv, UNCHANGED Jobs!jobVars PROVE JobsInv'
  <2>1. Recorded' /\ Around' /\ Placed' /\ Jobs!NoStuckJob'
    BY <1>1 DEF JobsInv, Jobs!jobVars, Recorded, Around, Placed, Jobs!NoStuckJob
  <2>2. Shown' /\ Owed'
    BY <1>1 DEF JobsInv, Jobs!jobVars, Shown, Owed, OnTheWay
  <2> QED BY <2>1, <2>2 DEF JobsInv
<1>2. ASSUME JobsInv, Jobs!Next PROVE JobsInv'
  BY <1>2, RoutesKeep, TasksKeep, MirrorKeeps, PanelKeeps, PushesKeep, JobRestartKeeps
     DEF Jobs!Next
<1> QED BY <1>1, <1>2

LEMMA JobsReport == JobsInv => Jobs!NoStuckJob /\ Jobs!PanelHearsItsWorker
BY DEF JobsInv, Owed, OnTheWay, Jobs!PanelHearsItsWorker

\* Only the moves of jobs and panel change their variables.
LEMMA JobsAlone == [Next]_vars => [Jobs!Next]_(Jobs!jobVars)
<1>1. Next => JobsMoves \/ UNCHANGED jobsVars
  BY SMT DEF Next, VpnMoves, ConfigMoves, MixedMoves, TwinsMoves, BoxesMoves,
     SettingsMoves, TreesMoves, DepsMoves, ToolsMoves, SeedsMoves, Unmoved
<1>2. UNCHANGED vars => UNCHANGED jobsVars
  BY DEF vars
<1>3. UNCHANGED jobsVars => UNCHANGED Jobs!jobVars
  BY DEF jobsVars, Jobs!jobVars
<1> QED BY <1>1, <1>2, <1>3 DEF JobsMoves

\* InstallsAreReported: no worker shows an install under way that is not, and an open
\* panel hears every status that its worker sets since it listens there, by Redis or
\* without it, whatever fails, restarts or is removed meanwhile, for any workers and
\* requests (InstallJobs.set_status, _publish; the panel's route).
THEOREM InstallsAreReportedHolds == Spec => []InstallsAreReported
<1>1. Init => JobsInv
  BY InitJobs DEF Init
<1>2. JobsInv /\ [Next]_vars => JobsInv'
  BY JobsAlone, StepJobs
<1>3. JobsInv => InstallsAreReported
  BY JobsReport DEF InstallsAreReported
<1> QED BY <1>1, <1>2, <1>3, PTL DEF Spec

-----------------------------------------------------------------------------
(* Loads and unloads, of plugins and of apps that are containers.  A loaded   *)
(* app's journal has all that it owns, so the unload that reverts it takes    *)
(* all back; whoever is torn down, or is not loaded, is not mounted.          *)

OpKinds == Mixed!Loads \cup Mixed!Unloads \cup {"none"}

LEMMA PluggedOnly == Plugged \subseteq Mixed!PluginEffects
BY DEF Plugged, Mixed!PluginEffects

\* What an app has when it is loaded.
Owns(a) == IF a \in Contained THEN {"container", "route"} ELSE Plugged

RuntimeTyped ==
  /\ appMounts \in [Loadable -> SUBSET Mixed!Mounts]
  /\ appRegistered \in [Loadable -> SUBSET Mixed!Registry]
  /\ appJournal \in [Loadable -> SUBSET Mixed!PluginEffects]
  /\ appOutside \in [Loadable -> SUBSET Mixed!Worldly]
  /\ appDone \in [Loadable -> SUBSET Mixed!PluginEffects]
  /\ appActive \in [Loadable -> 0..1]
  /\ appOp \in [Loadable -> [kind : OpKinds, step : Mixed!Steps]]
  /\ appLast \in [Loadable -> OpKinds]

\* Which steps an operation takes with the app loaded, and which without.
InOrder(a) ==
  /\ appOp[a].step \in {"locking", "starting", "activating"} => a \notin appLoaded
  /\ appOp[a].step \in {"publishing", "draining", "deactivating", "reverting"} =>
         a \in appLoaded
  /\ appOp[a].kind \in {"uninstall", "detach", "upgrade"} => a \in appLoaded
  /\ appOp[a].step \in {"locking", "starting", "activating", "publishing"} =>
         appOp[a].kind \in Mixed!Loads
  /\ appOp[a].step = "starting" => a \in Contained
  /\ appOp[a].step = "locking" => a \notin Contained

\* The journal has all that a load has done, and while an unload reverts, what is left.
Journaled(a) ==
  /\ appRegistered[a] \cup appOutside[a] \subseteq Owns(a)
  /\ appOp[a].step = "activating" =>
       IF a \in Contained THEN "container" \in appJournal[a]
                         ELSE appDone[a] \subseteq appJournal[a]
  /\ a \in appLoaded \ appCut /\ appOp[a].step # "reverting" =>
         Owns(a) \subseteq appJournal[a]
  /\ appOp[a].step = "reverting" /\ a \notin appCut \cup appSpoiled =>
       /\ appRegistered[a] \subseteq appJournal[a] \cup {"cli"}
       /\ Mixed!Provisions(a) => appOutside[a] \subseteq appJournal[a] \cup {"secret"}

\* Nothing leads to an app that is being torn down, or that is not loaded.
Unmounted(a) == appMounts[a] = {} /\ "watchdog" \notin appRegistered[a]

ShutOff(a) ==
  /\ appOp[a].step \in {"draining", "deactivating", "reverting"} => Unmounted(a)
  /\ a \notin appLoaded \cup appCut /\ appOp[a].step # "activating" => Unmounted(a)
  /\ a \in Contained \ (appLoaded \cup appCut) => appMounts[a] = {}

Drains(a) ==
  appOp[a].step \in {"deactivating", "reverting"} /\ a \notin appRushed =>
      appActive[a] = 0

TakenBack(a) ==
  a \notin appLoaded \cup appCut \cup appSpoiled /\ Mixed!Idle(a) =>
    /\ appLast[a] \in {"uninstall", "undo"} => appMounts[a] = {} /\ appRegistered[a] = {}
    /\ appLast[a] = "uninstall" => appOutside[a] = {}
    /\ appLast[a] = "undo" => appOutside[a] \cap {"service", "container"} = {}

Sound(a) == InOrder(a) /\ Journaled(a) /\ ShutOff(a) /\ Drains(a) /\ TakenBack(a)

RuntimeInv == RuntimeTyped /\ \A a \in Loadable : Sound(a)

Same(b) ==
  /\ UNCHANGED <<appOp[b], appMounts[b], appRegistered[b], appJournal[b], appOutside[b],
                 appDone[b], appActive[b], appLast[b]>>
  /\ (b \in appLoaded') = (b \in appLoaded) /\ (b \in appCut') = (b \in appCut)
  /\ (b \in appRushed') = (b \in appRushed) /\ (b \in appSpoiled') = (b \in appSpoiled)

LEMMA SameSound == ASSUME NEW b \in Loadable, Sound(b), Same(b) PROVE Sound(b)'
<1>1. InOrder(b)'
  BY DEF Sound, Same, InOrder
<1>2. Journaled(b)'
  BY DEF Sound, Same, Journaled, Mixed!Provisions
<1>3. ShutOff(b)' /\ Drains(b)'
  BY DEF Sound, Same, ShutOff, Drains, Unmounted
<1>4. TakenBack(b)'
  BY DEF Sound, Same, TakenBack, Mixed!Idle
<1> QED BY <1>1, <1>2, <1>3, <1>4 DEF Sound

\* An operation on one app leaves the others alone.
LEMMA OneApp ==
  ASSUME RuntimeInv, NEW a \in Loadable, RuntimeTyped', Sound(a)',
         \A b \in Loadable \ {a} : Same(b)
  PROVE  RuntimeInv'
BY SameSound DEF RuntimeInv

\* How an operation goes on.
LEMMA OpSteps ==
  ASSUME RuntimeInv, NEW a \in Loadable
  PROVE  /\ \A step \in Mixed!Steps : Mixed!Step(a, step) =>
              /\ appOp'[a].step = step /\ appOp'[a].kind = appOp[a].kind
              /\ appLast' = appLast
              /\ appOp' \in [Loadable -> [kind : OpKinds, step : Mixed!Steps]]
              /\ \A b \in Loadable \ {a} : appOp'[b] = appOp[b]
         /\ \A kind \in OpKinds, step \in Mixed!Steps : Mixed!Become(a, kind, step) =>
              /\ appOp'[a].step = step /\ appOp'[a].kind = kind /\ appLast' = appLast
              /\ appOp' \in [Loadable -> [kind : OpKinds, step : Mixed!Steps]]
              /\ \A b \in Loadable \ {a} : appOp'[b] = appOp[b]
         /\ Mixed!Ends(a) =>
              /\ appOp'[a].step = "idle" /\ appOp'[a].kind = "none"
              /\ appLast'[a] = appOp[a].kind
              /\ appOp' \in [Loadable -> [kind : OpKinds, step : Mixed!Steps]]
              /\ appLast' \in [Loadable -> OpKinds]
              /\ \A b \in Loadable \ {a} :
                     appOp'[b] = appOp[b] /\ appLast'[b] = appLast[b]
<1>1. /\ appOp \in [Loadable -> [kind : OpKinds, step : Mixed!Steps]]
      /\ appLast \in [Loadable -> OpKinds]
  BY DEF RuntimeInv, RuntimeTyped
<1>2. appOp[a].kind \in OpKinds /\ "none" \in OpKinds /\ "idle" \in Mixed!Steps
  BY <1>1 DEF OpKinds, Mixed!Steps
<1>3. ASSUME NEW step \in Mixed!Steps, Mixed!Step(a, step)
      PROVE  /\ appOp'[a].step = step /\ appOp'[a].kind = appOp[a].kind
             /\ appLast' = appLast
             /\ appOp' \in [Loadable -> [kind : OpKinds, step : Mixed!Steps]]
             /\ \A b \in Loadable \ {a} : appOp'[b] = appOp[b]
  BY <1>1, <1>3 DEF Mixed!Step
<1>4. ASSUME NEW kind \in OpKinds, NEW step \in Mixed!Steps, Mixed!Become(a, kind, step)
      PROVE  /\ appOp'[a].step = step /\ appOp'[a].kind = kind /\ appLast' = appLast
             /\ appOp' \in [Loadable -> [kind : OpKinds, step : Mixed!Steps]]
             /\ \A b \in Loadable \ {a} : appOp'[b] = appOp[b]
  BY <1>1, <1>4 DEF Mixed!Become
<1>5. ASSUME Mixed!Ends(a)
      PROVE  /\ appOp'[a].step = "idle" /\ appOp'[a].kind = "none"
             /\ appLast'[a] = appOp[a].kind
             /\ appOp' \in [Loadable -> [kind : OpKinds, step : Mixed!Steps]]
             /\ appLast' \in [Loadable -> OpKinds]
             /\ \A b \in Loadable \ {a} : appOp'[b] = appOp[b] /\ appLast'[b] = appLast[b]
  BY <1>1, <1>2, <1>5 DEF Mixed!Ends
<1> QED BY <1>3, <1>4, <1>5

\* The operation after one of these steps, by what it was.
OpTyped ==
  /\ appOp' \in [Loadable -> [kind : OpKinds, step : Mixed!Steps]]
  /\ appLast' \in [Loadable -> OpKinds]

OnlyOp(a) ==
  OpTyped /\ \A b \in Loadable \ {a} : appOp'[b] = appOp[b] /\ appLast'[b] = appLast[b]

Ended(a) ==
  /\ appOp'[a].step = "idle" /\ appOp'[a].kind = "none"
  /\ appLast'[a] = appOp[a].kind

LEMMA FailsHow ==
  ASSUME RuntimeInv, NEW a \in Loadable, Mixed!Fails(a)
  PROVE  /\ OnlyOp(a)
         /\ \/ /\ appOp[a].kind \in {"install", "old"}
               /\ appOp'[a].kind = "undo" /\ appOp'[a].step = "unmounting"
            \/ /\ appOp[a].kind = "new"
               /\ appOp'[a].kind = "undonew" /\ appOp'[a].step = "unmounting"
            \/ appOp[a].kind \notin {"install", "old", "new"} /\ Ended(a)
<1>1. appLast \in [Loadable -> OpKinds]
  BY DEF RuntimeInv, RuntimeTyped
<1>2. "undo" \in OpKinds /\ "undonew" \in OpKinds /\ "unmounting" \in Mixed!Steps
  BY DEF OpKinds, Mixed!Unloads, Mixed!Steps
<1> QED BY <1>1, <1>2, OpSteps DEF Mixed!Fails, OnlyOp, OpTyped, Ended

LEMMA UnloadedHow ==
  ASSUME RuntimeInv, NEW a \in Loadable, Mixed!Unloaded(a)
  PROVE  /\ OnlyOp(a)
         /\ \/ /\ appOp'[a].kind \in {"new", "old"}
                      /\ appOp[a].kind \in {"upgrade", "undonew"}
               /\ appOp'[a].step = IF a \in Contained THEN "starting" ELSE "locking"
            \/ appOp[a].kind \notin {"upgrade", "undonew"} /\ Ended(a)
<1>1. appLast \in [Loadable -> OpKinds]
  BY DEF RuntimeInv, RuntimeTyped
<1>2. /\ "new" \in OpKinds /\ "old" \in OpKinds
      /\ Mixed!FirstStep(a, "new") = IF a \in Contained THEN "starting" ELSE "locking"
      /\ Mixed!FirstStep(a, "old") = IF a \in Contained THEN "starting" ELSE "locking"
      /\ Mixed!FirstStep(a, "new") \in Mixed!Steps
      /\ Mixed!FirstStep(a, "old") \in Mixed!Steps
  BY DEF OpKinds, Mixed!Loads, Mixed!Unloads, Mixed!Steps, Mixed!FirstStep
<1> QED BY <1>1, <1>2, OpSteps DEF Mixed!Unloaded, OnlyOp, OpTyped, Ended

LEMMA StepHow ==
  ASSUME RuntimeInv, NEW a \in Loadable, NEW step \in Mixed!Steps, Mixed!Step(a, step)
  PROVE  /\ OnlyOp(a) /\ appOp'[a].step = step /\ appOp'[a].kind = appOp[a].kind
         /\ appLast' = appLast
BY OpSteps DEF OnlyOp, OpTyped, RuntimeInv, RuntimeTyped

LEMMA EndsHow ==
  ASSUME RuntimeInv, NEW a \in Loadable, Mixed!Ends(a)
  PROVE  OnlyOp(a) /\ Ended(a)
BY OpSteps DEF OnlyOp, OpTyped, Ended

-----------------------------------------------------------------------------
\* Requests come and go.
LEMMA RequestsKeep ==
  ASSUME RuntimeInv, NEW a \in Loadable, Mixed!RequestIn(a) \/ Mixed!RequestOut(a)
  PROVE  RuntimeInv'
<1>1. RuntimeTyped' /\ \A b \in Loadable \ {a} : Same(b)
  <2>1. UNCHANGED <<appLoaded, appMounts, appRegistered, appJournal, appOutside, appDone,
                    appOp, appLast, appCut, appRushed, appSpoiled>>
    BY DEF Mixed!RequestIn, Mixed!RequestOut, Mixed!state, Mixed!history
  <2>2. \E n \in 0..1 : appActive' = [appActive EXCEPT ![a] = n]
    BY DEF Mixed!RequestIn, Mixed!RequestOut
  <2>3. /\ appActive' \in [Loadable -> 0..1]
        /\ \A b \in Loadable \ {a} : appActive'[b] = appActive[b]
    BY <2>2 DEF RuntimeInv, RuntimeTyped
  <2> QED BY <2>1, <2>3 DEF RuntimeInv, RuntimeTyped, Same
<1>2. Sound(a)
  BY DEF RuntimeInv
<1>3. UNCHANGED <<appLoaded, appMounts, appRegistered, appJournal, appOutside, appDone,
                  appOp, appLast, appCut, appRushed, appSpoiled>>
  BY DEF Mixed!RequestIn, Mixed!RequestOut, Mixed!state, Mixed!history
<1>4. InOrder(a)' /\ Journaled(a)' /\ ShutOff(a)' /\ TakenBack(a)'
  BY <1>2, <1>3 DEF Sound, InOrder, Journaled, Mixed!Provisions, ShutOff, Unmounted,
     TakenBack, Mixed!Idle
<1>5. appActive'[a] = appActive[a] \/ appActive'[a] = 0 \/ appMounts[a] # {}
  BY DEF Mixed!RequestIn, Mixed!RequestOut, RuntimeInv, RuntimeTyped
<1>6. Drains(a)'
  BY <1>2, <1>3, <1>5 DEF Sound, ShutOff, Unmounted, Drains
<1> QED BY <1>1, <1>4, <1>6, OneApp DEF Sound

\* An operation is asked for.
LEMMA BeginKeeps ==
  ASSUME RuntimeInv, NEW a \in Loadable, NEW kind \in Mixed!Loads \cup Mixed!Unloads,
         Mixed!Begin(a, kind)
  PROVE  RuntimeInv'
<1>1. /\ Mixed!FirstStep(a, kind) \in Mixed!Steps /\ kind \in OpKinds
      /\ Mixed!Become(a, kind, Mixed!FirstStep(a, kind))
      /\ kind \in IF a \in appLoaded THEN {"uninstall", "detach", "upgrade"}
                                     ELSE {"install", "attach"}
      /\ Mixed!Idle(a)
  BY DEF Mixed!Begin, Mixed!FirstStep, Mixed!Steps, OpKinds
<1>2. /\ appOp'[a].step = Mixed!FirstStep(a, kind) /\ appOp'[a].kind = kind
      /\ appLast' = appLast
      /\ appOp' \in [Loadable -> [kind : OpKinds, step : Mixed!Steps]]
      /\ \A b \in Loadable \ {a} : appOp'[b] = appOp[b]
  BY <1>1, OpSteps
<1>3. UNCHANGED <<appLoaded, appMounts, appRegistered, appJournal, appOutside, appDone,
                  appActive, appCut, appRushed, appSpoiled>>
  BY DEF Mixed!Begin, Mixed!state, Mixed!history
<1>4. RuntimeTyped' /\ \A b \in Loadable \ {a} : Same(b)
  BY <1>2, <1>3 DEF RuntimeInv, RuntimeTyped, Same
<1>5. Sound(a) /\ appOp[a].step = "idle"
  BY <1>1 DEF RuntimeInv, Mixed!Idle
<1>6. Mixed!FirstStep(a, kind) =
        IF a \in appLoaded THEN "unmounting"
        ELSE IF a \in Contained THEN "starting" ELSE "locking"
  BY <1>1 DEF Mixed!FirstStep, Mixed!Unloads
<1>7. InOrder(a)'
  BY <1>1, <1>2, <1>3, <1>6 DEF InOrder, Mixed!Loads
<1>8. Journaled(a)' /\ ShutOff(a)' /\ Drains(a)' /\ TakenBack(a)'
  BY <1>2, <1>3, <1>5, <1>6 DEF Sound, Journaled, ShutOff, Unmounted, Drains, TakenBack,
     Mixed!Idle
<1> QED BY <1>4, <1>7, <1>8, OneApp DEF Sound

\* Another worker provisions the app.
LEMMA ElsewhereKeeps ==
  ASSUME RuntimeInv, NEW a \in Loadable, Mixed!ProvisionedElsewhere(a)
  PROVE  RuntimeInv'
<1> DEFINE theirs ==
        IF a \in Contained THEN {"container"}
                          ELSE (Plugged \cap Mixed!Worldly) \ {"service"}
<1>1. theirs \in SUBSET Mixed!Worldly /\ theirs \subseteq Owns(a)
  BY DEF Mixed!Worldly, Owns
<1>2. /\ appOutside' = [appOutside EXCEPT ![a] = theirs]
      /\ appLast' = [appLast EXCEPT ![a] = "none"]
      /\ UNCHANGED <<appLoaded, appMounts, appRegistered, appJournal, appDone, appActive,
                     appOp, appCut, appRushed, appSpoiled>>
      /\ appOp[a].step = "idle" /\ a \notin appLoaded
  BY DEF Mixed!ProvisionedElsewhere, Mixed!history, Mixed!Idle
<1> HIDE DEF theirs
<1>3. /\ RuntimeTyped' /\ (\A b \in Loadable \ {a} : Same(b)) /\ appOutside'[a] = theirs
      /\ appLast'[a] = "none"
  BY <1>1, <1>2 DEF RuntimeInv, RuntimeTyped, Same, OpKinds
<1>4. Sound(a)
  BY DEF RuntimeInv
<1>5. InOrder(a)' /\ Journaled(a)' /\ ShutOff(a)' /\ Drains(a)' /\ TakenBack(a)'
  BY <1>1, <1>2, <1>3, <1>4 DEF Sound, InOrder, Journaled, ShutOff, Unmounted, Drains,
     TakenBack, Mixed!Idle
<1> QED BY <1>3, <1>5, OneApp DEF Sound

\* A load begins to activate, and what comes of one that raises.
LEMMA ActivationKeeps ==
  ASSUME RuntimeInv, NEW a \in Loadable, a \notin Contained,
         Mixed!ImportFails(a) \/ Mixed!EnterActivate(a) \/ Mixed!ActivateRaises(a)
  PROVE  RuntimeInv'
<1>1. Sound(a) /\ RuntimeTyped
  BY DEF RuntimeInv
<1>2. CASE Mixed!ImportFails(a)
  <2>1. /\ Mixed!Fails(a) /\ appOp[a].step = "locking"
        /\ UNCHANGED <<appLoaded, appMounts, appRegistered, appJournal, appOutside,
                       appDone, appActive, appCut, appRushed, appSpoiled>>
    BY <1>2 DEF Mixed!ImportFails, Mixed!At, Mixed!state, Mixed!history
  <2>2. /\ OnlyOp(a) /\ appOp'[a].step \in {"unmounting", "idle"}
        /\ (appOp'[a].step = "idle" =>
               appOp[a].kind \notin {"install", "old", "new"} /\ Ended(a))
        /\ appOp'[a].kind \in {"undo", "undonew", "none"}
    BY <2>1, FailsHow DEF Ended
  <2>3. RuntimeTyped' /\ \A b \in Loadable \ {a} : Same(b)
    BY <1>1, <2>1, <2>2 DEF RuntimeTyped, Same, OnlyOp, OpTyped
  <2>4. InOrder(a)' /\ Journaled(a)' /\ ShutOff(a)' /\ Drains(a)' /\ TakenBack(a)'
    BY <1>1, <2>1, <2>2 DEF Sound, InOrder, Journaled, ShutOff, Unmounted, Drains,
       TakenBack, Mixed!Idle, Ended, Mixed!Loads
  <2> QED BY <2>3, <2>4, OneApp DEF Sound
<1>3. CASE Mixed!EnterActivate(a)
  <2>1. /\ Mixed!Step(a, "activating") /\ appOp[a].step = "locking"
        /\ appDone' = [appDone EXCEPT ![a] = {}]
        /\ UNCHANGED <<appLoaded, appMounts, appRegistered, appJournal, appOutside,
                       appActive, appCut, appRushed, appSpoiled>>
    BY <1>3 DEF Mixed!EnterActivate, Mixed!At, Mixed!state, Mixed!history
  <2>2. /\ OnlyOp(a) /\ appOp'[a].step = "activating" /\ appOp'[a].kind = appOp[a].kind
        /\ appLast' = appLast
    BY <2>1, StepHow DEF Mixed!Steps
  <2>3. RuntimeTyped' /\ (\A b \in Loadable \ {a} : Same(b)) /\ appDone'[a] = {}
    BY <1>1, <2>1, <2>2 DEF RuntimeTyped, Same, OnlyOp, OpTyped
  <2>4. InOrder(a)' /\ Journaled(a)' /\ ShutOff(a)' /\ Drains(a)' /\ TakenBack(a)'
    BY <1>1, <2>1, <2>2, <2>3 DEF Sound, InOrder, Journaled, ShutOff, Unmounted, Drains,
       TakenBack, Mixed!Idle
  <2> QED BY <2>3, <2>4, OneApp DEF Sound
<1>4. CASE Mixed!ActivateRaises(a)
  <2>1. /\ Mixed!Fails(a) /\ appOp[a].step = "activating"
        /\ appMounts' = [appMounts EXCEPT ![a] = {}]
        /\ appJournal' = [appJournal EXCEPT ![a] = {}]
        /\ appRegistered' = [appRegistered EXCEPT ![a] = appRegistered[a] \ {"watchdog"}]
        /\ UNCHANGED <<appLoaded, appOutside, appDone, appActive, appCut, appRushed,
                       appSpoiled>>
    BY <1>4 DEF Mixed!ActivateRaises, Mixed!At, Mixed!history
  <2>2. /\ OnlyOp(a) /\ appOp'[a].step \in {"unmounting", "idle"}
        /\ (appOp'[a].step = "idle" =>
               appOp[a].kind \notin {"install", "old", "new"} /\ Ended(a))
        /\ appOp'[a].kind \in {"undo", "undonew", "none"}
    BY <2>1, FailsHow DEF Ended
  <2>3. /\ RuntimeTyped' /\ (\A b \in Loadable \ {a} : Same(b)) /\ appMounts'[a] = {}
        /\ appRegistered'[a] = appRegistered[a] \ {"watchdog"}
    BY <1>1, <2>1, <2>2 DEF RuntimeTyped, Same, OnlyOp, OpTyped
  <2>4. InOrder(a)' /\ Journaled(a)' /\ ShutOff(a)' /\ Drains(a)' /\ TakenBack(a)'
    BY <1>1, <2>1, <2>2, <2>3 DEF Sound, InOrder, Journaled, ShutOff, Unmounted, Drains,
       TakenBack, Mixed!Idle, Ended, Mixed!Loads
  <2> QED BY <2>3, <2>4, OneApp DEF Sound
<1> QED BY <1>2, <1>3, <1>4

\* What a plugin registers is on its journal.
LEMMA RegistersKeep ==
  ASSUME RuntimeInv, NEW a \in Loadable, a \notin Contained,
         \/ Mixed!RegisterRoutes(a) \/ Mixed!RegisterWatchdog(a)
         \/ Mixed!RegisterService(a) \/ Mixed!RegisterContainer(a)
         \/ Mixed!InstallCommand(a) \/ Mixed!InstallSystemCli(a) \/ Mixed!WriteSecret(a)
  PROVE  RuntimeInv'
<1>1. Sound(a) /\ RuntimeTyped
  BY DEF RuntimeInv
<1>2. PICK e \in Plugged :
        /\ Mixed!Does(a, e) /\ Mixed!Record(a, e)
        /\ \/ appRegistered' = appRegistered
           \/ Mixed!Register(a, e) /\ e \in Mixed!Registry
        /\ \/ appOutside' = appOutside
           \/ /\ appOutside' = [appOutside EXCEPT ![a] = appOutside[a] \cup {e}]
              /\ e \in Mixed!Worldly
        /\ appMounts' = appMounts \/ appMounts' = [appMounts EXCEPT ![a] = Mixed!Mounts]
  BY DEF Mixed!RegisterRoutes, Mixed!RegisterWatchdog, Mixed!RegisterService,
     Mixed!RegisterContainer, Mixed!InstallCommand, Mixed!InstallSystemCli,
     Mixed!WriteSecret, Mixed!Does, Mixed!Create, Mixed!Registry, Mixed!Unique,
     Mixed!Worldly
<1>3. /\ appOp[a].step = "activating"
      /\ appDone' = [appDone EXCEPT ![a] = appDone[a] \cup {e}]
      /\ appJournal' = [appJournal EXCEPT ![a] = appJournal[a] \cup {e}]
      /\ \/ appRegistered' = appRegistered
         \/ /\ appRegistered' = [appRegistered EXCEPT ![a] = appRegistered[a] \cup {e}]
            /\ e \in Mixed!Registry
      /\ UNCHANGED <<appLoaded, appActive, appOp, appCut, appRushed, appSpoiled, appLast>>
  BY <1>2 DEF Mixed!Does, Mixed!Record, Mixed!Register, Mixed!At, Mixed!history
<1>4. /\ appDone'[a] = appDone[a] \cup {e} /\ appJournal'[a] = appJournal[a] \cup {e}
      /\ appRegistered'[a] \subseteq appRegistered[a] \cup {e}
      /\ appOutside'[a] \subseteq appOutside[a] \cup {e}
      /\ \A b \in Loadable \ {a} : Same(b)
  BY <1>1, <1>2, <1>3 DEF RuntimeTyped, Same
<1>5. RuntimeTyped'
  <2>1. e \in Mixed!PluginEffects
    BY PluggedOnly
  <2>2. /\ appDone' \in [Loadable -> SUBSET Mixed!PluginEffects]
        /\ appJournal' \in [Loadable -> SUBSET Mixed!PluginEffects]
    BY <1>1, <1>3, <2>1 DEF RuntimeTyped
  <2>3. appRegistered' \in [Loadable -> SUBSET Mixed!Registry]
    BY <1>1, <1>3 DEF RuntimeTyped
  <2>4. appOutside' \in [Loadable -> SUBSET Mixed!Worldly]
    BY <1>1, <1>2 DEF RuntimeTyped
  <2>5. appMounts' \in [Loadable -> SUBSET Mixed!Mounts]
    BY <1>1, <1>2 DEF RuntimeTyped
  <2> QED BY <1>1, <1>3, <2>2, <2>3, <2>4, <2>5 DEF RuntimeTyped
<1>6. InOrder(a)' /\ Journaled(a)' /\ ShutOff(a)' /\ Drains(a)' /\ TakenBack(a)'
  BY <1>1, <1>3, <1>4 DEF Sound, InOrder, Journaled, Owns, ShutOff, Unmounted, Drains,
     TakenBack, Mixed!Idle
<1> QED BY <1>4, <1>5, <1>6, OneApp DEF Sound

\* A plugin's load ends, and what is published of it.
LEMMA PublishKeeps ==
  ASSUME RuntimeInv, NEW a \in Loadable,
         \/ Mixed!ActivateReturns(a) /\ a \notin Contained
         \/ Mixed!PublishFails(a) \/ Mixed!Published(a)
  PROVE  RuntimeInv'
<1>1. Sound(a) /\ RuntimeTyped
  BY DEF RuntimeInv
<1>2. CASE Mixed!ActivateReturns(a) /\ a \notin Contained
  <2>1. /\ appOp[a].step = "activating" /\ appDone[a] = Plugged
        /\ appLoaded' = appLoaded \cup {a}
        /\ Mixed!Step(a, "publishing") \/ (Mixed!Ends(a) /\ ~Mixed!Provisions(a))
        /\ UNCHANGED <<appMounts, appRegistered, appJournal, appOutside, appDone,
                       appActive, appCut, appRushed, appSpoiled>>
    BY <1>2 DEF Mixed!ActivateReturns, Mixed!At, Mixed!state, Mixed!history
  <2>2. /\ OnlyOp(a)
        /\ \/ appOp'[a].step = "publishing" /\ appOp'[a].kind = appOp[a].kind
           \/ Ended(a) /\ appOp[a].kind \in {"attach", "detach"}
    BY <2>1, StepHow, EndsHow DEF Mixed!Steps, Mixed!Provisions
  <2>3. RuntimeTyped' /\ (\A b \in Loadable \ {a} : Same(b))
    BY <1>1, <2>1, <2>2 DEF RuntimeTyped, Same, OnlyOp, OpTyped
  <2>4. InOrder(a)' /\ Journaled(a)' /\ ShutOff(a)' /\ Drains(a)' /\ TakenBack(a)'
    BY <1>1, <1>2, <2>1, <2>2 DEF Sound, InOrder, Journaled, Owns, ShutOff, Unmounted,
       Drains, TakenBack, Mixed!Idle, Ended
  <2> QED BY <2>3, <2>4, OneApp DEF Sound
<1>3. CASE Mixed!PublishFails(a) \/ Mixed!Published(a)
  <2>1. /\ appOp[a].step = "publishing" /\ (Mixed!Fails(a) \/ Mixed!Ends(a))
        /\ UNCHANGED <<appLoaded, appMounts, appRegistered, appJournal, appOutside,
                       appDone, appActive, appCut, appRushed, appSpoiled>>
    BY <1>3 DEF Mixed!PublishFails, Mixed!Published, Mixed!At, Mixed!state, Mixed!history
  <2>2. /\ OnlyOp(a) /\ appOp'[a].step \in {"unmounting", "idle"}
        /\ appOp'[a].kind \in {"undo", "undonew", "none"}
    BY <2>1, FailsHow, EndsHow DEF Ended
  <2>3. RuntimeTyped' /\ (\A b \in Loadable \ {a} : Same(b))
    BY <1>1, <2>1, <2>2 DEF RuntimeTyped, Same, OnlyOp, OpTyped
  <2>4. InOrder(a)' /\ Journaled(a)' /\ ShutOff(a)' /\ Drains(a)' /\ TakenBack(a)'
    BY <1>1, <2>1, <2>2 DEF Sound, InOrder, Journaled, ShutOff, Unmounted, Drains,
       TakenBack, Mixed!Idle
  <2> QED BY <2>3, <2>4, OneApp DEF Sound
<1> QED BY <1>2, <1>3

\* An app that is containers comes up.
LEMMA ContainersKeep ==
  ASSUME RuntimeInv, NEW a \in Loadable,
         \/ Mixed!RegisterAndStart(a) \/ Mixed!RegisterRaises(a) \/ Mixed!SidecarRaises(a)
         \/ Mixed!ContainerUp(a) \/ Mixed!ContainerStartFails(a)
  PROVE  RuntimeInv'
<1>1. Sound(a) /\ RuntimeTyped
  BY DEF RuntimeInv
<1>2. UNCHANGED <<appDone, appActive, appCut, appRushed, appSpoiled>>
  BY DEF Mixed!RegisterAndStart, Mixed!RegisterRaises, Mixed!SidecarRaises,
     Mixed!ContainerUp, Mixed!ContainerStartFails, Mixed!state, Mixed!history
<1>3. a \in Contained
  BY <1>1 DEF Mixed!RegisterAndStart, Mixed!RegisterRaises, Mixed!SidecarRaises,
     Mixed!ContainerUp, Mixed!ContainerStartFails, Sound, InOrder, Mixed!At
<1>4. /\ "container" \in Mixed!PluginEffects /\ "route" \in Mixed!PluginEffects
      /\ "container" \in Mixed!Worldly
      /\ "container" \in Mixed!Registry /\ Owns(a) = {"container", "route"}
  BY <1>3 DEF Mixed!PluginEffects, Mixed!Worldly, Mixed!Registry, Mixed!Unique, Owns
<1>5. ASSUME NEW reg \in {appRegistered[a], appRegistered[a] \cup {"container"},
                        appRegistered[a] \ {"container"}},
             NEW jnl \in {appJournal[a], appJournal[a] \cup {"container"}, {}},
             NEW out \in {appOutside[a], appOutside[a] \cup {"container"},
                        appOutside[a] \ {"container"}},
             appRegistered' = [appRegistered EXCEPT ![a] = reg],
             appJournal' = [appJournal EXCEPT ![a] = jnl],
             appOutside' = [appOutside EXCEPT ![a] = out],
             UNCHANGED <<appLoaded, appMounts>>,
             \/ Mixed!Fails(a) /\ appOp[a].step \in {"starting", "activating"}
             \/ /\ Mixed!Step(a, "activating") /\ appOp[a].step = "starting"
                /\ "container" \in jnl
      PROVE  RuntimeInv'
  <2>1. /\ OnlyOp(a)
        /\ \/ appOp'[a].step = "unmounting" /\ appOp'[a].kind \in {"undo", "undonew"}
           \/ Ended(a) /\ appOp[a].kind \notin {"install", "old", "new"}
                  /\ appOp[a].kind \in Mixed!Loads
           \/ appOp'[a].step = "activating" /\ appOp'[a].kind = appOp[a].kind
                  /\ appOp[a].kind \in Mixed!Loads
                /\ "container" \in jnl /\ appLast' = appLast
    BY <1>1, <1>5, FailsHow, StepHow DEF Mixed!Steps, Sound, InOrder
  <2>2. /\ appRegistered'[a] = reg /\ appJournal'[a] = jnl /\ appOutside'[a] = out
        /\ \A b \in Loadable \ {a} : Same(b)
    BY <1>1, <1>2, <1>5, <2>1 DEF RuntimeTyped, Same, OnlyOp
  <2>3. RuntimeTyped'
    <3>1. /\ reg \in SUBSET Mixed!Registry /\ jnl \in SUBSET Mixed!PluginEffects
          /\ out \in SUBSET Mixed!Worldly
      BY <1>1, <1>4 DEF RuntimeTyped
    <3> QED BY <1>1, <1>2, <1>5, <2>1, <3>1 DEF RuntimeTyped, OnlyOp, OpTyped
  <2>4. a \notin appLoaded
    BY <1>1, <1>5 DEF Sound, InOrder
  <2>5. InOrder(a)'
    BY <1>3, <1>5, <2>1, <2>4 DEF InOrder, Ended, Mixed!Loads
  <2>6. Journaled(a)'
    BY <1>1, <1>2, <1>3, <1>4, <1>5, <2>1, <2>2, <2>4 DEF Sound, Journaled, Ended
  <2>7. ShutOff(a)' /\ Drains(a)'
    BY <1>1, <1>2, <1>3, <1>4, <1>5, <2>1, <2>2, <2>4 DEF Sound, Journaled, ShutOff,
       Unmounted, Drains, Ended
  <2>8. TakenBack(a)'
    BY <2>1 DEF TakenBack, Mixed!Idle, Ended, Mixed!Loads
  <2> QED BY <2>2, <2>3, <2>5, <2>6, <2>7, <2>8, OneApp DEF Sound
<1>6. CASE Mixed!RegisterAndStart(a)
  <2>1. Mixed!Create(a, "container") =>
            \E out \in {appOutside[a], appOutside[a] \cup {"container"}} :
              appOutside' = [appOutside EXCEPT ![a] = out]
    BY <1>1 DEF Mixed!Create, RuntimeTyped
  <2> QED BY <1>5, <1>6, <2>1 DEF Mixed!RegisterAndStart, Mixed!Register, Mixed!Record,
     Mixed!At
<1>7. CASE Mixed!RegisterRaises(a)
  <2>1. /\ appRegistered' = [appRegistered EXCEPT ![a] = appRegistered[a]]
        /\ appJournal' = [appJournal EXCEPT ![a] = appJournal[a]]
        /\ appOutside' = [appOutside EXCEPT ![a] = appOutside[a]]
    BY <1>1, <1>7 DEF Mixed!RegisterRaises, Mixed!state, RuntimeTyped
  <2> QED BY <1>5, <1>7, <2>1 DEF Mixed!RegisterRaises, Mixed!At
<1>8. CASE Mixed!SidecarRaises(a)
  <2>1. appOutside' = [appOutside EXCEPT ![a] = appOutside[a]]
    BY <1>1, <1>8 DEF Mixed!SidecarRaises, RuntimeTyped
  <2> QED BY <1>5, <1>8, <2>1 DEF Mixed!SidecarRaises, Mixed!Register, Mixed!Record,
     Mixed!At
<1>9. CASE Mixed!ContainerStartFails(a)
  <2>1. \E out \in {appOutside[a], appOutside[a] \ {"container"}} :
          appOutside' = [appOutside EXCEPT ![a] = out]
    BY <1>1, <1>9 DEF Mixed!ContainerStartFails, Mixed!StopsContainer, RuntimeTyped
  <2> QED BY <1>5, <1>9, <2>1 DEF Mixed!ContainerStartFails, Mixed!At
<1>10. CASE Mixed!ContainerUp(a)
  <2>1. /\ appOp[a].step = "activating" /\ appLoaded' = appLoaded \cup {a}
        /\ appMounts' = [appMounts EXCEPT ![a] = Mixed!Mounts]
        /\ appJournal' = [appJournal EXCEPT ![a] = appJournal[a] \cup {"route"}]
        /\ Mixed!Step(a, "publishing") \/ (Mixed!Ends(a) /\ ~Mixed!Provisions(a))
        /\ UNCHANGED <<appRegistered, appOutside>>
    BY <1>10 DEF Mixed!ContainerUp, Mixed!Record, Mixed!At
  <2>2. /\ OnlyOp(a)
        /\ \/ appOp'[a].step = "publishing" /\ appOp'[a].kind = appOp[a].kind
           \/ Ended(a) /\ appOp[a].kind \in {"attach", "detach"}
    BY <2>1, StepHow, EndsHow DEF Mixed!Steps, Mixed!Provisions
  <2>3. /\ (\A b \in Loadable \ {a} : Same(b))
        /\ appJournal'[a] = appJournal[a] \cup {"route"}
    BY <1>1, <1>2, <2>1, <2>2 DEF RuntimeTyped, Same, OnlyOp
  <2>4. RuntimeTyped'
    BY <1>1, <1>2, <1>4, <2>1, <2>2 DEF RuntimeTyped, OnlyOp, OpTyped
  <2>5. InOrder(a)' /\ Journaled(a)' /\ ShutOff(a)' /\ Drains(a)' /\ TakenBack(a)'
    BY <1>1, <1>2, <1>3, <1>4, <2>1, <2>2, <2>3 DEF Sound, InOrder, Journaled, ShutOff,
       Drains, TakenBack, Ended
  <2> QED BY <2>3, <2>4, <2>5, OneApp DEF Sound
<1> QED BY <1>6, <1>7, <1>8, <1>9, <1>10

\* An unload takes the app off the router, and waits.
LEMMA UnmountKeeps ==
  ASSUME RuntimeInv, NEW a \in Loadable,
         Mixed!Unmount(a) \/ Mixed!Drained(a) \/ Mixed!DrainTimesOut(a)
             \/ Mixed!Deactivated(a)
  PROVE  RuntimeInv'
<1>1. Sound(a) /\ RuntimeTyped
  BY DEF RuntimeInv
<1>2. UNCHANGED <<appLoaded, appJournal, appOutside, appDone, appActive, appCut,
                  appSpoiled>>
  BY DEF Mixed!Unmount, Mixed!Drained, Mixed!DrainTimesOut, Mixed!Deactivated,
     Mixed!state, Mixed!history
<1>3. CASE Mixed!Unmount(a)
  <2>1. /\ Mixed!Step(a, "draining") /\ appOp[a].step = "unmounting" /\ a \in appLoaded
        /\ appRushed' = appRushed
        /\ appMounts' = [appMounts EXCEPT ![a] = {}]
        /\ appRegistered' = [appRegistered EXCEPT ![a] = appRegistered[a] \ {"watchdog"}]
    BY <1>3 DEF Mixed!Unmount, Mixed!At, Mixed!history
  <2>2. OnlyOp(a) /\ appOp'[a].step = "draining" /\ appOp'[a].kind = appOp[a].kind
    BY <2>1, StepHow DEF Mixed!Steps
  <2>3. /\ RuntimeTyped' /\ \A b \in Loadable \ {a} : Same(b)
        /\ appMounts'[a] = {} /\ appRegistered'[a] = appRegistered[a] \ {"watchdog"}
    BY <1>1, <1>2, <2>1, <2>2 DEF RuntimeTyped, Same, OnlyOp, OpTyped
  <2>4. InOrder(a)' /\ Journaled(a)' /\ ShutOff(a)' /\ Drains(a)' /\ TakenBack(a)'
    BY <1>1, <1>2, <2>1, <2>2, <2>3 DEF Sound, InOrder, Journaled, ShutOff, Unmounted,
       Drains, TakenBack, Mixed!Idle
  <2> QED BY <2>3, <2>4, OneApp DEF Sound
<1>4. CASE Mixed!Drained(a) \/ Mixed!DrainTimesOut(a)
  <2>1. /\ Mixed!Step(a, "deactivating") /\ appOp[a].step = "draining"
        /\ UNCHANGED <<appMounts, appRegistered>>
        /\ (appRushed' = appRushed /\ appActive[a] = 0) \/ appRushed' = appRushed \cup {a}
    BY <1>4 DEF Mixed!Drained, Mixed!DrainTimesOut, Mixed!At, Mixed!history, Mixed!state
  <2>2. OnlyOp(a) /\ appOp'[a].step = "deactivating" /\ appOp'[a].kind = appOp[a].kind
    BY <2>1, StepHow DEF Mixed!Steps
  <2>3. RuntimeTyped' /\ \A b \in Loadable \ {a} : Same(b)
    BY <1>1, <1>2, <2>1, <2>2 DEF RuntimeTyped, Same, OnlyOp, OpTyped
  <2>4. InOrder(a)' /\ Journaled(a)' /\ ShutOff(a)' /\ Drains(a)' /\ TakenBack(a)'
    BY <1>1, <1>2, <2>1, <2>2 DEF Sound, InOrder, Journaled, ShutOff, Unmounted, Drains,
       TakenBack, Mixed!Idle
  <2> QED BY <2>3, <2>4, OneApp DEF Sound
<1>5. CASE Mixed!Deactivated(a)
  <2>1. /\ Mixed!Step(a, "reverting") /\ appOp[a].step = "deactivating"
        /\ UNCHANGED <<appMounts, appRegistered, appRushed>>
    BY <1>5 DEF Mixed!Deactivated, Mixed!At, Mixed!history, Mixed!state
  <2>2. OnlyOp(a) /\ appOp'[a].step = "reverting" /\ appOp'[a].kind = appOp[a].kind
    BY <2>1, StepHow DEF Mixed!Steps
  <2>3. RuntimeTyped' /\ \A b \in Loadable \ {a} : Same(b)
    BY <1>1, <1>2, <2>1, <2>2 DEF RuntimeTyped, Same, OnlyOp, OpTyped
  <2>4. a \in appLoaded /\ (a \notin appCut =>
            appRegistered[a] \cup appOutside[a] \subseteq appJournal[a])
    BY <1>1, <2>1 DEF Sound, InOrder, Journaled
  <2>5. InOrder(a)' /\ Journaled(a)' /\ ShutOff(a)' /\ Drains(a)' /\ TakenBack(a)'
    BY <1>1, <1>2, <2>1, <2>2, <2>4 DEF Sound, InOrder, Journaled, ShutOff, Unmounted,
       Drains, TakenBack, Mixed!Idle
  <2> QED BY <2>3, <2>5, OneApp DEF Sound
<1> QED BY <1>3, <1>4, <1>5

\* It reverts the journal, entry by entry.
LEMMA RevertsKeep ==
  ASSUME RuntimeInv, NEW a \in Loadable, NEW e \in Mixed!PluginEffects,
         Mixed!Revert(a, e) \/ Mixed!RevertFails(a, e)
  PROVE  RuntimeInv'
<1>1. Sound(a) /\ RuntimeTyped
  BY DEF RuntimeInv
<1>2. /\ appOp[a].step = "reverting"
      /\ appJournal' = [appJournal EXCEPT ![a] = appJournal[a] \ {e}]
      /\ UNCHANGED <<appLoaded, appMounts, appDone, appActive, appOp, appCut, appRushed,
                     appLast>>
  BY DEF Mixed!Revert, Mixed!RevertFails, Mixed!At, Mixed!history
<1>3. CASE Mixed!Revert(a, e)
  <2>1. /\ appRegistered' = [appRegistered EXCEPT ![a] = appRegistered[a] \ ({e} \ {"cli"})]
        /\ \/ appOutside' = [appOutside EXCEPT ![a] = appOutside[a] \ ({e} \ {"secret"})]
           \/ ~Mixed!Provisions(a) /\ appOutside' = appOutside
        /\ appSpoiled' = appSpoiled
    BY <1>3 DEF Mixed!Revert, Mixed!history
  <2>2. /\ appRegistered'[a] = appRegistered[a] \ ({e} \ {"cli"})
        /\ appJournal'[a] = appJournal[a] \ {e}
        /\ \/ appOutside'[a] = appOutside[a] \ ({e} \ {"secret"})
           \/ ~Mixed!Provisions(a) /\ appOutside'[a] = appOutside[a]
        /\ \A b \in Loadable \ {a} : Same(b)
    BY <1>1, <1>2, <2>1 DEF RuntimeTyped, Same
  <2>3. RuntimeTyped'
    <3>1. /\ appRegistered[a] \ ({e} \ {"cli"}) \in SUBSET Mixed!Registry
          /\ appJournal[a] \ {e} \in SUBSET Mixed!PluginEffects
          /\ appOutside[a] \ ({e} \ {"secret"}) \in SUBSET Mixed!Worldly
      BY <1>1 DEF RuntimeTyped
    <3> QED BY <1>1, <1>2, <2>1, <3>1 DEF RuntimeTyped
  <2>4. Journaled(a)'
    <3>1. Mixed!Provisions(a)' = Mixed!Provisions(a)
      BY <1>2 DEF Mixed!Provisions
    <3> QED BY <1>1, <1>2, <2>1, <2>2, <3>1 DEF Sound, Journaled
  <2>5. InOrder(a)' /\ ShutOff(a)' /\ Drains(a)' /\ TakenBack(a)'
    BY <1>1, <1>2, <2>2 DEF Sound, InOrder, ShutOff, Unmounted, Drains, TakenBack,
       Mixed!Idle
  <2> QED BY <2>2, <2>3, <2>4, <2>5, OneApp DEF Sound
<1>4. CASE Mixed!RevertFails(a, e)
  <2>1. appSpoiled' = appSpoiled \cup {a} /\ UNCHANGED <<appRegistered, appOutside>>
    BY <1>4 DEF Mixed!RevertFails
  <2>2. RuntimeTyped' /\ \A b \in Loadable \ {a} : Same(b)
    BY <1>1, <1>2, <2>1 DEF RuntimeTyped, Same
  <2>3. InOrder(a)' /\ Journaled(a)' /\ ShutOff(a)' /\ Drains(a)' /\ TakenBack(a)'
    BY <1>1, <1>2, <2>1 DEF Sound, InOrder, Journaled, ShutOff, Unmounted, Drains,
       TakenBack, Mixed!Idle
  <2> QED BY <2>2, <2>3, OneApp DEF Sound
<1> QED BY <1>3, <1>4

\* It ends, of an app that was loaded or of the residue of a load that failed.
LEMMA UnloadKeeps ==
  ASSUME RuntimeInv, NEW a \in Loadable, Mixed!UnloadResidue(a) \/ Mixed!UnloadEnds(a)
  PROVE  RuntimeInv'
<1>1. Sound(a) /\ RuntimeTyped
  BY DEF RuntimeInv
<1>2. /\ Mixed!Unloaded(a) /\ a \notin appLoaded'
      /\ (\A b \in Loadable \ {a} : (b \in appLoaded') = (b \in appLoaded))
      /\ (\A b \in Loadable \ {a} : (b \in appRushed') = (b \in appRushed))
      /\ UNCHANGED <<appMounts, appDone, appActive, appCut, appSpoiled>>
  BY DEF Mixed!UnloadResidue, Mixed!UnloadEnds, Mixed!history
<1>3. /\ OnlyOp(a)
      /\ \/ /\ appOp'[a].kind \in {"new", "old"}
                   /\ appOp[a].kind \in {"upgrade", "undonew"}
            /\ appOp'[a].step = IF a \in Contained THEN "starting" ELSE "locking"
         \/ appOp[a].kind \notin {"upgrade", "undonew"} /\ Ended(a)
  BY <1>2, UnloadedHow
<1>4. InOrder(a)' /\ Drains(a)'
  BY <1>2, <1>3 DEF InOrder, Drains, Ended, Mixed!Loads
<1>5. CASE Mixed!UnloadResidue(a)
  <2>1. /\ appOp[a].step = "unmounting" /\ a \notin appLoaded
        /\ appRegistered' = [appRegistered EXCEPT
                               ![a] = appRegistered[a] \ {"container", "service", "cli"}]
        /\ appOutside' = [appOutside EXCEPT
                            ![a] = appOutside[a] \ {"container", "service"}]
        /\ appJournal' = [appJournal EXCEPT ![a] = {}]
    BY <1>5 DEF Mixed!UnloadResidue, Mixed!At
  <2>2. /\ appRegistered'[a] = appRegistered[a] \ {"container", "service", "cli"}
        /\ appOutside'[a] = appOutside[a] \ {"container", "service"}
        /\ appJournal'[a] = {}
        /\ \A b \in Loadable \ {a} : Same(b)
    BY <1>1, <1>2, <1>3, <2>1 DEF RuntimeTyped, Same, OnlyOp
  <2>3. RuntimeTyped'
    BY <1>1, <1>2, <1>3, <2>1 DEF RuntimeTyped, OnlyOp, OpTyped
  <2>4. a \notin appCut => appMounts'[a] = {} /\ appRegistered'[a] = {}
    BY <1>1, <1>2, <2>1, <2>2 DEF Sound, ShutOff, Unmounted, RuntimeTyped, Mixed!Registry,
       Mixed!Unique
  <2>5. appOp[a].kind # "uninstall"
    BY <1>1, <2>1 DEF Sound, InOrder
  <2>6. Journaled(a)' /\ ShutOff(a)' /\ TakenBack(a)'
    BY <1>1, <1>2, <1>3, <2>1, <2>2, <2>4, <2>5 DEF Sound, Journaled, ShutOff, Unmounted,
       TakenBack, Mixed!Idle, Ended
  <2> QED BY <1>4, <2>2, <2>3, <2>6, OneApp DEF Sound
<1>6. CASE Mixed!UnloadEnds(a)
  <2>1. /\ appOp[a].step = "reverting" /\ appJournal[a] = {} /\ appJournal' = appJournal
        /\ appRegistered' = [appRegistered EXCEPT ![a] = appRegistered[a] \ {"cli"}]
        /\ appOutside' = IF Mixed!Purges(a)
                           THEN [appOutside EXCEPT ![a] = appOutside[a] \ {"secret"}]
                           ELSE appOutside
    BY <1>6 DEF Mixed!UnloadEnds, Mixed!At
  <2>2. /\ appRegistered'[a] = appRegistered[a] \ {"cli"}
        /\ appOutside'[a] = IF Mixed!Purges(a) THEN appOutside[a] \ {"secret"}
                                               ELSE appOutside[a]
        /\ \A b \in Loadable \ {a} : Same(b)
    BY <1>1, <1>2, <1>3, <2>1 DEF RuntimeTyped, Same, OnlyOp
  <2>3. RuntimeTyped'
    BY <1>1, <1>2, <1>3, <2>1 DEF RuntimeTyped, OnlyOp, OpTyped
  <2>4. Unmounted(a)'
    BY <1>1, <1>2, <2>1, <2>2 DEF Sound, ShutOff, Unmounted
  <2>5. a \notin appCut \cup appSpoiled =>
          /\ appRegistered'[a] = {}
          /\ appOp[a].kind \in {"uninstall", "undo"} => appOutside'[a] = {}
    BY <1>1, <2>1, <2>2 DEF Sound, Journaled, Mixed!Provisions, Mixed!Purges
  <2>6. Journaled(a)' /\ ShutOff(a)' /\ TakenBack(a)'
    BY <1>1, <1>2, <1>3, <2>1, <2>2, <2>4, <2>5 DEF Sound, Journaled, ShutOff, Unmounted,
       TakenBack, Mixed!Idle, Ended
  <2> QED BY <1>4, <2>2, <2>3, <2>6, OneApp DEF Sound
<1> QED BY <1>5, <1>6

\* An operation is cancelled where it stands.
LEMMA CancelKeeps ==
  ASSUME RuntimeInv, NEW a \in Loadable, Mixed!Cancelled(a)
  PROVE  RuntimeInv'
<1>1. Sound(a) /\ RuntimeTyped
  BY DEF RuntimeInv
<1>2. /\ Mixed!Ends(a) /\ appCut' = appCut \cup {a}
      /\ UNCHANGED <<appLoaded, appMounts, appRegistered, appJournal, appOutside, appDone,
                     appActive, appRushed, appSpoiled>>
  BY DEF Mixed!Cancelled, Mixed!state
<1>3. OnlyOp(a) /\ Ended(a)
  BY <1>2, EndsHow
<1>4. RuntimeTyped' /\ \A b \in Loadable \ {a} : Same(b)
  BY <1>1, <1>2, <1>3 DEF RuntimeTyped, Same, OnlyOp, OpTyped
<1>5. InOrder(a)' /\ Journaled(a)' /\ ShutOff(a)' /\ Drains(a)' /\ TakenBack(a)'
  BY <1>1, <1>2, <1>3 DEF Sound, InOrder, Journaled, ShutOff, Unmounted, Drains,
     TakenBack, Mixed!Idle, Ended
<1> QED BY <1>4, <1>5, OneApp DEF Sound

LEMMA InitRuntime == Mixed!Init => RuntimeInv
<1> SUFFICES ASSUME Mixed!Init PROVE RuntimeInv
  OBVIOUS
<1>1. RuntimeTyped
  BY DEF Mixed!Init, RuntimeTyped, OpKinds, Mixed!Steps
<1>2. ASSUME NEW a \in Loadable PROVE Sound(a)
  BY DEF Mixed!Init, Sound, InOrder, Journaled, ShutOff, Unmounted, Drains, TakenBack,
     Mixed!Idle
<1> QED BY <1>1, <1>2 DEF RuntimeInv

LEMMA StepRuntime == RuntimeInv /\ [Mixed!Next]_(Mixed!runtimeVars) => RuntimeInv'
<1>1. ASSUME RuntimeInv, UNCHANGED Mixed!runtimeVars PROVE RuntimeInv'
  <2>1. RuntimeTyped' /\ \A b \in Loadable : Same(b)
    BY <1>1 DEF RuntimeInv, Mixed!runtimeVars, RuntimeTyped, Same
  <2> QED BY <1>1, <2>1, SameSound DEF RuntimeInv
<1>2. ASSUME RuntimeInv, Mixed!Next PROVE RuntimeInv'
  BY <1>2, RequestsKeep, BeginKeeps, ElsewhereKeeps, ActivationKeeps, RegistersKeep,
     PublishKeeps, ContainersKeep, UnmountKeeps, RevertsKeep, UnloadKeeps, CancelKeeps
     DEF Mixed!Next
<1> QED BY <1>1, <1>2

LEMMA RuntimeIsWhole ==
  RuntimeInv =>
    Mixed!NoRequestUnderTeardown /\ Mixed!UninstallTakesAllBack /\ Mixed!RetryStartsClean
BY DEF RuntimeInv, Sound, Drains, TakenBack, Mixed!NoRequestUnderTeardown,
   Mixed!UninstallTakesAllBack, Mixed!RetryStartsClean

-----------------------------------------------------------------------------
(* Two plugins that load at once                                              *)

Ops == [kind : Twins!Loads \cup Twins!Unloads \cup {"none"}, step : Twins!Steps]

\* Whoever activates a plugin has the lock.
LoadingInv ==
  /\ appOp \in [Loadable -> Ops]
  /\ \A a \in Loadable : appOp[a].step # "starting"
  /\ \A a \in Loadable : appOp[a].step = "activating" => appLock = a /\ appLoading = a

\* What an operation on one app does to the steps of all.
Advances(a) ==
  \E kind \in Twins!Loads \cup Twins!Unloads \cup {"none"}, step \in Twins!Steps :
    /\ appOp' = [appOp EXCEPT ![a] = [kind |-> kind, step |-> step]]
    /\ step # "starting"
    /\ step = "activating" => appLock' = a /\ appLoading' = a

LEMMA EndsAdvance == ASSUME NEW a, Twins!Ends(a) PROVE Advances(a)
BY DEF Twins!Ends, Advances, Twins!Steps

LEMMA FailsAdvance == ASSUME NEW a, Twins!Fails(a) PROVE Advances(a)
BY EndsAdvance DEF Twins!Fails, Twins!Become, Advances, Twins!Steps, Twins!Unloads

LEMMA UnloadedAdvances == ASSUME NEW a, Twins!Unloaded(a) PROVE Advances(a)
BY EndsAdvance DEF Twins!Unloaded, Twins!Become, Twins!FirstStep,
   Advances, Twins!Steps, Twins!Unloads, Twins!Loads

LEMMA StepAdvances ==
  ASSUME LoadingInv, NEW a \in Loadable, NEW step \in Twins!Steps \ {"starting"},
         Twins!Step(a, step),
         step = "activating" => appLock' = a /\ appLoading' = a
  PROVE  Advances(a)
<1> DEFINE Kinds == Twins!Loads \cup Twins!Unloads \cup {"none"}
           before == [appOp[a] EXCEPT !.step = step]
           after == [kind |-> appOp[a].kind, step |-> step]
<1> HIDE DEF Kinds
<1>1. appOp \in [Loadable -> [kind : Kinds, step : Twins!Steps]]
  BY DEF LoadingInv, Ops, Kinds
<1>2. appOp[a].kind \in Kinds /\ before = after
  BY <1>1
<1>3. appOp' = [appOp EXCEPT ![a] = before]
  BY DEF Twins!Step
<1>4. appOp' = [appOp EXCEPT ![a] = after]
  <2> HIDE DEF before, after
  <2> QED BY <1>2, <1>3, Zenon
<1>5. PICK kind \in Kinds : appOp' = [appOp EXCEPT ![a] = [kind |-> kind, step |-> step]]
  BY <1>2, <1>4
<1>6. step \in Twins!Steps /\ step # "starting"
  OBVIOUS
<1> QED BY <1>5, <1>6, Zenon DEF Advances, Kinds

\* A step of one app's operation that has the lock, takes it or leaves it alone.
LEMMA LockKept ==
  ASSUME LoadingInv, NEW a \in Loadable, Advances(a) \/ appOp' = appOp,
         \/ UNCHANGED <<appLock, appLoading>>
         \/ appLock = None
         \/ appOp[a].step = "activating" /\ appOp'[a].step # "activating"
         \/ /\ appLoading' = appLoading /\ appOp'[a].step = "idle" /\ Advances(a)
            /\ appLock' = IF appLock = a THEN None ELSE appLock
  PROVE  LoadingInv'
<1>1. CASE appOp' = appOp /\ UNCHANGED <<appLock, appLoading>>
  BY <1>1 DEF LoadingInv
<1>2. CASE appOp' = appOp /\ appLock = None
  <2>1. \A b \in Loadable : appOp[b].step # "activating"
    BY <1>2, LoadsAssumption DEF LoadingInv
  <2> QED BY <1>2, <2>1 DEF LoadingInv
<1>3. CASE Advances(a)
  <2>1. PICK kind \in Twins!Loads \cup Twins!Unloads \cup {"none"}, step \in Twins!Steps :
          /\ appOp' = [appOp EXCEPT ![a] = [kind |-> kind, step |-> step]]
          /\ step # "starting"
          /\ step = "activating" => appLock' = a /\ appLoading' = a
    BY <1>3 DEF Advances
  <2>2. /\ appOp' \in [Loadable -> Ops]
        /\ appOp'[a].step = step /\ \A b \in Loadable \ {a} : appOp'[b] = appOp[b]
    BY <2>1 DEF LoadingInv, Ops
  <2>3. ASSUME NEW b \in Loadable, b # a, appOp[b].step = "activating"
        PROVE  appLock' = b /\ appLoading' = b
    <3>1. appLock = b /\ appLoading = b /\ b # None
      BY <2>3, LoadsAssumption DEF LoadingInv
    <3>2. ~(appOp[a].step = "activating")
      BY <2>3, <3>1 DEF LoadingInv
    <3> QED BY <2>3, <3>1, <3>2
  <2> QED BY <2>1, <2>2, <2>3 DEF LoadingInv
<1>4. CASE appOp' = appOp /\ appOp[a].step = "activating" /\ appOp'[a].step # "activating"
  BY <1>4
<1> QED BY <1>1, <1>2, <1>3, <1>4

LEMMA StepLoading == LoadingInv /\ [Twins!Next]_(Twins!runtimeVars) => LoadingInv'
<1>1. ASSUME LoadingInv, UNCHANGED Twins!runtimeVars PROVE LoadingInv'
  BY <1>1 DEF LoadingInv, Twins!runtimeVars
<1>2. ASSUME LoadingInv, NEW a \in Loadable,
             \/ Twins!RequestIn(a) \/ Twins!RequestOut(a)
             \/ Twins!ProvisionedElsewhere(a)
             \/ \E e \in Twins!PluginEffects :
                    Twins!Revert(a, e) \/ Twins!RevertFails(a, e)
      PROVE  LoadingInv'
  BY <1>2 DEF Twins!RequestIn, Twins!RequestOut, Twins!ProvisionedElsewhere, Twins!Revert,
     Twins!RevertFails, LoadingInv
<1>3. ASSUME LoadingInv, NEW a \in Loadable,
             \E kind \in Twins!Loads \cup Twins!Unloads : Twins!Begin(a, kind)
      PROVE  LoadingInv'
  <2>1. PICK kind \in Twins!Loads \cup Twins!Unloads : Twins!Begin(a, kind)
    BY <1>3
  <2>2. /\ Twins!Become(a, kind, Twins!FirstStep(a, kind))
        /\ UNCHANGED <<appLock, appLoading>>
    BY <2>1 DEF Twins!Begin
  <2>3. Advances(a)
    BY <2>2 DEF Twins!Become, Twins!FirstStep, Advances, Twins!Steps
  <2> QED BY <1>3, <2>2, <2>3, LockKept
<1>4. ASSUME LoadingInv, NEW a \in Loadable,
             \/ Twins!RegisterRoutes(a) \/ Twins!RegisterWatchdog(a)
             \/ Twins!RegisterService(a)
             \/ Twins!RegisterContainer(a) \/ Twins!InstallCommand(a)
             \/ Twins!InstallSystemCli(a) \/ Twins!WriteSecret(a)
      PROVE  LoadingInv'
  <2>1. UNCHANGED <<appOp, appLock, appLoading>>
    BY <1>4 DEF Twins!RegisterRoutes, Twins!RegisterWatchdog, Twins!RegisterService,
       Twins!RegisterContainer, Twins!InstallCommand, Twins!InstallSystemCli,
       Twins!WriteSecret, Twins!Does
  <2> QED BY <1>4, <2>1, LockKept
<1>5. ASSUME LoadingInv, NEW a \in Loadable, Twins!EnterActivate(a)
      PROVE  LoadingInv'
  <2>1. appLock = None /\ appLock' = a /\ appLoading' = a /\ Twins!Step(a, "activating")
    BY <1>5 DEF Twins!EnterActivate
  <2>2. Advances(a)
    BY <1>5, <2>1, StepAdvances DEF Twins!Steps
  <2> QED BY <1>5, <2>1, <2>2, LockKept
<1>6. ASSUME LoadingInv, NEW a \in Loadable,
             Twins!ActivateReturns(a) \/ Twins!ActivateRaises(a)
      PROVE  LoadingInv'
  <2>1. /\ appOp[a].step = "activating"
        /\ (Twins!Step(a, "publishing") \/ Twins!Ends(a) \/ Twins!Fails(a))
    BY <1>6 DEF Twins!ActivateReturns, Twins!ActivateRaises, Twins!At
  <2>2. Advances(a)
    BY <1>6, <2>1, StepAdvances, EndsAdvance, FailsAdvance DEF Twins!Steps
  <2>3. appOp'[a].step # "activating"
    BY <1>6, <2>1 DEF LoadingInv, Ops, Twins!Step, Twins!Ends, Twins!Fails, Twins!Become
  <2> QED BY <1>6, <2>1, <2>2, <2>3, LockKept
<1>7. ASSUME LoadingInv, NEW a \in Loadable,
             \/ Twins!PublishFails(a) \/ Twins!Published(a) \/ Twins!ImportFails(a)
             \/ Twins!RegisterRaises(a) \/ Twins!SidecarRaises(a)
             \/ Twins!ContainerStartFails(a)
             \/ Twins!UnloadResidue(a) \/ Twins!UnloadEnds(a)
      PROVE  LoadingInv'
  <2>1. /\ UNCHANGED <<appLock, appLoading>>
        /\ (Twins!Fails(a) \/ Twins!Ends(a) \/ Twins!Unloaded(a))
    BY <1>7 DEF Twins!PublishFails, Twins!Published, Twins!ImportFails,
       Twins!RegisterRaises, Twins!SidecarRaises, Twins!ContainerStartFails,
       Twins!UnloadResidue, Twins!UnloadEnds
  <2>2. Advances(a)
    BY <2>1, FailsAdvance, EndsAdvance, UnloadedAdvances
  <2> QED BY <1>7, <2>1, <2>2, LockKept
<1>8. ASSUME LoadingInv, NEW a \in Loadable,
             \/ Twins!RegisterAndStart(a) \/ Twins!ContainerUp(a) \/ Twins!Unmount(a)
             \/ Twins!Drained(a)
             \/ Twins!DrainTimesOut(a) \/ Twins!Deactivated(a)
      PROVE  LoadingInv'
  <2>1. /\ UNCHANGED <<appLock, appLoading>>
        /\ \/ Twins!Step(a, "publishing") \/ Twins!Ends(a) \/ Twins!Step(a, "draining")
           \/ Twins!Step(a, "deactivating") \/ Twins!Step(a, "reverting")
    BY <1>8 DEF Twins!RegisterAndStart, Twins!ContainerUp,
       Twins!Unmount, Twins!Drained, Twins!DrainTimesOut, Twins!Deactivated, Twins!At,
       LoadingInv
  <2>2. Advances(a)
    BY <1>8, <2>1, StepAdvances, EndsAdvance DEF Twins!Steps
  <2> QED BY <1>8, <2>1, <2>2, LockKept
<1>9. ASSUME LoadingInv, NEW a \in Loadable, Twins!Cancelled(a)
      PROVE  LoadingInv'
  <2>1. /\ Twins!Ends(a) /\ appLoading' = appLoading
        /\ appLock' = IF appLock = a THEN None ELSE appLock
    BY <1>9 DEF Twins!Cancelled
  <2>2. Advances(a) /\ appOp'[a].step = "idle"
    BY <1>9, <2>1, EndsAdvance DEF Twins!Ends, LoadingInv, Ops
  <2> QED BY <1>9, <2>1, <2>2, LockKept
<1> QED BY <1>1, <1>2, <1>3, <1>4, <1>5, <1>6, <1>7, <1>8, <1>9 DEF Twins!Next

LEMMA LoadingMine == LoadingInv => Twins!LoadingIsMine
BY DEF LoadingInv, Twins!LoadingIsMine, Twins!At

-----------------------------------------------------------------------------
(* Both kinds of loads                                                        *)

LoadsInv == (which = "mixed" => RuntimeInv) /\ (which = "twins" => LoadingInv)

LEMMA InitLoads == Init => LoadsInv
<1>1. Mixed!Init => LoadingInv
  BY DEF Mixed!Init, LoadingInv, Ops, Twins!Steps
<1> QED BY <1>1, InitRuntime DEF Init, LoadsInv

\* Only the moves of loads and unloads change their variables.
LEMMA LoadsAlone ==
  [Next]_vars =>
    /\ which' = which
    /\ which = "mixed" => [Mixed!Next]_(Mixed!runtimeVars)
    /\ which = "twins" => [Twins!Next]_(Twins!runtimeVars)
<1>1. Next => which' = which /\ (MixedMoves \/ TwinsMoves \/ UNCHANGED appVars)
  BY SMT DEF Next, VpnMoves, ConfigMoves, JobsMoves, MixedMoves, TwinsMoves, BoxesMoves,
     SettingsMoves, TreesMoves, DepsMoves, ToolsMoves, SeedsMoves, Unmoved
<1>2. UNCHANGED vars => UNCHANGED <<which, appVars>>
  BY DEF vars
<1>3. UNCHANGED appVars => UNCHANGED Mixed!runtimeVars /\ UNCHANGED Twins!runtimeVars
  BY DEF appVars, Mixed!runtimeVars, Twins!runtimeVars
<1> QED BY <1>1, <1>2, <1>3 DEF MixedMoves, TwinsMoves

\* LoadsAndUnloadsAreWhole: what a plugin registers while it activates lands on itself,
\* whatever else loads; no request of an app runs under its teardown unless its drain ran
\* out of time or the unload was cancelled; an uninstall takes back all that any worker
\* installed for the app, and after a failed install nothing of it is mounted, registered
\* or running, where no revert failed; for any apps, of both kinds (runtime.load, unload
\* and the journal).
THEOREM LoadsAndUnloadsAreWholeHolds == Spec => []LoadsAndUnloadsAreWhole
<1>1. Init => LoadsInv
  BY InitLoads
<1>2. LoadsInv /\ [Next]_vars => LoadsInv'
  BY LoadsAlone, StepRuntime, StepLoading DEF LoadsInv
<1>3. LoadsInv => LoadsAndUnloadsAreWhole
  BY RuntimeIsWhole, LoadingMine DEF LoadsInv, LoadsAndUnloadsAreWhole
<1> QED BY <1>1, <1>2, <1>3, PTL DEF Spec

-----------------------------------------------------------------------------
(* A pass and its tasks.  A task's frames are a chain of apps that each       *)
(* requires the next (Chained), all but the innermost hold their locks and    *)
(* are not loaded (Holds), and what a frame's list has gone past was loaded   *)
(* (Passed).  An app that the pass has not loaded is still to come, or one    *)
(* that it needs has failed (Accounted).                                      *)

PassApps == {AppA, AppB, AppC}
Frames == [app : PassApps, next : Nat]

\* Loaded now, or once and taken away since.
Had == depsLoaded \cup depsRemoved

PassShapes ==
  /\ depsDeps \in [PassApps -> Seq(PassApps)]
  /\ depsKnown \subseteq PassApps /\ depsDesired \subseteq PassApps
  /\ depsPlan \subseteq PassApps
  /\ depsStack \in [PassApps -> Seq(Frames)]
  /\ depsStep \in [PassApps -> Deps!Steps]
  /\ depsLock \in [PassApps -> SUBSET PassApps]
  /\ depsPhase \in Deps!Phases

\* What an app needs: within three steps, it is all that can be reached, for there are
\* three apps.
NeedsIn(d, a) ==
  LET grown[n \in 0..Cardinality({AppA, AppB, AppC})] ==
        IF n = 0 THEN {a}
        ELSE grown[n - 1] \cup UNION {{d[b][i] : i \in DOMAIN d[b]} : b \in grown[n - 1]}
  IN grown[Cardinality({AppA, AppB, AppC})]

\* Of a task t with the frames s at a step st, under manifests d, with locks k and
\* loaded apps L, when G were loaded once.
Chained(d, t, s, st) ==
  /\ s = <<>> <=> st = "idle"
  /\ s # <<>> => s[1].app = t
  /\ \A i, j \in 1..Len(s) : i < j => s[i].app # s[j].app
  /\ \A i \in 1..Len(s) : s[i].app \in NeedsIn(d, t) /\ s[i].next >= 1
  /\ \A i \in 1..(Len(s) - 1) : /\ s[i].next <= Len(d[s[i].app])
                                /\ d[s[i].app][s[i].next] = s[i + 1].app
  /\ st = "load" => s[Len(s)].next > Len(d[s[Len(s)].app])
Passed(d, s, G) ==
  \A i \in 1..Len(s) : \A n \in 1..Len(d[s[i].app]) : n < s[i].next => d[s[i].app][n] \in G
Holds(t, s, st, k, L) ==
  \A i \in 1..Len(s) : i < Len(s) \/ st # "lock" => k[s[i].app] = {t} /\ s[i].app \notin L
Task(d, t, s, st, k, L, G) == Chained(d, t, s, st) /\ Passed(d, s, G) /\ Holds(t, s, st, k, L)

TasksHold ==
  \A t \in PassApps : Task(depsDeps, t, depsStack[t], depsStep[t], depsLock, depsLoaded, Had)

LoadedAfter == \A a \in depsLoaded : \A n \in DOMAIN depsDeps[a] : depsDeps[a][n] \in Had

Active == {t \in PassApps : depsStack[t] # <<>>}
Accounted ==
  depsPhase \in {"install", "upgrade"} =>
    \A a \in depsPlan : \/ a \in depsLoaded \cup depsMissing \cup Active
                        \/ NeedsIn(depsDeps, a) \cap depsFailed # {}
Phased ==
  /\ depsPhase = "upgrade" => depsMissing = {}
  /\ depsPhase \in {"remove", "idle"} => Active = {}
  /\ depsDoomed # {} => depsPhase = "remove"
Spared ==
  depsDoomed # {} => \A a \in depsPlan \cap depsLoaded : \A n \in 1..Len(depsDeps[a]) :
                         depsDeps[a][n] \notin depsDoomed

PassInv == PassShapes /\ TasksHold /\ LoadedAfter /\ Accounted /\ Phased /\ Spared

LEMMA ThreeApps == Cardinality({AppA, AppB, AppC}) = 3
<1>1. Cardinality({AppA}) = 1 /\ IsFiniteSet({AppA})
  BY FS_Singleton
<1>2. AppB \notin {AppA} /\ AppC \notin {AppA, AppB}
  BY PassesAssumption
<1>3. Cardinality({AppA} \cup {AppB}) = 2 /\ IsFiniteSet({AppA} \cup {AppB})
  BY <1>1, <1>2, FS_AddElement
<1>4. {AppA} \cup {AppB} = {AppA, AppB}
  OBVIOUS
<1>5. Cardinality({AppA, AppB} \cup {AppC}) = 3
  BY <1>2, <1>3, <1>4, FS_AddElement
<1>6. {AppA, AppB} \cup {AppC} = {AppA, AppB, AppC}
  OBVIOUS
<1> QED BY <1>5, <1>6

LEMMA NeedsAre == ASSUME NEW a PROVE Deps!Needs(a) = NeedsIn(depsDeps, a)
BY DEF Deps!Needs, NeedsIn, Deps!Required, Deps!Cardinality, Cardinality

\* Four steps would need four apps.
LEMMA NeedsClosed ==
  ASSUME NEW d \in [PassApps -> Seq(PassApps)], NEW a \in PassApps
  PROVE  /\ a \in NeedsIn(d, a)
         /\ \A b \in NeedsIn(d, a) : \A i \in DOMAIN d[b] : d[b][i] \in NeedsIn(d, a)
<1> DEFINE Req(b) == {d[b][i] : i \in DOMAIN d[b]}
           More(S) == S \cup UNION {Req(b) : b \in S}
           C == Cardinality({AppA, AppB, AppC})
           G(g) == [n \in 0..C |-> IF n = 0 THEN {a}
                                   ELSE g[n - 1] \cup UNION {Req(b) : b \in g[n - 1]}]
           grown == CHOOSE g : g = G(g)
<1>1. \A b \in PassApps : Req(b) \subseteq PassApps
  OBVIOUS
<1>2. NeedsIn(d, a) = grown[C]
  BY DEF NeedsIn
<1> HIDE DEF Req
<1>16. C = 3
  BY ThreeApps
<1> HIDE DEF C
<1>3. PICK S0, S1, S2, S3 : S0 = {a} /\ S1 = More(S0) /\ S2 = More(S1) /\ S3 = More(S2)
  OBVIOUS
<1>4. \E g : g = G(g)
  <2> DEFINE h == [n \in 0..3 |-> IF n = 0 THEN S0 ELSE IF n = 1 THEN S1
                                  ELSE IF n = 2 THEN S2 ELSE S3]
  <2>1. h[0] = S0 /\ h[1] = S1 /\ h[2] = S2 /\ h[3] = S3
    OBVIOUS
  <2>2. \A n \in 0..3 : h[n] = IF n = 0 THEN {a} ELSE More(h[n - 1])
    <3> HIDE DEF h, More
    <3> SUFFICES ASSUME NEW n \in 0..3 PROVE h[n] = IF n = 0 THEN {a} ELSE More(h[n - 1])
      OBVIOUS
    <3>2. h[1] = More(h[0]) /\ h[2] = More(h[1]) /\ h[3] = More(h[2])
      BY <1>3, <2>1
    <3>3. h[0] = {a}
      BY <1>3, <2>1
    <3>4. CASE n = 0
      BY <3>3, <3>4
    <3>5. CASE n = 1
      <4>1. n - 1 = 0 /\ n # 0
        BY <3>5
      <4> QED BY <3>2, <3>5, <4>1
    <3>6. CASE n = 2
      <4>1. n - 1 = 1 /\ n # 0
        BY <3>6
      <4> QED BY <3>2, <3>6, <4>1
    <3>7. CASE n = 3
      <4>1. n - 1 = 2 /\ n # 0
        BY <3>7
      <4> QED BY <3>2, <3>7, <4>1
    <3> QED BY <3>4, <3>5, <3>6, <3>7
  <2>3. h = G(h)
    <3> HIDE DEF h
    <3>1. G(h) = [n \in 0..3 |-> IF n = 0 THEN {a} ELSE More(h[n - 1])]
      BY <1>16
    <3>2. h = [n \in 0..3 |-> h[n]]
      BY DEF h
    <3> HIDE DEF G, More
    <3> QED BY <2>2, <3>1, <3>2
  <2> QED BY <2>3
<1>5. grown = G(grown)
  BY <1>4
<1>15. grown = [n \in 0..3 |-> IF n = 0 THEN {a}
                               ELSE grown[n - 1] \cup UNION {Req(b) : b \in grown[n - 1]}]
  BY <1>5, <1>16
<1> HIDE DEF grown
<1>17. \A n \in 0..3 : grown[n] = IF n = 0 THEN {a}
                                   ELSE grown[n - 1] \cup UNION {Req(b) : b \in grown[n - 1]}
  BY <1>15
<1>6. grown[0] = S0
  BY <1>3, <1>17
<1>7. grown[1] = grown[0] \cup UNION {Req(b) : b \in grown[0]}
  BY <1>17
<1>8. grown[2] = grown[1] \cup UNION {Req(b) : b \in grown[1]}
  BY <1>17
<1>18. grown[3] = grown[2] \cup UNION {Req(b) : b \in grown[2]}
  BY <1>17
<1>9. grown[3] = S3
  BY <1>3, <1>6, <1>7, <1>8, <1>18
<1>10. S0 \subseteq S1 /\ S1 \subseteq S2 /\ S2 \subseteq S3
  BY <1>3
<1>11. S3 \subseteq PassApps
  BY <1>1, <1>3
<1>12. a \in S3
  BY <1>3, <1>10
<1>13. ASSUME NEW b \in S3, NEW x \in Req(b), x \notin S3 PROVE FALSE
  <2>1. b \notin S2
    BY <1>3, <1>13
  <2>2. PICK c \in S2 : b \in Req(c)
    BY <1>3, <2>1
  <2>3. c \notin S1
    BY <1>3, <2>1, <2>2
  <2>4. PICK e \in S1 : c \in Req(e)
    BY <1>3, <2>3
  <2>5. e \notin S0
    BY <1>3, <2>3, <2>4
  <2>6. x \in PassApps /\ b \in PassApps /\ c \in PassApps /\ e \in PassApps /\ a \in PassApps
    BY <1>1, <1>10, <1>11, <1>13
  <2>7. /\ x # b /\ x # c /\ x # e
        /\ b # c /\ b # e /\ c # e
    BY <1>10, <1>13, <2>1, <2>3
  <2> QED BY <2>6, <2>7 DEF PassApps
<1>14. \A b \in S3 : Req(b) \subseteq S3
  BY <1>13
<1> QED BY <1>2, <1>9, <1>12, <1>14, <1>16 DEF Req

-----------------------------------------------------------------------------
(* One task: it begins, goes on, takes up a dependency and comes back from it. *)

LEMMA FrameOf == ASSUME NEW s \in Seq(Frames)
  PROVE /\ s \in [1..Len(s) -> Frames] /\ Len(s) \in Nat
        /\ s # <<>> => Len(s) >= 1 /\ Len(s) \in 1..Len(s)
        /\ s = <<>> => Len(s) = 0
        /\ \A i \in 1..Len(s) : s[i].app \in PassApps /\ s[i].next \in Nat
<1>1. s \in [1..Len(s) -> Frames] /\ Len(s) \in Nat
  BY SMT
<1>2. s # <<>> => Len(s) >= 1 /\ Len(s) \in 1..Len(s)
  BY SMT
<1>3. s = <<>> => Len(s) = 0
  BY SMT
<1>4. \A f \in Frames : f.app \in PassApps /\ f.next \in Nat
  BY DEF Frames
<1>5. \A i \in 1..Len(s) : s[i] \in Frames
  BY <1>1
<1>6. \A i \in 1..Len(s) : s[i].app \in PassApps /\ s[i].next \in Nat
  BY <1>4, <1>5
<1> QED BY <1>1, <1>2, <1>3, <1>6

LEMMA OneFrame == ASSUME NEW f \in Frames
  PROVE <<f>> \in Seq(Frames) /\ Len(<<f>>) = 1 /\ <<f>>[1] = f /\ <<f>> # <<>>
BY SMT
LEMMA MoreFrames == ASSUME NEW s \in Seq(Frames), NEW f \in Frames
  PROVE /\ Append(s, f) \in Seq(Frames) /\ Len(Append(s, f)) = Len(s) + 1
        /\ Append(s, f) # <<>> /\ Append(s, f)[Len(s) + 1] = f
        /\ \A i \in 1..Len(s) : Append(s, f)[i] = s[i]
BY SMT
LEMMA OtherFrame == ASSUME NEW s \in Seq(Frames), NEW n \in 1..Len(s), NEW f \in Frames
  PROVE /\ [s EXCEPT ![n] = f] \in Seq(Frames) /\ Len([s EXCEPT ![n] = f]) = Len(s)
        /\ [s EXCEPT ![n] = f][n] = f
        /\ \A i \in 1..Len(s) : i # n => [s EXCEPT ![n] = f][i] = s[i]
BY SMT
LEMMA FirstOf == ASSUME NEW S, NEW s \in Seq(S), NEW n \in 0..Len(s)
  PROVE /\ SubSeq(s, 1, n) \in Seq(S) /\ Len(SubSeq(s, 1, n)) = n
        /\ \A i \in 1..n : SubSeq(s, 1, n)[i] = s[i]
BY SMT
LEMMA FewerFrames == ASSUME NEW s \in Seq(Frames), Len(s) > 1
  PROVE /\ SubSeq(s, 1, Len(s) - 1) \in Seq(Frames)
        /\ Len(SubSeq(s, 1, Len(s) - 1)) = Len(s) - 1
        /\ SubSeq(s, 1, Len(s) - 1) # <<>>
        /\ \A i \in 1..(Len(s) - 1) : SubSeq(s, 1, Len(s) - 1)[i] = s[i]
<1>1. PICK n : n = Len(s) - 1 /\ n \in Nat /\ n >= 1 /\ n \in 0..Len(s)
  <2>1. Len(s) \in Nat
    BY FrameOf
  <2> QED BY <2>1
<1>2. /\ SubSeq(s, 1, n) \in Seq(Frames) /\ Len(SubSeq(s, 1, n)) = n
      /\ \A i \in 1..n : SubSeq(s, 1, n)[i] = s[i]
  BY <1>1, FirstOf
<1>3. SubSeq(s, 1, n) # <<>>
  BY <1>1, <1>2, FrameOf
<1> QED BY <1>1, <1>2, <1>3
LEMMA NextFrame == ASSUME NEW f \in Frames
  PROVE /\ [f EXCEPT !.next = @ + 1] \in Frames
        /\ [f EXCEPT !.next = @ + 1].app = f.app
        /\ [f EXCEPT !.next = @ + 1].next = f.next + 1
BY DEF Frames

LEMMA IdleTask ==
  ASSUME NEW d, NEW t, NEW k, NEW L, NEW G
  PROVE  Task(d, t, <<>>, "idle", k, L, G)
<1>1. \E s : s = <<>> /\ Len(s) = 0
  OBVIOUS
<1>2. PICK s : s = <<>> /\ Len(s) = 0
  BY <1>1
<1>3. 1..Len(s) = {} /\ 1..(Len(s) - 1) = {}
  BY <1>2
<1>4. Chained(d, t, s, "idle")
  BY <1>2, <1>3 DEF Chained
<1>5. Passed(d, s, G) /\ Holds(t, s, "idle", k, L)
  BY <1>3 DEF Passed, Holds
<1> QED BY <1>2, <1>4, <1>5 DEF Task

LEMMA FreshTask ==
  ASSUME NEW d \in [PassApps -> Seq(PassApps)], NEW t \in PassApps, NEW k, NEW L, NEW G
  PROVE  /\ <<[app |-> t, next |-> 1]>> \in Seq(Frames)
         /\ Task(d, t, <<[app |-> t, next |-> 1]>>, "lock", k, L, G)
<1>1. PICK f \in Frames : f = [app |-> t, next |-> 1]
  BY DEF Frames
<1>2. PICK s \in Seq(Frames) : s = <<f>> /\ Len(s) = 1 /\ s[1] = f /\ s # <<>>
  BY OneFrame
<1>3. f.app = t /\ f.next = 1 /\ t \in NeedsIn(d, t)
  BY <1>1, NeedsClosed
<1>4. 1..Len(s) = {1} /\ 1..(Len(s) - 1) = {}
  BY <1>2
<1>5. Chained(d, t, s, "lock")
  BY <1>2, <1>3, <1>4 DEF Chained
<1>6. Passed(d, s, G)
  BY <1>2, <1>3, <1>4 DEF Passed
<1>7. Holds(t, s, "lock", k, L)
  BY <1>2, <1>4 DEF Holds
<1> QED BY <1>1, <1>2, <1>5, <1>6, <1>7 DEF Task

\* The frames stay: what a task holds it goes on holding, and what has been loaded remains
\* to be so, or to have been.
LEMMA TaskStays ==
  ASSUME NEW d, NEW t, NEW s \in Seq(Frames), NEW st, NEW st2, NEW k, NEW k2,
         NEW L, NEW L2, NEW G, NEW G2,
         Task(d, t, s, st, k, L, G), G \subseteq G2,
         st = "idle" <=> st2 = "idle",
         st2 = "load" => s[Len(s)].next > Len(d[s[Len(s)].app]),
         Holds(t, s, st2, k2, L2)
  PROVE  Task(d, t, s, st2, k2, L2, G2)
<1>1. Chained(d, t, s, st2)
  BY DEF Task, Chained
<1>2. Passed(d, s, G2)
  BY DEF Task, Passed
<1> QED BY <1>1, <1>2 DEF Task

Spares(u, k, L, k2, L2) ==
  \A a \in PassApps : k[a] = {u} /\ a \notin L => k2[a] = {u} /\ a \notin L2

LEMMA OtherTask ==
  ASSUME NEW d, NEW t, NEW s \in Seq(Frames), NEW st, NEW k, NEW k2,
         NEW L, NEW L2, NEW G, NEW G2,
         Task(d, t, s, st, k, L, G), G \subseteq G2,
         Spares(t, k, L, k2, L2)
  PROVE  Task(d, t, s, st, k2, L2, G2)
<1>1. \A i \in 1..Len(s) : s[i].app \in PassApps
  BY FrameOf
<1>2. \A i \in 1..Len(s) : i < Len(s) \/ st # "lock" => k2[s[i].app] = {t} /\ s[i].app \notin L2
  BY <1>1 DEF Task, Holds, Spares
<1>3. Chained(d, t, s, st)
  BY DEF Task
<1>4. Passed(d, s, G2)
  BY DEF Task, Passed
<1> QED BY <1>2, <1>3, <1>4 DEF Task, Holds

\* The next dependency of the innermost frame becomes a frame.
LEMMA PushedTask ==
  ASSUME NEW d \in [PassApps -> Seq(PassApps)], NEW t \in PassApps, NEW s \in Seq(Frames),
         NEW k, NEW L, NEW G, s # <<>>, Task(d, t, s, "deps", k, L, G),
         NEW b, s[Len(s)].next \in 1..Len(d[s[Len(s)].app]),
         b = d[s[Len(s)].app][s[Len(s)].next],
         \A i \in 1..Len(s) : s[i].app # b
  PROVE  /\ Append(s, [app |-> b, next |-> 1]) \in Seq(Frames)
         /\ Task(d, t, Append(s, [app |-> b, next |-> 1]), "lock", k, L, G)
<1>1. PICK n : n = Len(s) /\ n \in Nat /\ n >= 1 /\ n \in 1..n
  BY FrameOf
<1>2. s[n] \in Frames /\ s[n].app \in PassApps
  BY <1>1, FrameOf
<1>3. d[s[n].app] \in Seq(PassApps)
  BY <1>2
<1>4. b \in PassApps
  BY <1>1, <1>3
<1>5. PICK f \in Frames : f = [app |-> b, next |-> 1]
  BY <1>4 DEF Frames
<1>6. PICK u \in Seq(Frames) : u = Append(s, f)
  BY MoreFrames
<1>7. /\ Len(u) = n + 1 /\ u # <<>> /\ u[n + 1] = f
      /\ \A i \in 1..n : u[i] = s[i]
  BY <1>1, <1>6, MoreFrames
<1>8. f.app = b /\ f.next = 1
  BY <1>5
<1>9. \A i \in 1..Len(u) : i \in 1..n \/ i = n + 1
  BY <1>1, <1>7
<1>10. b \in NeedsIn(d, t)
  <2>1. s[n].app \in NeedsIn(d, t)
    BY <1>1 DEF Task, Chained
  <2>2. s[n].next \in DOMAIN d[s[n].app]
    BY <1>1, <1>3
  <2> QED BY <1>1, <2>1, <2>2, NeedsClosed
<1>11. Chained(d, t, u, "lock")
  <2>1. u[1].app = t
    BY <1>1, <1>7 DEF Task, Chained
  <2>2. \A i, j \in 1..Len(u) : i < j => u[i].app # u[j].app
    <3> SUFFICES ASSUME NEW i \in 1..Len(u), NEW j \in 1..Len(u), i < j
                 PROVE  u[i].app # u[j].app
      OBVIOUS
    <3>1. i \in 1..n
      BY <1>1, <1>7
    <3>2. CASE j = n + 1
      BY <1>1, <1>7, <1>8, <3>1, <3>2
    <3>3. CASE j \in 1..n
      BY <1>1, <1>7, <3>1, <3>3 DEF Task, Chained
    <3> QED BY <1>9, <3>2, <3>3
  <2>3. \A i \in 1..Len(u) : u[i].app \in NeedsIn(d, t) /\ u[i].next >= 1
    <3>1. \A i \in 1..n : s[i].app \in NeedsIn(d, t) /\ s[i].next >= 1
      BY <1>1 DEF Task, Chained
    <3>2. \A i \in 1..n : u[i].app \in NeedsIn(d, t) /\ u[i].next >= 1
      BY <1>7, <3>1
    <3>3. u[n + 1].app \in NeedsIn(d, t) /\ u[n + 1].next >= 1
      BY <1>7, <1>8, <1>10
    <3> QED BY <1>9, <3>2, <3>3
  <2>4. \A i \in 1..(Len(u) - 1) : /\ u[i].next <= Len(d[u[i].app])
                                   /\ d[u[i].app][u[i].next] = u[i + 1].app
    <3> SUFFICES ASSUME NEW i \in 1..(Len(u) - 1)
                 PROVE  /\ u[i].next <= Len(d[u[i].app])
                        /\ d[u[i].app][u[i].next] = u[i + 1].app
      OBVIOUS
    <3>1. i \in 1..n /\ u[i] = s[i]
      BY <1>1, <1>7
    <3>2. CASE i = n
      BY <1>1, <1>3, <1>7, <1>8, <3>1, <3>2
    <3>3. CASE i # n
      <4>1. i \in 1..(n - 1) /\ i + 1 \in 1..n
        BY <1>1, <3>1, <3>3
      <4>2. u[i + 1] = s[i + 1]
        BY <1>7, <4>1
      <4> QED BY <1>1, <3>1, <4>1, <4>2 DEF Task, Chained
    <3> QED BY <3>2, <3>3
  <2> QED BY <1>7, <2>1, <2>2, <2>3, <2>4 DEF Chained
<1>12. Passed(d, u, G)
  <2>1. \A i \in 1..n : \A m \in 1..Len(d[s[i].app]) : m < s[i].next => d[s[i].app][m] \in G
    BY <1>1 DEF Task, Passed
  <2>2. \A m \in 1..Len(d[f.app]) : ~(m < f.next)
    BY <1>8
  <2> QED BY <1>7, <1>9, <2>1, <2>2 DEF Passed
<1>13. Holds(t, u, "lock", k, L)
  <2>1. \A i \in 1..n : k[s[i].app] = {t} /\ s[i].app \notin L
    BY <1>1 DEF Task, Holds
  <2>2. \A i \in 1..Len(u) : i < Len(u) => i \in 1..n
    BY <1>1, <1>7
  <2> QED BY <1>7, <2>1, <2>2 DEF Holds
<1> QED BY <1>5, <1>6, <1>11, <1>12, <1>13 DEF Task

\* Its list is gone past an app that is loaded.
LEMMA AdvancedTask ==
  ASSUME NEW d \in [PassApps -> Seq(PassApps)], NEW t \in PassApps, NEW s \in Seq(Frames),
         NEW k, NEW L, NEW G, s # <<>>, Task(d, t, s, "deps", k, L, G),
         s[Len(s)].next \in 1..Len(d[s[Len(s)].app]),
         d[s[Len(s)].app][s[Len(s)].next] \in G
  PROVE  /\ [s EXCEPT ![Len(s)].next = @ + 1] \in Seq(Frames)
         /\ [s EXCEPT ![Len(s)].next = @ + 1] # <<>>
         /\ Task(d, t, [s EXCEPT ![Len(s)].next = @ + 1], "deps", k, L, G)
<1>1. PICK n : n = Len(s) /\ n \in Nat /\ n >= 1 /\ n \in 1..n
  BY FrameOf
<1>2. s[n] \in Frames /\ s[n].app \in PassApps /\ s[n].next \in Nat
  BY <1>1, FrameOf
<1>3. d[s[n].app] \in Seq(PassApps)
  BY <1>2
<1>4. PICK f : f = [s[n] EXCEPT !.next = @ + 1]
  OBVIOUS
<1>5. f \in Frames /\ f.app = s[n].app /\ f.next = s[n].next + 1
  BY <1>2, <1>4, NextFrame
<1>6. PICK u : u = [s EXCEPT ![n] = f]
  OBVIOUS
<1>7. /\ u \in Seq(Frames) /\ Len(u) = n /\ u # <<>> /\ u[n] = f
      /\ \A i \in 1..n : i # n => u[i] = s[i]
  <2>1. u \in Seq(Frames) /\ Len(u) = n /\ u[n] = f
    BY <1>1, <1>5, <1>6, OtherFrame
  <2>2. \A i \in 1..n : i # n => u[i] = s[i]
    BY <1>1, <1>5, <1>6, OtherFrame
  <2>3. u # <<>>
    BY <1>1, <2>1, FrameOf
  <2> QED BY <2>1, <2>2, <2>3
<1>8. u = [s EXCEPT ![Len(s)].next = @ + 1]
  <2>1. n \in DOMAIN s
    BY <1>1, FrameOf
  <2> QED BY <1>1, <1>4, <1>6, <2>1
<1>9. \A i \in 1..n : u[i].app = s[i].app /\ u[i].next >= s[i].next
  <2> SUFFICES ASSUME NEW i \in 1..n PROVE u[i].app = s[i].app /\ u[i].next >= s[i].next
    OBVIOUS
  <2>1. s[i].next \in Nat
    BY <1>1, FrameOf
  <2>2. CASE i = n
    BY <1>2, <1>5, <1>7, <2>2
  <2>3. CASE i # n
    <3>1. u[i] = s[i]
      BY <1>7, <2>3
    <3> QED BY <2>1, <3>1
  <2> QED BY <2>2, <2>3
<1>10. Chained(d, t, u, "deps")
  <2>1. u[1].app = t
    BY <1>1, <1>9 DEF Task, Chained
  <2>2. \A i, j \in 1..n : i < j => u[i].app # u[j].app
    BY <1>1, <1>9 DEF Task, Chained
  <2>3. \A i \in 1..n : u[i].app \in NeedsIn(d, t) /\ u[i].next >= 1
    <3>1. \A i \in 1..n : s[i].app \in NeedsIn(d, t) /\ s[i].next >= 1
      BY <1>1 DEF Task, Chained
    <3>2. \A i \in 1..n : s[i].next \in Nat /\ u[i].next \in Nat
      BY <1>1, <1>7, FrameOf
    <3>4. ASSUME NEW i \in 1..n PROVE u[i].next >= 1
      <4>1. PICK x, y : x = s[i].next /\ y = u[i].next
        OBVIOUS
      <4>2. x \in Nat /\ y \in Nat /\ x >= 1 /\ y >= x
        BY <1>9, <3>1, <3>2, <4>1
      <4>3. y >= 1
        BY <4>2
      <4> QED BY <4>1, <4>3
    <3> QED BY <1>9, <3>1, <3>4
  <2>4. \A i \in 1..(n - 1) : /\ u[i].next <= Len(d[u[i].app])
                              /\ d[u[i].app][u[i].next] = u[i + 1].app
    <3>1. \A i \in 1..(n - 1) : /\ s[i].next <= Len(d[s[i].app])
                                /\ d[s[i].app][s[i].next] = s[i + 1].app
      BY <1>1 DEF Task, Chained
    <3>2. \A i \in 1..(n - 1) : i \in 1..n /\ i # n /\ i + 1 \in 1..n
      BY <1>1
    <3> QED BY <1>7, <1>9, <3>1, <3>2
  <2> QED BY <1>7, <2>1, <2>2, <2>3, <2>4 DEF Chained
<1>11. Passed(d, u, G)
  <2> SUFFICES ASSUME NEW i \in 1..n, NEW m \in 1..Len(d[s[i].app]), m < u[i].next
               PROVE  d[s[i].app][m] \in G
    BY <1>7, <1>9 DEF Passed
  <2>1. CASE m < s[i].next
    BY <1>1, <2>1 DEF Task, Passed
  <2>2. CASE ~(m < s[i].next)
    <3>1. i = n
      BY <1>7, <2>2
    <3>2. m = s[n].next
      BY <1>2, <1>3, <1>5, <1>7, <2>2, <3>1
    <3> QED BY <1>1, <3>1, <3>2
  <2> QED BY <2>1, <2>2
<1>12. Holds(t, u, "deps", k, L)
  <2>1. \A i \in 1..n : k[s[i].app] = {t} /\ s[i].app \notin L
    BY <1>1 DEF Task, Holds
  <2> QED BY <1>7, <1>9, <2>1 DEF Holds
<1> QED BY <1>7, <1>8, <1>10, <1>11, <1>12 DEF Task

\* It is gone, and the frame below it is the innermost.
CutFrom(t, s, k, L, G) ==
  /\ Len(s) > 1 /\ s[Len(s)].app \in G
  /\ \A i \in 1..(Len(s) - 1) : k[s[i].app] = {t} /\ s[i].app \notin L
CutTo(d, t, s, k, L, G) ==
  \E u \in Seq(Frames) : /\ u = SubSeq(s, 1, Len(s) - 1) /\ u # <<>> /\ Len(u) = Len(s) - 1
                         /\ Task(d, t, u, "deps", k, L, G)
                         /\ u[Len(u)].next \in 1..Len(d[u[Len(u)].app])
                         /\ d[u[Len(u)].app][u[Len(u)].next] \in G

LEMMA CutTask ==
  ASSUME NEW d \in [PassApps -> Seq(PassApps)], NEW t \in PassApps, NEW s \in Seq(Frames),
         NEW st, NEW k, NEW L, NEW L2, NEW k2, NEW G, NEW G2,
         Task(d, t, s, st, k, L, G), G \subseteq G2, CutFrom(t, s, k2, L2, G2)
  PROVE  CutTo(d, t, s, k2, L2, G2)
<1>17. /\ Len(s) > 1 /\ s[Len(s)].app \in G2
       /\ \A i \in 1..(Len(s) - 1) : k2[s[i].app] = {t} /\ s[i].app \notin L2
  BY DEF CutFrom
<1>1. PICK n : n = Len(s) /\ n \in Nat /\ n > 1
  BY <1>17, FrameOf
<1>2. PICK u : u = SubSeq(s, 1, Len(s) - 1)
  OBVIOUS
<1>3. /\ u \in Seq(Frames) /\ Len(u) = n - 1 /\ u # <<>>
      /\ \A i \in 1..(n - 1) : u[i] = s[i]
  <2>1. u = SubSeq(s, 1, Len(s) - 1)
    BY <1>2
  <2> QED BY <1>1, <2>1, FewerFrames
<1>4. \A i \in 1..(n - 1) : i \in 1..n
  BY <1>1
<1>5. Chained(d, t, u, "deps")
  <2>1. u[1].app = t
    <3>1. 1 \in 1..(n - 1)
      BY <1>1
    <3> QED BY <1>1, <1>3, <3>1 DEF Task, Chained
  <2>2. \A i, j \in 1..(n - 1) : i < j => u[i].app # u[j].app
    BY <1>1, <1>3, <1>4 DEF Task, Chained
  <2>3. \A i \in 1..(n - 1) : u[i].app \in NeedsIn(d, t) /\ u[i].next >= 1
    BY <1>1, <1>3, <1>4 DEF Task, Chained
  <2>4. \A i \in 1..(n - 2) : /\ u[i].next <= Len(d[u[i].app])
                              /\ d[u[i].app][u[i].next] = u[i + 1].app
    <3>1. \A i \in 1..(n - 2) : i \in 1..(n - 1) /\ i + 1 \in 1..(n - 1)
      BY <1>1
    <3> QED BY <1>1, <1>3, <3>1 DEF Task, Chained
  <2>5. Len(u) - 1 = n - 2 /\ Len(u) = n - 1
    BY <1>1, <1>3
  <2>6. /\ \A i, j \in 1..Len(u) : i < j => u[i].app # u[j].app
        /\ \A i \in 1..Len(u) : u[i].app \in NeedsIn(d, t) /\ u[i].next >= 1
    BY <2>2, <2>3, <2>5
  <2>7. \A i \in 1..(Len(u) - 1) : /\ u[i].next <= Len(d[u[i].app])
                                    /\ d[u[i].app][u[i].next] = u[i + 1].app
    BY <2>4, <2>5
  <2>8. u # <<>>
    BY <1>3
  <2> QED BY <2>1, <2>6, <2>7, <2>8 DEF Chained
<1>6. Passed(d, u, G2)
  BY <1>1, <1>3, <1>4 DEF Task, Passed
<1>7. Holds(t, u, "deps", k2, L2)
  <2>1. \A i \in 1..(n - 1) : k2[s[i].app] = {t} /\ s[i].app \notin L2
    BY <1>1, <1>17
  <2> QED BY <1>3, <2>1 DEF Holds
<1>8. n - 1 \in 1..(n - 1) /\ n - 1 + 1 = n /\ n - 1 \in 1..n
  BY <1>1
<1>9. s[n - 1].next <= Len(d[s[n - 1].app]) /\ d[s[n - 1].app][s[n - 1].next] = s[n].app
  BY <1>1, <1>8 DEF Task, Chained
<1>10. s[n - 1].next \in Nat /\ s[n - 1].next >= 1 /\ d[s[n - 1].app] \in Seq(PassApps)
  <2>1. s[n - 1].next >= 1
    BY <1>1, <1>8 DEF Task, Chained
  <2> QED BY <1>1, <1>8, <2>1, FrameOf
<1>11. s[n - 1].next \in 1..Len(d[s[n - 1].app])
  BY <1>9, <1>10
<1>16. Len(u) = Len(s) - 1 /\ s[n].app \in G2
  BY <1>1, <1>3, <1>17
<1>12. u[Len(u)] = s[n - 1]
  BY <1>3, <1>8
<1>13. Task(d, t, u, "deps", k2, L2, G2)
  BY <1>5, <1>6, <1>7 DEF Task
<1>14. u[Len(u)].next \in 1..Len(d[u[Len(u)].app])
  BY <1>11, <1>12
<1>15. d[u[Len(u)].app][u[Len(u)].next] \in G2
  BY <1>9, <1>12, <1>16
<1> QED BY <1>2, <1>3, <1>13, <1>14, <1>15, <1>16 DEF CutTo

-----------------------------------------------------------------------------
(* The pass.                                                                  *)

LEMMA TasksSame ==
  ASSUME TasksHold, UNCHANGED <<depsDeps, depsStack, depsStep, depsLock>>,
         PassShapes, depsLoaded' \subseteq depsLoaded, Had \subseteq Had'
  PROVE  TasksHold'
<1>1. /\ depsDeps' = depsDeps /\ depsStack' = depsStack /\ depsStep' = depsStep
      /\ depsLock' = depsLock
  OBVIOUS
<1> SUFFICES ASSUME NEW t \in PassApps
             PROVE  Task(depsDeps, t, depsStack[t], depsStep[t], depsLock, depsLoaded', Had')
  BY <1>1 DEF TasksHold
<1>2. PICK G, L : G = Had' /\ L = depsLoaded'
  OBVIOUS
<1>3. depsStack[t] \in Seq(Frames)
  BY DEF PassShapes
<1>4. Task(depsDeps, t, depsStack[t], depsStep[t], depsLock, depsLoaded, Had)
  BY DEF TasksHold
<1>5. Spares(t, depsLock, depsLoaded, depsLock, L)
  BY <1>2 DEF Spares
<1> QED BY <1>2, <1>3, <1>4, <1>5, OtherTask

\* A task takes a step.
LEMMA TaskTakes ==
  ASSUME PassShapes, TasksHold, NEW t \in PassApps, NEW s \in Seq(Frames), NEW st \in Deps!Steps,
         depsDeps' = depsDeps,
         depsStack' = [depsStack EXCEPT ![t] = s], depsStep' = [depsStep EXCEPT ![t] = st],
         Task(depsDeps, t, s, st, depsLock', depsLoaded', Had'),
         Had \subseteq Had',
         \A u \in PassApps \ {t} : Spares(u, depsLock, depsLoaded, depsLock', depsLoaded')
  PROVE  /\ TasksHold'
         /\ depsStack' \in [PassApps -> Seq(Frames)] /\ depsStep' \in [PassApps -> Deps!Steps]
         /\ depsStack'[t] = s /\ \A u \in PassApps \ {t} : depsStack'[u] = depsStack[u]
<1>1. /\ depsStack' \in [PassApps -> Seq(Frames)] /\ depsStep' \in [PassApps -> Deps!Steps]
      /\ depsStack'[t] = s /\ depsStep'[t] = st
      /\ \A u \in PassApps \ {t} : depsStack'[u] = depsStack[u] /\ depsStep'[u] = depsStep[u]
  BY DEF PassShapes
<1>2. PICK G, L, k : G = Had' /\ L = depsLoaded' /\ k = depsLock'
  OBVIOUS
<1>3. ASSUME NEW u \in PassApps \ {t}
      PROVE  Task(depsDeps, u, depsStack[u], depsStep[u], k, L, G)
  <2>1. depsStack[u] \in Seq(Frames)
    BY DEF PassShapes
  <2>2. Task(depsDeps, u, depsStack[u], depsStep[u], depsLock, depsLoaded, Had)
    BY DEF TasksHold
  <2>3. Spares(u, depsLock, depsLoaded, k, L)
    BY <1>2
  <2>4. Had \subseteq G
    BY <1>2
  <2> QED BY <2>1, <2>2, <2>3, <2>4, OtherTask
<1>4. \A u \in PassApps : Task(depsDeps, u, depsStack'[u], depsStep'[u], k, L, G)
  BY <1>1, <1>2, <1>3
<1>5. TasksHold'
  BY <1>2, <1>4 DEF TasksHold
<1> QED BY <1>1, <1>5

\* While a task runs, nothing is doomed.
LEMMA Working ==
  ASSUME PassInv, NEW t \in PassApps, depsStack[t] # <<>>
  PROVE  /\ depsPhase \in {"install", "upgrade"} /\ depsDoomed = {}
         /\ depsStack[t] \in Seq(Frames) /\ depsStep[t] \in Deps!Steps
         /\ Task(depsDeps, t, depsStack[t], depsStep[t], depsLock, depsLoaded, Had)
         /\ depsDeps \in [PassApps -> Seq(PassApps)]
         /\ Len(depsStack[t]) \in Nat /\ Len(depsStack[t]) >= 1
         /\ Len(depsStack[t]) \in 1..Len(depsStack[t])
         /\ depsStack[t][Len(depsStack[t])] \in Frames
         /\ Deps!Top(t) = depsStack[t][Len(depsStack[t])]
         /\ Deps!Top(t).app \in PassApps /\ Deps!Top(t).next \in Nat
<1>1. t \in Active
  BY DEF Active
<1>2. depsPhase \in {"install", "upgrade"}
  BY <1>1 DEF PassInv, PassShapes, Phased, Deps!Phases
<1>3. depsDoomed = {}
  BY <1>2 DEF PassInv, Phased
<1>4. depsStack[t] \in Seq(Frames) /\ depsStep[t] \in Deps!Steps
  BY DEF PassInv, PassShapes
<1>5. Task(depsDeps, t, depsStack[t], depsStep[t], depsLock, depsLoaded, Had)
  BY DEF PassInv, TasksHold
<1>6. PICK s \in Seq(Frames) : s = depsStack[t]
  BY <1>4
<1>7. Len(s) \in Nat /\ Len(s) >= 1 /\ Len(s) \in 1..Len(s) /\ s[Len(s)] \in Frames
  BY <1>6
<1>8. depsDeps \in [PassApps -> Seq(PassApps)]
  BY DEF PassInv, PassShapes
<1> QED BY <1>2, <1>3, <1>4, <1>5, <1>6, <1>7, <1>8 DEF Deps!Top, Frames

\* What a step of a task leaves alone.
Beside ==
  UNCHANGED <<depsDeps, depsKnown, depsDesired, depsPlan, depsPhase, depsMissing, depsDoomed>>

LEMMA TaskStepKeeps ==
  ASSUME PassInv, NEW t \in PassApps, depsStack[t] # <<>>, Beside,
         NEW s \in Seq(Frames), NEW st \in Deps!Steps,
         depsStack' = [depsStack EXCEPT ![t] = s], depsStep' = [depsStep EXCEPT ![t] = st],
         Task(depsDeps, t, s, st, depsLock', depsLoaded', Had'),
         depsLock' \in [PassApps -> SUBSET PassApps],
         Had \subseteq Had', depsLoaded \subseteq depsLoaded', depsFailed \subseteq depsFailed',
         \A u \in PassApps \ {t} : Spares(u, depsLock, depsLoaded, depsLock', depsLoaded'),
         \A a \in depsLoaded' \ depsLoaded :
             \A n \in DOMAIN depsDeps[a] : depsDeps[a][n] \in Had',
         s # <<>> \/ t \in depsLoaded' \/ NeedsIn(depsDeps, t) \cap depsFailed' # {}
  PROVE  PassInv'
<1>1. /\ depsDeps' = depsDeps /\ depsKnown' = depsKnown /\ depsDesired' = depsDesired
      /\ depsPlan' = depsPlan /\ depsPhase' = depsPhase /\ depsMissing' = depsMissing
      /\ depsDoomed' = depsDoomed
  BY DEF Beside
<1>2. depsPhase \in {"install", "upgrade"} /\ depsDoomed = {}
  BY Working
<1>3. /\ TasksHold'
      /\ depsStack' \in [PassApps -> Seq(Frames)] /\ depsStep' \in [PassApps -> Deps!Steps]
      /\ depsStack'[t] = s /\ \A u \in PassApps \ {t} : depsStack'[u] = depsStack[u]
  BY <1>1, TaskTakes DEF PassInv
<1>4. PassShapes'
  BY <1>1, <1>3 DEF PassInv, PassShapes
<1>5. LoadedAfter'
  <2>1. \A a \in depsLoaded : \A n \in DOMAIN depsDeps[a] : depsDeps[a][n] \in Had'
    BY DEF PassInv, LoadedAfter
  <2> QED BY <1>1, <2>1 DEF LoadedAfter
<1>6. Accounted'
  <2> SUFFICES ASSUME NEW a \in depsPlan
               PROVE  \/ a \in depsLoaded' \cup depsMissing \cup Active'
                      \/ NeedsIn(depsDeps, a) \cap depsFailed' # {}
    BY <1>1 DEF Accounted
  <2>1. a \in PassApps
    BY DEF PassInv, PassShapes
  <2>2. \/ a \in depsLoaded \cup depsMissing \cup Active
        \/ NeedsIn(depsDeps, a) \cap depsFailed # {}
    BY <1>2 DEF PassInv, Accounted
  <2>3. CASE a = t
    BY <1>3, <2>3 DEF Active
  <2>4. CASE a # t
    <3>1. a \in Active => a \in Active'
      BY <1>3, <2>1, <2>4 DEF Active
    <3> QED BY <2>2, <3>1
  <2> QED BY <2>3, <2>4
<1>7. Phased' /\ Spared'
  BY <1>1, <1>2 DEF PassInv, Phased, Spared
<1> QED BY <1>3, <1>4, <1>5, <1>6, <1>7 DEF PassInv

\* An exception: the task is over, or installs what was there, and the app it stood at is
\* one that it needs.
LEMMA RaiseKeeps ==
  ASSUME PassInv, NEW t \in PassApps, depsStack[t] # <<>>, Beside, Deps!Raise(t),
         depsLoaded' = depsLoaded, depsRemoved' = depsRemoved
  PROVE  PassInv'
<1>1. /\ Had' = Had
      /\ depsLock' = [a \in PassApps |-> depsLock[a] \ {t}]
      /\ depsFailed' = depsFailed \cup {Deps!Top(t).app}
  BY DEF Deps!Raise, Had, PassApps
<1>2. depsLock \in [PassApps -> SUBSET PassApps] /\ depsDeps \in [PassApps -> Seq(PassApps)]
  BY DEF PassInv, PassShapes
<1>3. depsLock' \in [PassApps -> SUBSET PassApps]
  BY <1>1, <1>2
<1>4. PICK s \in Seq(Frames), st \in Deps!Steps :
          /\ depsStack' = [depsStack EXCEPT ![t] = s]
          /\ depsStep' = [depsStep EXCEPT ![t] = st]
          /\ \A k, L, G : Task(depsDeps, t, s, st, k, L, G)
  <2>1. CASE t \in depsAgain
    <3>1. /\ depsStack' = [depsStack EXCEPT ![t] = <<[app |-> t, next |-> 1]>>]
          /\ depsStep' = [depsStep EXCEPT ![t] = "lock"]
      BY <2>1 DEF Deps!Raise, Deps!Goes
    <3>2. \A k, L, G : Task(depsDeps, t, <<[app |-> t, next |-> 1]>>, "lock", k, L, G)
      BY <1>2, FreshTask
    <3>3. <<[app |-> t, next |-> 1]>> \in Seq(Frames) /\ "lock" \in Deps!Steps
      BY <1>2, FreshTask DEF Deps!Steps
    <3> QED BY <3>1, <3>2, <3>3
  <2>2. CASE t \notin depsAgain
    <3>1. /\ depsStack' = [depsStack EXCEPT ![t] = <<>>]
          /\ depsStep' = [depsStep EXCEPT ![t] = "idle"]
      BY <2>2 DEF Deps!Raise, Deps!Goes
    <3>2. \A k, L, G : Task(depsDeps, t, <<>>, "idle", k, L, G)
      BY IdleTask
    <3>3. <<>> \in Seq(Frames) /\ "idle" \in Deps!Steps
      BY DEF Deps!Steps
    <3> QED BY <3>1, <3>2, <3>3
  <2> QED BY <2>1, <2>2
<1>5. Deps!Top(t).app \in NeedsIn(depsDeps, t)
  BY Working DEF Task, Chained
<1>6. Task(depsDeps, t, s, st, depsLock', depsLoaded', Had')
  BY <1>4
<1>7. \A u \in PassApps \ {t} : Spares(u, depsLock, depsLoaded, depsLock', depsLoaded')
  BY <1>1, <1>2 DEF Spares
<1>8. NeedsIn(depsDeps, t) \cap depsFailed' # {}
  BY <1>1, <1>5
<1> QED BY <1>1, <1>3, <1>4, <1>6, <1>7, <1>8, TaskStepKeeps

\* The innermost frame is done with, its app being loaded.
LEMMA ReturnKeeps ==
  ASSUME PassInv, NEW t \in PassApps, depsStack[t] # <<>>, Beside, Deps!Return(t),
         depsFailed' = depsFailed,
         depsLock' \in [PassApps -> SUBSET PassApps],
         Had \subseteq Had', depsLoaded' = depsLoaded \cup {Deps!Top(t).app},
         \A a \in PassApps : a # Deps!Top(t).app => depsLock'[a] = depsLock[a],
         \A u \in PassApps \ {t} :
             depsLock[Deps!Top(t).app] = {u} => Deps!Top(t).app \in depsLoaded,
         \A n \in DOMAIN depsDeps[Deps!Top(t).app] : depsDeps[Deps!Top(t).app][n] \in Had'
  PROVE  PassInv'
<1>1. PICK x, k, L, G, s, n :
          /\ s \in Seq(Frames) /\ x = Deps!Top(t).app /\ k = depsLock' /\ L = depsLoaded'
          /\ G = Had'
          /\ s = depsStack[t] /\ n = Len(s)
  BY Working
<1>2. /\ Task(depsDeps, t, s, depsStep[t], depsLock, depsLoaded, Had)
      /\ depsDeps \in [PassApps -> Seq(PassApps)]
      /\ n \in Nat /\ n >= 1 /\ n \in 1..n /\ s[n].app = x /\ x \in PassApps
  BY <1>1, Working
<1>3. x \in G /\ Had \subseteq G /\ x \in L
  BY <1>1 DEF Had
<1>4. \A i \in 1..(n - 1) : k[s[i].app] = {t} /\ s[i].app \notin L
  <2> SUFFICES ASSUME NEW i \in 1..(n - 1) PROVE k[s[i].app] = {t} /\ s[i].app \notin L
    OBVIOUS
  <2>1. i \in 1..n /\ i < n /\ s[i].app \in PassApps
    <3>1. i \in 1..n /\ i < n
      BY <1>2
    <3> QED BY <1>1, <3>1, FrameOf
  <2>2. depsLock[s[i].app] = {t} /\ s[i].app \notin depsLoaded
    BY <1>1, <2>1, <1>2 DEF Task, Holds
  <2>3. s[i].app # x
    BY <1>1, <1>2, <2>1 DEF Task, Chained
  <2> QED BY <1>1, <2>1, <2>2, <2>3
<1>5. PICK v \in Seq(Frames), st \in Deps!Steps :
          /\ depsStack' = [depsStack EXCEPT ![t] = v]
          /\ depsStep' = [depsStep EXCEPT ![t] = st]
          /\ Task(depsDeps, t, v, st, k, L, G)
          /\ v # <<>> \/ t \in L
  <2>1. CASE n = 1
    <3>1. /\ depsStack' = [depsStack EXCEPT ![t] = <<>>]
          /\ depsStep' = [depsStep EXCEPT ![t] = "idle"]
      BY <1>1, <2>1 DEF Deps!Return, Deps!Goes
    <3>2. x = t
      BY <1>1, <1>2, <2>1 DEF Task, Chained
    <3>3. <<>> \in Seq(Frames) /\ "idle" \in Deps!Steps
      BY DEF Deps!Steps
    <3> QED BY <1>3, <3>1, <3>2, <3>3, IdleTask
  <2>2. CASE n > 1
    <3>1. PICK b : b = SubSeq(s, 1, n - 1)
      OBVIOUS
    <3>2. /\ b \in Seq(Frames) /\ b # <<>> /\ Len(b) = n - 1
          /\ Task(depsDeps, t, b, "deps", k, L, G)
          /\ b[Len(b)].next \in 1..Len(depsDeps[b[Len(b)].app])
          /\ depsDeps[b[Len(b)].app][b[Len(b)].next] \in G
      <4>1. s \in Seq(Frames) /\ n = Len(s) /\ s[n].app \in G
        BY <1>1, <1>2, <1>3
      <4>2. Task(depsDeps, t, s, depsStep[t], depsLock, depsLoaded, Had)
        BY <1>2
      <4>3. Had \subseteq G /\ depsDeps \in [PassApps -> Seq(PassApps)]
        BY <1>2, <1>3
      <4>4. Len(s) > 1 /\ b = SubSeq(s, 1, Len(s) - 1) /\ s[Len(s)].app \in G
        BY <1>1, <1>2, <2>2, <3>1, <4>1
      <4>5. \A i \in 1..(Len(s) - 1) : k[s[i].app] = {t} /\ s[i].app \notin L
        BY <1>4, <4>1
      <4>6. CutFrom(t, s, k, L, G)
        BY <4>4, <4>5 DEF CutFrom
      <4>7. CutTo(depsDeps, t, s, k, L, G)
        BY <4>1, <4>2, <4>3, <4>6, CutTask
      <4>8. Len(b) = n - 1
        BY <4>1, <4>4, <4>7 DEF CutTo
      <4> QED BY <4>4, <4>7, <4>8 DEF CutTo
    <3>3. PICK v : v = [b EXCEPT ![Len(b)].next = @ + 1]
      OBVIOUS
    <3>4. v \in Seq(Frames) /\ v # <<>> /\ Task(depsDeps, t, v, "deps", k, L, G)
      BY <1>2, <3>2, <3>3, AdvancedTask
    <3>9. Len(depsStack[t]) # 1
      BY <1>1, <1>2, <2>2
    <3>5. depsStep' = [depsStep EXCEPT ![t] = "deps"]
      BY <3>9 DEF Deps!Return, Deps!Goes
    <3>6. v = [b EXCEPT ![n - 1].next = @ + 1]
      BY <3>2, <3>3
    <3>7. depsStack' = [depsStack EXCEPT ![t] = v]
      <4>1. depsStack' = [depsStack EXCEPT ![t] =
                [SubSeq(depsStack[t], 1, Len(depsStack[t]) - 1)
                   EXCEPT ![Len(depsStack[t]) - 1].next = @ + 1]]
        BY <3>9 DEF Deps!Return
      <4>2. depsStack' =
              [depsStack EXCEPT ![t] = [SubSeq(s, 1, n - 1) EXCEPT ![n - 1].next = @ + 1]]
        BY <1>1, <4>1
      <4> QED BY <3>1, <3>6, <4>2
    <3>8. "deps" \in Deps!Steps
      BY DEF Deps!Steps
    <3> QED BY <3>4, <3>5, <3>7, <3>8
  <2>3. n = 1 \/ n > 1
    BY <1>2
  <2> QED BY <2>1, <2>2, <2>3
<1>6. \A u \in PassApps \ {t} : Spares(u, depsLock, depsLoaded, depsLock', depsLoaded')
  BY <1>1 DEF Spares
<1>7. \A a \in depsLoaded' \ depsLoaded : \A m \in DOMAIN depsDeps[a] : depsDeps[a][m] \in Had'
  OBVIOUS
<1>8. /\ Task(depsDeps, t, v, st, depsLock', depsLoaded', Had')
      /\ v # <<>> \/ t \in depsLoaded'
  BY <1>1, <1>5
<1>9. depsLoaded \subseteq depsLoaded' /\ depsFailed \subseteq depsFailed'
  OBVIOUS
<1> QED BY <1>5, <1>6, <1>7, <1>8, <1>9, TaskStepKeeps

\* The steps that move a task's frames or what it is at, and nothing else.
LEMMA FramesMoveKeeps ==
  ASSUME PassInv, NEW t \in PassApps, depsStack[t] # <<>>, Beside,
         NEW s \in Seq(Frames), NEW st \in Deps!Steps, s # <<>>,
         depsStack' = [depsStack EXCEPT ![t] = s], depsStep' = [depsStep EXCEPT ![t] = st],
         Task(depsDeps, t, s, st, depsLock, depsLoaded, Had),
         UNCHANGED <<depsLock, depsLoaded, depsRemoved, depsFailed>>
  PROVE  PassInv'
<1>1. /\ depsLock' = depsLock /\ depsLoaded' = depsLoaded /\ Had' = Had
      /\ depsFailed' = depsFailed
  BY DEF Had
<1>2. depsLock' \in [PassApps -> SUBSET PassApps]
  BY <1>1 DEF PassInv, PassShapes
<1>3. Task(depsDeps, t, s, st, depsLock', depsLoaded', Had')
  BY <1>1
<1>4. \A u \in PassApps \ {t} : Spares(u, depsLock, depsLoaded, depsLock', depsLoaded')
  BY <1>1 DEF Spares
<1>5. \A a \in depsLoaded' \ depsLoaded : \A n \in DOMAIN depsDeps[a] : depsDeps[a][n] \in Had'
  BY <1>1
<1>6. Had \subseteq Had' /\ depsLoaded \subseteq depsLoaded' /\ depsFailed \subseteq depsFailed'
  BY <1>1
<1> QED BY <1>2, <1>3, <1>4, <1>5, <1>6, TaskStepKeeps

\* The same frames at another step.
LEMMA StepOnly ==
  ASSUME PassInv, NEW t \in PassApps, NEW st, depsStack' = depsStack, Deps!Goes(t, st)
  PROVE  /\ depsStack' = [depsStack EXCEPT ![t] = depsStack[t]]
         /\ depsStep' = [depsStep EXCEPT ![t] = st]
<1>1. depsStack \in [PassApps -> Seq(Frames)]
  BY DEF PassInv, PassShapes
<1> QED BY <1>1 DEF Deps!Goes

LEMMA TakeLockKeeps == ASSUME PassInv, NEW t \in PassApps, Deps!TakeLock(t) PROVE PassInv'
<1>1. /\ depsStack[t] # <<>> /\ depsStep[t] = "lock" /\ depsLock[Deps!Top(t).app] = {}
      /\ Beside
      /\ depsLoaded' = depsLoaded /\ depsRemoved' = depsRemoved /\ depsFailed' = depsFailed
  BY DEF Deps!TakeLock, Deps!At, Deps!registry, Beside
<1>2. Had' = Had /\ Had \subseteq Had'
  BY <1>1 DEF Had
<1>3. depsLock \in [PassApps -> SUBSET PassApps] /\ Deps!Top(t).app \in PassApps
  BY <1>1, Working DEF PassInv, PassShapes
<1>4. CASE Deps!Top(t).app \in depsLoaded
  <2>1. Deps!Return(t) /\ depsLock' = depsLock
    BY <1>4 DEF Deps!TakeLock
  <2>2. depsLoaded' = depsLoaded \cup {Deps!Top(t).app}
    BY <1>1, <1>4
  <2>3. \A n \in DOMAIN depsDeps[Deps!Top(t).app] : depsDeps[Deps!Top(t).app][n] \in Had'
    BY <1>2, <1>4 DEF PassInv, LoadedAfter
  <2>4. depsLock' \in [PassApps -> SUBSET PassApps]
    BY <1>3, <2>1
  <2> QED BY <1>1, <1>2, <1>4, <2>1, <2>2, <2>3, <2>4, ReturnKeeps
<1>5. CASE Deps!Top(t).app \notin depsLoaded
  <2>1. /\ depsLock' = [depsLock EXCEPT ![Deps!Top(t).app] = {t}]
        /\ depsStack' = depsStack /\ Deps!Goes(t, "fetch")
    BY <1>5 DEF Deps!TakeLock
  <2>2. PICK s, n, x, k : /\ s \in Seq(Frames) /\ s = depsStack[t] /\ n = Len(s) /\ n \in 1..n
                          /\ n \in Nat
                                     /\ s[n].app = x /\ x = Deps!Top(t).app /\ k = depsLock'
    BY <1>1, Working
  <2>3. Task(depsDeps, t, s, "lock", depsLock, depsLoaded, Had)
    BY <1>1, <2>2, Working
  <2>4. \A i \in 1..n : k[s[i].app] = {t} /\ s[i].app \notin depsLoaded
    <3> SUFFICES ASSUME NEW i \in 1..n PROVE k[s[i].app] = {t} /\ s[i].app \notin depsLoaded
      OBVIOUS
    <3>1. s[i].app \in PassApps
      BY <2>2, FrameOf
    <3>2. CASE i = n
      BY <1>3, <1>5, <2>1, <2>2, <3>2
    <3>3. CASE i # n
      <4>1. i < n
        BY <2>2, <3>3
      <4>2. depsLock[s[i].app] = {t} /\ s[i].app \notin depsLoaded
        BY <2>2, <2>3, <4>1 DEF Task, Holds
      <4>3. s[i].app # x
        BY <2>2, <2>3, <4>1 DEF Task, Chained
      <4> QED BY <1>3, <2>1, <2>2, <3>1, <4>2, <4>3
    <3> QED BY <3>2, <3>3
  <2>5. Task(depsDeps, t, s, "fetch", k, depsLoaded, Had)
    <3>1. Holds(t, s, "fetch", k, depsLoaded)
      BY <2>2, <2>4 DEF Holds
    <3>2. "lock" = "idle" <=> "fetch" = "idle"
      OBVIOUS
    <3>3. "fetch" = "load" => s[Len(s)].next > Len(depsDeps[s[Len(s)].app])
      OBVIOUS
    <3> QED BY <2>2, <2>3, <3>1, <3>2, <3>3, TaskStays
  <2>6. /\ depsStack' = [depsStack EXCEPT ![t] = s]
        /\ depsStep' = [depsStep EXCEPT ![t] = "fetch"]
        /\ "fetch" \in Deps!Steps
    BY <2>1, <2>2, StepOnly DEF Deps!Steps
  <2>7. Task(depsDeps, t, s, "fetch", depsLock', depsLoaded', Had')
    BY <1>1, <1>2, <2>2, <2>5
  <2>8. depsLock' \in [PassApps -> SUBSET PassApps]
    BY <1>3, <2>1
  <2>9. \A u \in PassApps \ {t} : Spares(u, depsLock, depsLoaded, depsLock', depsLoaded')
    BY <1>1, <1>3, <2>1 DEF Spares
  <2>10. s # <<>>
    BY <1>1, <2>2
  <2>11. /\ depsLoaded \subseteq depsLoaded' /\ depsFailed \subseteq depsFailed'
         /\ \A a \in depsLoaded' \ depsLoaded :
               \A m \in DOMAIN depsDeps[a] : depsDeps[a][m] \in Had'
    BY <1>1
  <2>12. depsStack[t] # <<>> /\ Beside /\ s \in Seq(Frames)
    BY <1>1, <2>2
  <2>13. Had \subseteq Had'
    BY <1>2
  <2> QED BY <2>6, <2>7, <2>8, <2>9, <2>10, <2>11, <2>12, <2>13, TaskStepKeeps
<1> QED BY <1>4, <1>5

LEMMA RefusalsKeep ==
  ASSUME PassInv, NEW t \in PassApps,
         Deps!LockTimesOut(t) \/ Deps!InstallFails(t) \/ Deps!DependencyRefused(t)
  PROVE  PassInv'
<1>1. /\ depsStack[t] # <<>> /\ Deps!Raise(t) /\ Beside
      /\ depsLoaded' = depsLoaded /\ depsRemoved' = depsRemoved
  BY DEF Deps!LockTimesOut, Deps!InstallFails, Deps!DependencyRefused, Deps!HasDependency,
     Deps!At, Deps!registry, Beside
<1> QED BY <1>1, RaiseKeeps

LEMMA OnwardKeeps ==
  ASSUME PassInv, NEW t \in PassApps, Deps!Fetch(t) \/ Deps!BeginLoad(t)
  PROVE  PassInv'
<1>1. PICK st \in {"deps", "load"} :
          /\ depsStack[t] # <<>> /\ depsStep[t] \in {"fetch", "deps"}
          /\ Deps!Goes(t, st) /\ Beside /\ depsStack' = depsStack
          /\ UNCHANGED <<depsLock, depsLoaded, depsRemoved, depsFailed>>
          /\ st = "load" => Deps!Top(t).next > Len(depsDeps[Deps!Top(t).app])
  BY DEF Deps!Fetch, Deps!BeginLoad, Deps!At, Deps!registry, Beside
<1>2. PICK s \in Seq(Frames) : s = depsStack[t]
  BY <1>1, Working
<1>3. Task(depsDeps, t, s, depsStep[t], depsLock, depsLoaded, Had)
  BY <1>1, <1>2, Working
<1>4. st = "load" => s[Len(s)].next > Len(depsDeps[s[Len(s)].app])
  BY <1>1, <1>2 DEF Deps!Top
<1>5. Holds(t, s, st, depsLock, depsLoaded)
  BY <1>1, <1>3 DEF Task, Holds
<1>6. Task(depsDeps, t, s, st, depsLock, depsLoaded, Had)
  BY <1>1, <1>3, <1>4, <1>5, TaskStays
<1>7. depsStack' = [depsStack EXCEPT ![t] = s] /\ depsStep' = [depsStep EXCEPT ![t] = st]
  BY <1>1, <1>2, StepOnly
<1>8. st \in Deps!Steps
  BY DEF Deps!Steps
<1> QED BY <1>1, <1>2, <1>6, <1>7, <1>8, FramesMoveKeeps

LEMMA DependencyKeeps ==
  ASSUME PassInv, NEW t \in PassApps, Deps!DependencyIsLoaded(t) \/ Deps!DependencyMissing(t)
  PROVE  PassInv'
<1>1. /\ depsStack[t] # <<>> /\ depsStep[t] = "deps" /\ Beside
      /\ UNCHANGED <<depsLock, depsLoaded, depsRemoved, depsFailed>>
      /\ Deps!Top(t).next <= Len(depsDeps[Deps!Top(t).app])
  BY DEF Deps!DependencyIsLoaded, Deps!DependencyMissing, Deps!HasDependency, Deps!At,
     Deps!registry, Beside
<1>2. PICK s, b :
          s \in Seq(Frames) /\ s = depsStack[t] /\ b = depsDeps[s[Len(s)].app][s[Len(s)].next]
  BY <1>1, Working
<1>3. /\ Task(depsDeps, t, s, "deps", depsLock, depsLoaded, Had)
      /\ depsDeps \in [PassApps -> Seq(PassApps)] /\ s # <<>>
      /\ Deps!Top(t) = s[Len(s)] /\ Len(s) \in 1..Len(s)
  BY <1>1, <1>2, Working
<1>4. s[Len(s)].next \in 1..Len(depsDeps[s[Len(s)].app])
  <2>1. s[Len(s)].next >= 1
    BY <1>3 DEF Task, Chained
  <2>2. s[Len(s)].next \in Nat /\ depsDeps[s[Len(s)].app] \in Seq(PassApps)
    <3>1. s[Len(s)].app \in PassApps /\ s[Len(s)].next \in Nat
      BY <1>2, <1>3, FrameOf
    <3> QED BY <1>3, <3>1
  <2> QED BY <1>1, <1>3, <2>1, <2>2
<1>5. Deps!NextDependency(t) = b
  BY <1>2, <1>3 DEF Deps!NextDependency
<1>6. CASE Deps!DependencyIsLoaded(t)
  <2>1. b \in Had
    BY <1>5, <1>6 DEF Deps!DependencyIsLoaded, Had
  <2>2. PICK v : v = [s EXCEPT ![Len(s)].next = @ + 1]
    OBVIOUS
  <2>3. v \in Seq(Frames) /\ v # <<>> /\ Task(depsDeps, t, v, "deps", depsLock, depsLoaded, Had)
    BY <1>2, <1>3, <1>4, <2>1, <2>2, AdvancedTask
  <2>4. depsStack' = [depsStack EXCEPT ![t] = v]
    BY <1>2, <1>6, <2>2 DEF Deps!DependencyIsLoaded
  <2>5. depsStep' = [depsStep EXCEPT ![t] = "deps"] /\ "deps" \in Deps!Steps
    <3>1. depsStep' = depsStep
      BY <1>6 DEF Deps!DependencyIsLoaded
    <3>2. depsStep \in [PassApps -> Deps!Steps]
      BY DEF PassInv, PassShapes
    <3> QED BY <1>1, <3>1, <3>2 DEF Deps!Steps
  <2> QED BY <1>1, <2>3, <2>4, <2>5, FramesMoveKeeps
<1>7. CASE Deps!DependencyMissing(t)
  <2>1. \A i \in 1..Len(s) : s[i].app # b
    <3>1. DOMAIN s = 1..Len(s)
      BY <1>2, FrameOf
    <3>2. ~Deps!Cyclic(t)
      BY <1>7 DEF Deps!DependencyMissing
    <3> QED BY <1>2, <1>5, <3>1, <3>2 DEF Deps!Cyclic
  <2>2. PICK v : v = Append(s, [app |-> b, next |-> 1])
    OBVIOUS
  <2>3. v \in Seq(Frames) /\ Task(depsDeps, t, v, "lock", depsLock, depsLoaded, Had)
    BY <1>2, <1>3, <1>4, <2>1, <2>2, PushedTask
  <2>4. v # <<>>
    BY <2>2
  <2>5. /\ depsStack' = [depsStack EXCEPT ![t] = v]
        /\ depsStep' = [depsStep EXCEPT ![t] = "lock"]
        /\ "lock" \in Deps!Steps
    BY <1>2, <1>5, <1>7, <2>2 DEF Deps!DependencyMissing, Deps!Goes, Deps!Steps
  <2> QED BY <1>1, <2>3, <2>4, <2>5, FramesMoveKeeps
<1> QED BY <1>6, <1>7

LEMMA LoadKeeps == ASSUME PassInv, NEW t \in PassApps, Deps!Load(t) PROVE PassInv'
<1>1. PICK x : x = Deps!Top(t).app
  OBVIOUS
<1>2. /\ depsStack[t] # <<>> /\ depsStep[t] = "load" /\ Beside /\ Deps!Return(t)
      /\ depsLoaded' = depsLoaded \cup {x} /\ depsRemoved' = depsRemoved \ {x}
      /\ depsLock' = [depsLock EXCEPT ![x] = {}] /\ depsFailed' = depsFailed
  BY <1>1 DEF Deps!Load, Deps!At, Deps!registry, Beside
<1>3. Had \subseteq Had'
  BY <1>2 DEF Had
<1>4. depsLock \in [PassApps -> SUBSET PassApps] /\ x \in PassApps
  BY <1>1, <1>2, Working DEF PassInv, PassShapes
<1>5. /\ depsLock' \in [PassApps -> SUBSET PassApps]
      /\ \A a \in PassApps : a # x => depsLock'[a] = depsLock[a]
  BY <1>2, <1>4
<1>6. depsLock[x] = {t} /\ \A n \in 1..Len(depsDeps[x]) : depsDeps[x][n] \in Had
  <2>1. PICK s, n : /\ s \in Seq(Frames) /\ s = depsStack[t]
                    /\ n = Len(s) /\ n \in 1..n /\ s[n].app = x
    BY <1>1, <1>2, Working
  <2>2. Task(depsDeps, t, s, "load", depsLock, depsLoaded, Had) /\ depsDeps[x] \in Seq(PassApps)
    BY <1>2, <1>4, <2>1, Working
  <2>3. depsLock[x] = {t}
    BY <2>1, <2>2 DEF Task, Holds
  <2>4. s[n].next > Len(depsDeps[x])
    BY <2>1, <2>2 DEF Task, Chained
  <2>5. s[n].next \in Nat
    BY <2>1, FrameOf
  <2>6. \A m \in 1..Len(depsDeps[x]) : m < s[n].next
    BY <2>2, <2>4, <2>5
  <2> QED BY <2>1, <2>2, <2>3, <2>6 DEF Task, Passed
<1>7. \A n \in DOMAIN depsDeps[x] : depsDeps[x][n] \in Had'
  <2>1. depsDeps[x] \in Seq(PassApps)
    BY <1>4 DEF PassInv, PassShapes
  <2> QED BY <1>3, <1>6, <2>1
<1>8. \A u \in PassApps \ {t} : depsLock[x] = {u} => x \in depsLoaded
  BY <1>6
<1> QED BY <1>1, <1>2, <1>3, <1>5, <1>7, <1>8, ReturnKeeps

-----------------------------------------------------------------------------
(* The pass begins, submits, upgrades, removes and ends; and what happens     *)
(* outside it.                                                                *)

\* Nothing happens to a task.
Idling == UNCHANGED <<depsDeps, depsStack, depsStep, depsLock>>

LEMMA BeginPassKeeps == ASSUME PassInv, Deps!BeginPass PROVE PassInv'
<1>1. /\ depsPhase = "idle" /\ depsPhase' = "install" /\ depsPlan' = depsDesired
      /\ depsMissing' = depsDesired \ depsLoaded /\ Idling
      /\ UNCHANGED <<depsKnown, depsDesired, depsDoomed, depsLoaded, depsRemoved>>
  BY DEF Deps!BeginPass, Deps!registry, Deps!pool, Idling
<1>2. Had' = Had /\ depsLoaded' = depsLoaded /\ Had \subseteq Had'
  BY <1>1 DEF Had
<1>3. TasksHold'
  BY <1>1, <1>2, TasksSame DEF PassInv, Idling
<1>4. PassShapes'
  BY <1>1 DEF PassInv, PassShapes, Idling, Deps!Phases
<1>5. LoadedAfter'
  BY <1>1, <1>2 DEF PassInv, LoadedAfter, Idling
<1>6. Accounted'
  BY <1>1 DEF Accounted
<1>7. depsDoomed' = {}
  BY <1>1 DEF PassInv, Phased
<1>8. Phased' /\ Spared'
  BY <1>1, <1>7 DEF Phased, Spared
<1> QED BY <1>3, <1>4, <1>5, <1>6, <1>8 DEF PassInv

\* A task of a missing app begins, or of an upgrade.
LEMMA BeginsTask ==
  ASSUME PassInv, NEW a \in PassApps, depsDeps' = depsDeps, depsLock' = depsLock,
         depsStack' = [depsStack EXCEPT ![a] = <<[app |-> a, next |-> 1]>>],
         Deps!Goes(a, "lock"), depsLoaded' \subseteq depsLoaded, Had \subseteq Had'
  PROVE  /\ TasksHold'
         /\ depsStack' \in [PassApps -> Seq(Frames)] /\ depsStep' \in [PassApps -> Deps!Steps]
         /\ a \in Active' /\ Active \subseteq Active'
<1>1. PICK s \in Seq(Frames) : s = <<[app |-> a, next |-> 1]>>
  BY FreshTask DEF PassInv, PassShapes
<1>2. \A k, L, G : Task(depsDeps, a, s, "lock", k, L, G)
  BY <1>1, FreshTask DEF PassInv, PassShapes
<1>3. depsStep' = [depsStep EXCEPT ![a] = "lock"] /\ "lock" \in Deps!Steps
  BY DEF Deps!Goes, Deps!Steps
<1>4. depsStack' = [depsStack EXCEPT ![a] = s] /\ s # <<>>
  BY <1>1
<1>5. Task(depsDeps, a, s, "lock", depsLock', depsLoaded', Had')
  BY <1>2
<1>6. \A u \in PassApps \ {a} : Spares(u, depsLock, depsLoaded, depsLock', depsLoaded')
  BY DEF Spares
<1>7. /\ TasksHold'
      /\ depsStack' \in [PassApps -> Seq(Frames)] /\ depsStep' \in [PassApps -> Deps!Steps]
      /\ depsStack'[a] = s /\ \A u \in PassApps \ {a} : depsStack'[u] = depsStack[u]
  BY <1>3, <1>4, <1>5, <1>6, TaskTakes DEF PassInv
<1>8. a \in Active' /\ Active \subseteq Active'
  BY <1>4, <1>7 DEF Active
<1> QED BY <1>7, <1>8

LEMMA SubmitKeeps == ASSUME PassInv, NEW a \in PassApps, Deps!Submit(a) PROVE PassInv'
<1>1. /\ depsPhase = "install" /\ depsMissing' = depsMissing \ {a}
      /\ depsStack' = [depsStack EXCEPT ![a] = <<[app |-> a, next |-> 1]>>]
      /\ Deps!Goes(a, "lock")
      /\ UNCHANGED <<depsDeps, depsKnown, depsDesired, depsPlan, depsPhase, depsLock, depsDoomed,
                     depsLoaded, depsRemoved, depsFailed>>
  BY DEF Deps!Submit, Deps!registry
<1>2. /\ depsDeps' = depsDeps /\ depsLock' = depsLock /\ depsLoaded' = depsLoaded /\ Had' = Had
      /\ Had \subseteq Had'
  BY <1>1 DEF Had
<1>3. /\ TasksHold'
      /\ depsStack' \in [PassApps -> Seq(Frames)] /\ depsStep' \in [PassApps -> Deps!Steps]
      /\ a \in Active' /\ Active \subseteq Active'
  BY <1>1, <1>2, BeginsTask
<1>4. PassShapes'
  BY <1>1, <1>3 DEF PassInv, PassShapes
<1>5. LoadedAfter'
  BY <1>2 DEF PassInv, LoadedAfter
<1>6. Accounted'
  <2>1. \A b \in depsPlan : \/ b \in depsLoaded \cup depsMissing \cup Active
                            \/ NeedsIn(depsDeps, b) \cap depsFailed # {}
    BY <1>1 DEF PassInv, Accounted
  <2> QED BY <1>1, <1>3, <2>1 DEF Accounted
<1>7. depsDoomed = {}
  BY <1>1 DEF PassInv, Phased
<1>8. Phased' /\ Spared'
  BY <1>1, <1>7 DEF Phased, Spared
<1> QED BY <1>3, <1>4, <1>5, <1>6, <1>8 DEF PassInv

LEMMA UpgradeKeeps == ASSUME PassInv, NEW a \in PassApps, Deps!Upgrade(a) PROVE PassInv'
<1>1. /\ depsPhase = "upgrade" /\ depsLoaded' = depsLoaded \ {a}
      /\ depsRemoved' = depsRemoved \cup {a}
      /\ depsStack' = [depsStack EXCEPT ![a] = <<[app |-> a, next |-> 1]>>]
      /\ Deps!Goes(a, "lock")
      /\ UNCHANGED <<depsDeps, depsKnown, depsDesired, depsPlan, depsPhase, depsMissing,
                     depsLock, depsDoomed, depsFailed>>
  BY DEF Deps!Upgrade, Deps!registry
<1>2. /\ depsDeps' = depsDeps /\ depsLock' = depsLock /\ depsLoaded' \subseteq depsLoaded
      /\ Had \subseteq Had'
  BY <1>1 DEF Had
<1>3. /\ TasksHold'
      /\ depsStack' \in [PassApps -> Seq(Frames)] /\ depsStep' \in [PassApps -> Deps!Steps]
      /\ a \in Active' /\ Active \subseteq Active'
  BY <1>1, <1>2, BeginsTask
<1>4. PassShapes'
  BY <1>1, <1>3 DEF PassInv, PassShapes
<1>5. LoadedAfter'
  BY <1>2 DEF PassInv, LoadedAfter
<1>6. Accounted'
  <2>1. \A b \in depsPlan : \/ b \in depsLoaded \cup depsMissing \cup Active
                            \/ NeedsIn(depsDeps, b) \cap depsFailed # {}
    BY <1>1 DEF PassInv, Accounted
  <2> QED BY <1>1, <1>3, <2>1 DEF Accounted
<1>7. depsDoomed = {} /\ depsMissing = {}
  BY <1>1 DEF PassInv, Phased
<1>8. Phased' /\ Spared'
  BY <1>1, <1>7 DEF Phased, Spared
<1> QED BY <1>3, <1>4, <1>5, <1>6, <1>8 DEF PassInv

\* What is reached from the plan, and what the loaded apps of it require, is not removed.
LEMMA ClosureHas ==
  ASSUME PassShapes
  PROVE  /\ depsPlan \subseteq Deps!Closure
         /\ \A a \in depsPlan \cap depsLoaded : Deps!Required(a) \subseteq Deps!Closure
<1> DEFINE C == Cardinality({AppA, AppB, AppC})
           More(S) == S \cup UNION {Deps!Required(a) : a \in S \cap depsLoaded}
           G(g) == [n \in 0..C |-> IF n = 0 THEN depsPlan ELSE More(g[n - 1])]
           grown == CHOOSE g : g = G(g)
<1>1. Deps!Closure = grown[C]
  BY DEF Deps!Closure, Deps!Cardinality, Cardinality
<1>2. C = 3
  BY ThreeApps
<1> HIDE DEF C
<1>3. PICK S0, S1, S2, S3 : S0 = depsPlan /\ S1 = More(S0) /\ S2 = More(S1) /\ S3 = More(S2)
  OBVIOUS
<1>4. \E g : g = G(g)
  <2> DEFINE h == [n \in 0..3 |-> IF n = 0 THEN S0 ELSE IF n = 1 THEN S1
                                  ELSE IF n = 2 THEN S2 ELSE S3]
  <2>1. h[0] = S0 /\ h[1] = S1 /\ h[2] = S2 /\ h[3] = S3
    OBVIOUS
  <2>2. h = [n \in 0..3 |-> h[n]]
    OBVIOUS
  <2> HIDE DEF h
  <2>3. h[1] = More(h[0]) /\ h[2] = More(h[1]) /\ h[3] = More(h[2]) /\ h[0] = depsPlan
    BY <1>3, <2>1
  <2>4. \A n \in 0..3 : h[n] = IF n = 0 THEN depsPlan ELSE More(h[n - 1])
    <3> HIDE DEF More
    <3> SUFFICES ASSUME NEW n \in 0..3 PROVE h[n] = IF n = 0 THEN depsPlan ELSE More(h[n - 1])
      OBVIOUS
    <3>1. CASE n = 0
      BY <2>3, <3>1
    <3>2. CASE n = 1
      <4>1. n - 1 = 0 /\ n # 0
        BY <3>2
      <4> QED BY <2>3, <3>2, <4>1
    <3>3. CASE n = 2
      <4>1. n - 1 = 1 /\ n # 0
        BY <3>3
      <4> QED BY <2>3, <3>3, <4>1
    <3>4. CASE n = 3
      <4>1. n - 1 = 2 /\ n # 0
        BY <3>4
      <4> QED BY <2>3, <3>4, <4>1
    <3> QED BY <3>1, <3>2, <3>3, <3>4
  <2>5. G(h) = [n \in 0..3 |-> IF n = 0 THEN depsPlan ELSE More(h[n - 1])]
    BY <1>2
  <2>6. h = G(h)
    <3> HIDE DEF G, More
    <3> QED BY <2>2, <2>4, <2>5
  <2> QED BY <2>6
<1>5. grown = G(grown)
  BY <1>4
<1>6. grown = [n \in 0..3 |-> IF n = 0 THEN depsPlan ELSE More(grown[n - 1])]
  BY <1>2, <1>5
<1> HIDE DEF grown
<1>7. \A n \in 0..3 : grown[n] = IF n = 0 THEN depsPlan ELSE More(grown[n - 1])
  BY <1>6
<1>8. grown[0] = depsPlan
  BY <1>7
<1>9. grown[1] = grown[0] \cup UNION {Deps!Required(a) : a \in grown[0] \cap depsLoaded}
  BY <1>7
<1>10. grown[1] \subseteq grown[2] /\ grown[2] \subseteq grown[3]
  <2>1. grown[2] = grown[1] \cup UNION {Deps!Required(a) : a \in grown[1] \cap depsLoaded}
    BY <1>7
  <2>2. grown[3] = grown[2] \cup UNION {Deps!Required(a) : a \in grown[2] \cap depsLoaded}
    BY <1>7
  <2> QED BY <2>1, <2>2
<1>11. grown[1] \subseteq Deps!Closure
  BY <1>1, <1>2, <1>10
<1>12. depsPlan \subseteq grown[1]
  BY <1>8, <1>9
<1>13. \A a \in depsPlan \cap depsLoaded : Deps!Required(a) \subseteq grown[1]
  BY <1>8, <1>9
<1> QED BY <1>11, <1>12, <1>13

\* The pass goes on, ends or is cancelled, an app goes, and the operator acts: no task moves.
LEMMA QuietKeeps ==
  ASSUME PassInv, Idling, depsLoaded' \subseteq depsLoaded, Had \subseteq Had',
         depsKnown' \subseteq PassApps, depsDesired' \subseteq PassApps,
         depsPlan' \subseteq PassApps,
         depsPhase' \in Deps!Phases, Accounted', Phased', Spared'
  PROVE  PassInv'
<1>1. TasksHold'
  BY TasksSame DEF PassInv, Idling
<1>2. PassShapes'
  BY DEF PassInv, PassShapes, Idling
<1>3. LoadedAfter'
  BY DEF PassInv, LoadedAfter, Idling
<1> QED BY <1>1, <1>2, <1>3 DEF PassInv

LEMMA InstallsDoneKeeps == ASSUME PassInv, Deps!InstallsDone PROVE PassInv'
<1>1. /\ depsPhase = "install" /\ depsMissing = {} /\ depsPhase' = "upgrade" /\ Idling
      /\ UNCHANGED <<depsKnown, depsDesired, depsPlan, depsMissing, depsDoomed, depsLoaded,
                     depsRemoved, depsFailed>>
  BY DEF Deps!InstallsDone, Deps!registry, Deps!pool, Idling
<1>2. Accounted' /\ Phased' /\ Spared'
  <2>1. Active' = Active
    BY <1>1 DEF Active, Idling
  <2>2. depsDoomed = {}
    BY <1>1 DEF PassInv, Phased
  <2>3. \A b \in depsPlan : \/ b \in depsLoaded \cup depsMissing \cup Active
                            \/ NeedsIn(depsDeps, b) \cap depsFailed # {}
    BY <1>1 DEF PassInv, Accounted
  <2> QED BY <1>1, <2>1, <2>2, <2>3 DEF Accounted, Phased, Spared, Idling
<1>3. /\ depsLoaded' \subseteq depsLoaded /\ Had \subseteq Had' /\ depsPhase' \in Deps!Phases
      /\ depsKnown' \subseteq PassApps /\ depsDesired' \subseteq PassApps
      /\ depsPlan' \subseteq PassApps
  BY <1>1 DEF Had, PassInv, PassShapes, Deps!Phases
<1> QED BY <1>1, <1>2, <1>3, QuietKeeps

LEMMA UpgradesDoneKeeps == ASSUME PassInv, Deps!UpgradesDone PROVE PassInv'
<1>1. /\ Deps!Running = {} /\ depsPhase' = "remove" /\ depsDoomed' = depsLoaded \ Deps!Closure
      /\ Idling
      /\ UNCHANGED <<depsKnown, depsDesired, depsPlan, depsMissing, depsLoaded, depsRemoved,
                     depsFailed>>
  BY DEF Deps!UpgradesDone, Deps!registry, Deps!pool, Idling
<1>2. Active' = {}
  BY <1>1 DEF Active, Deps!Running, PassApps, Idling
<1>3. Accounted' /\ Phased'
  BY <1>1, <1>2 DEF Accounted, Phased
<1>4. Spared'
  <2>1. ASSUME NEW a \in depsPlan \cap depsLoaded, NEW n \in 1..Len(depsDeps[a])
        PROVE  depsDeps[a][n] \notin depsLoaded \ Deps!Closure
    <3>1. a \in PassApps /\ depsDeps[a] \in Seq(PassApps)
      BY DEF PassInv, PassShapes
    <3>2. depsDeps[a][n] \in Deps!Required(a)
      BY <3>1 DEF Deps!Required
    <3> QED BY <3>2, ClosureHas DEF PassInv
  <2> QED BY <1>1, <2>1 DEF Spared, Idling
<1>5. /\ depsLoaded' \subseteq depsLoaded /\ Had \subseteq Had' /\ depsPhase' \in Deps!Phases
      /\ depsKnown' \subseteq PassApps /\ depsDesired' \subseteq PassApps
      /\ depsPlan' \subseteq PassApps
  BY <1>1 DEF Had, PassInv, PassShapes, Deps!Phases
<1> QED BY <1>1, <1>3, <1>4, <1>5, QuietKeeps

LEMMA RemovalsKeep ==
  ASSUME PassInv, NEW a \in PassApps, Deps!Remove(a) \/ Deps!RemoveFails(a) PROVE PassInv'
<1>1. /\ depsPhase = "remove" /\ depsDoomed # {} /\ depsDoomed' \subseteq depsDoomed /\ Idling
      /\ depsLoaded' \subseteq depsLoaded
      /\ depsLoaded \cup depsRemoved \subseteq depsLoaded' \cup depsRemoved'
      /\ UNCHANGED <<depsKnown, depsDesired, depsPlan, depsPhase, depsMissing>>
  BY DEF Deps!Remove, Deps!RemoveFails, Deps!registry, Deps!pool, Idling
<1>2. Active = {} /\ Active' = Active
  BY <1>1 DEF PassInv, Phased, Active, Idling
<1>3. Accounted' /\ Phased'
  BY <1>1, <1>2 DEF Accounted, Phased
<1>4. Spared'
  BY <1>1 DEF PassInv, Spared, Idling
<1>5. /\ Had \subseteq Had' /\ depsPhase' \in Deps!Phases
      /\ depsKnown' \subseteq PassApps /\ depsDesired' \subseteq PassApps
      /\ depsPlan' \subseteq PassApps
  BY <1>1 DEF Had, PassInv, PassShapes
<1> QED BY <1>1, <1>3, <1>4, <1>5, QuietKeeps

LEMMA EndPassKeeps == ASSUME PassInv, Deps!EndPass PROVE PassInv'
<1>1. /\ depsPhase = "remove" /\ depsPhase' = "idle" /\ depsDoomed = {} /\ depsPlan' = {}
      /\ Idling
      /\ UNCHANGED <<depsKnown, depsDesired, depsMissing, depsDoomed, depsLoaded, depsRemoved>>
  BY DEF Deps!EndPass, Deps!registry, Deps!pool, Idling
<1>2. Active = {} /\ Active' = Active
  BY <1>1 DEF PassInv, Phased, Active, Idling
<1>3. Accounted' /\ Phased' /\ Spared'
  BY <1>1, <1>2 DEF Accounted, Phased, Spared
<1>4. /\ depsLoaded' \subseteq depsLoaded /\ Had \subseteq Had' /\ depsPhase' \in Deps!Phases
      /\ depsKnown' \subseteq PassApps /\ depsDesired' \subseteq PassApps
      /\ depsPlan' \subseteq PassApps
  BY <1>1 DEF Had, PassInv, PassShapes, Deps!Phases
<1> QED BY <1>1, <1>3, <1>4, QuietKeeps

LEMMA CancelPassKeeps == ASSUME PassInv, Deps!CancelPass PROVE PassInv'
<1>1. /\ depsPhase' = "idle" /\ depsPlan' = {} /\ depsDoomed' = {}
      /\ depsStack' = [a \in PassApps |-> <<>>] /\ depsStep' = [a \in PassApps |-> "idle"]
      /\ depsLock' = [a \in PassApps |-> {}]
      /\ UNCHANGED <<depsDeps, depsKnown, depsDesired, depsLoaded, depsRemoved>>
  BY DEF Deps!CancelPass, Deps!registry, PassApps
<1>2. PassShapes'
  <2>1. depsStack' \in [PassApps -> Seq(Frames)]
    BY <1>1
  <2> QED BY <1>1, <2>1 DEF PassInv, PassShapes, Deps!Steps, Deps!Phases
<1>3. TasksHold'
  <2>1. \A t \in PassApps : depsStack'[t] = <<>> /\ depsStep'[t] = "idle"
    BY <1>1
  <2>2. \A t \in PassApps : \A d, k, L, G : Task(d, t, <<>>, "idle", k, L, G)
    BY IdleTask
  <2> QED BY <2>1, <2>2 DEF TasksHold
<1>4. LoadedAfter'
  BY <1>1 DEF PassInv, LoadedAfter, Had
<1>5. Active' = {}
  BY <1>1 DEF Active
<1>6. Accounted' /\ Phased' /\ Spared'
  BY <1>1, <1>5 DEF Accounted, Phased, Spared
<1> QED BY <1>2, <1>3, <1>4, <1>6 DEF PassInv

LEMMA OutsideKeeps ==
  ASSUME PassInv, \/ \E rows \in SUBSET depsKnown : Deps!Desire(rows)
                  \/ \E a \in PassApps : Deps!Bump(a)
  PROVE  PassInv'
<1>1. /\ depsDesired' \subseteq PassApps /\ Idling
      /\ UNCHANGED <<depsKnown, depsPlan, depsPhase, depsMissing, depsDoomed, depsLoaded,
                     depsRemoved, depsFailed>>
  BY DEF Deps!Desire, Deps!Bump, Deps!registry, Deps!pool, Idling, PassInv, PassShapes
<1>2. Active' = Active
  BY <1>1 DEF Active, Idling
<1>3. Accounted' /\ Phased' /\ Spared'
  BY <1>1, <1>2 DEF PassInv, Accounted, Phased, Spared, Idling
<1>4. /\ depsLoaded' \subseteq depsLoaded /\ Had \subseteq Had' /\ depsPhase' \in Deps!Phases
      /\ depsKnown' \subseteq PassApps /\ depsPlan' \subseteq PassApps
  BY <1>1 DEF Had, PassInv, PassShapes
<1> QED BY <1>1, <1>3, <1>4, QuietKeeps

LEMMA PassUninstallKeeps == ASSUME PassInv, NEW a \in PassApps, Deps!Uninstall(a) PROVE PassInv'
<1>1. /\ depsPhase = "idle" /\ depsDesired' \subseteq depsDesired /\ Idling
      /\ depsLoaded' \subseteq depsLoaded
      /\ depsLoaded \cup depsRemoved \subseteq depsLoaded' \cup depsRemoved'
      /\ UNCHANGED <<depsKnown, depsPlan, depsPhase, depsMissing, depsDoomed>>
  BY DEF Deps!Uninstall, Deps!pool, Idling
<1>2. Active = {} /\ Active' = Active /\ depsDoomed = {}
  BY <1>1 DEF PassInv, Phased, Active, Idling
<1>3. Accounted' /\ Phased' /\ Spared'
  BY <1>1, <1>2 DEF Accounted, Phased, Spared
<1>4. /\ Had \subseteq Had' /\ depsPhase' \in Deps!Phases
      /\ depsKnown' \subseteq PassApps /\ depsDesired' \subseteq PassApps
      /\ depsPlan' \subseteq PassApps
  BY <1>1 DEF Had, PassInv, PassShapes
<1> QED BY <1>1, <1>3, <1>4, QuietKeeps

LEMMA InitPass == ASSUME Deps!Init PROVE PassInv
<1>1. /\ depsDeps \in Manifests /\ depsKnown \subseteq PassApps
      /\ depsDesired \subseteq depsKnown
      /\ depsPlan = {} /\ depsDoomed = {} /\ depsPhase = "idle" /\ depsLoaded = {}
      /\ depsStack = [a \in PassApps |-> <<>>] /\ depsStep = [a \in PassApps |-> "idle"]
      /\ depsLock = [a \in PassApps |-> {}]
  BY DEF Deps!Init, PassApps
<1>2. depsDeps \in [PassApps -> Seq(PassApps)]
  BY <1>1, PassesAssumption DEF PassApps
<1>3. PassShapes
  <2>1. depsStack \in [PassApps -> Seq(Frames)]
    BY <1>1
  <2> QED BY <1>1, <1>2, <2>1 DEF PassShapes, Deps!Steps, Deps!Phases
<1>4. TasksHold
  <2>1. \A t \in PassApps : depsStack[t] = <<>> /\ depsStep[t] = "idle"
    BY <1>1
  <2>2. \A t \in PassApps : \A d, k, L, G : Task(d, t, <<>>, "idle", k, L, G)
    BY IdleTask
  <2> QED BY <2>1, <2>2 DEF TasksHold
<1>5. LoadedAfter /\ Accounted /\ Phased /\ Spared
  BY <1>1 DEF LoadedAfter, Accounted, Phased, Spared, Active
<1> QED BY <1>3, <1>4, <1>5 DEF PassInv

LEMMA PassStutter == ASSUME PassInv, UNCHANGED Deps!depVars PROVE PassInv'
<1>1. /\ Idling
      /\ UNCHANGED <<depsKnown, depsDesired, depsPlan, depsPhase, depsMissing, depsDoomed,
                     depsLoaded, depsRemoved, depsFailed>>
  BY DEF Deps!depVars, Idling
<1>2. Active' = Active
  BY <1>1 DEF Active, Idling
<1>3. Accounted' /\ Phased' /\ Spared'
  BY <1>1, <1>2 DEF PassInv, Accounted, Phased, Spared, Idling
<1>4. /\ depsLoaded' \subseteq depsLoaded /\ Had \subseteq Had' /\ depsPhase' \in Deps!Phases
      /\ depsKnown' \subseteq PassApps /\ depsDesired' \subseteq PassApps
      /\ depsPlan' \subseteq PassApps
  BY <1>1 DEF Had, PassInv, PassShapes
<1> QED BY <1>1, <1>3, <1>4, QuietKeeps

LEMMA StepPass == ASSUME PassInv, [Deps!Next]_(Deps!depVars) PROVE PassInv'
<1>1. CASE UNCHANGED Deps!depVars
  BY <1>1, PassStutter
<1>2. CASE \/ Deps!BeginPass \/ Deps!InstallsDone \/ Deps!UpgradesDone
           \/ Deps!EndPass \/ Deps!CancelPass
  BY <1>2, BeginPassKeeps, InstallsDoneKeeps, UpgradesDoneKeeps, EndPassKeeps, CancelPassKeeps
<1>3. ASSUME NEW a \in PassApps,
             \/ Deps!Submit(a) \/ Deps!Upgrade(a) \/ Deps!Remove(a) \/ Deps!RemoveFails(a)
             \/ Deps!Uninstall(a)
      PROVE  PassInv'
  BY <1>3, SubmitKeeps, UpgradeKeeps, RemovalsKeep, PassUninstallKeeps
<1>4. ASSUME NEW t \in PassApps, Deps!TaskStep(t) \/ Deps!InstallFails(t) PROVE PassInv'
  BY <1>4, TakeLockKeeps, RefusalsKeep, OnwardKeeps, DependencyKeeps, LoadKeeps
     DEF Deps!TaskStep
<1>5. CASE \/ \E rows \in SUBSET depsKnown : Deps!Desire(rows)
           \/ \E a \in PassApps : Deps!Bump(a)
  BY <1>5, OutsideKeeps
<1> QED BY <1>1, <1>2, <1>3, <1>4, <1>5 DEF Deps!Next, Deps!PassStep, PassApps

\* The four promises of a pass.
LEMMA PassPromises ==
  ASSUME PassInv
  PROVE  /\ Deps!DependenciesFirst /\ Deps!NothingNeededGoes
         /\ Deps!LoadedOnce /\ Deps!FailuresStayLocal
<1>1. \A a \in depsPlan : depsDeps[a] \in Seq(PassApps)
  BY DEF PassInv, PassShapes
<1>2. Deps!LoadedOnce
  <2> SUFFICES ASSUME NEW t \in PassApps, Deps!At(t, "load")
               PROVE  Deps!Top(t).app \notin depsLoaded
    BY DEF Deps!LoadedOnce, PassApps
  <2>1. depsStack[t] # <<>> /\ depsStep[t] = "load"
    BY DEF Deps!At
  <2> QED BY <2>1, Working DEF Task, Holds
<1>3. Deps!FailuresStayLocal
  <2> SUFFICES ASSUME depsPhase = "upgrade", Deps!Running = {}, NEW a \in depsPlan \ depsLoaded
               PROVE  Deps!Needs(a) \cap depsFailed # {}
    BY DEF Deps!FailuresStayLocal
  <2>1. Active = {} /\ depsMissing = {}
    BY DEF Active, Deps!Running, PassApps, PassInv, Phased
  <2>2. NeedsIn(depsDeps, a) \cap depsFailed # {}
    BY <2>1 DEF PassInv, Accounted
  <2> QED BY <2>2, NeedsAre
<1>4. Deps!NothingNeededGoes
  <2> SUFFICES ASSUME depsDoomed # {}, NEW a \in depsPlan \cap depsLoaded
               PROVE  depsDoomed \cap Deps!Required(a) = {}
    BY DEF Deps!NothingNeededGoes
  <2>1. \A n \in DOMAIN depsDeps[a] : depsDeps[a][n] \notin depsDoomed
    BY <1>1 DEF PassInv, Spared
  <2> QED BY <2>1 DEF Deps!Required
<1>5. Deps!DependenciesFirst
  <2> SUFFICES ASSUME NEW a \in depsLoaded
               PROVE  Deps!Required(a) \subseteq depsLoaded \cup depsRemoved
    BY DEF Deps!DependenciesFirst
  <2>1. \A n \in DOMAIN depsDeps[a] : depsDeps[a][n] \in Had
    BY DEF PassInv, LoadedAfter
  <2> QED BY <2>1 DEF Deps!Required, Had
<1> QED BY <1>2, <1>3, <1>4, <1>5

\* Only the passes' moves change their variables.
LEMMA DepsAlone == [Next]_vars => [Deps!Next]_(Deps!depVars)
<1>1. Next => DepsMoves \/ UNCHANGED depsVars
  BY SMT DEF Next, ConfigMoves, JobsMoves, MixedMoves, TwinsMoves, BoxesMoves, VpnMoves,
     SettingsMoves, TreesMoves, ToolsMoves, SeedsMoves, Unmoved
<1>2. UNCHANGED vars => UNCHANGED depsVars
  BY DEF vars
<1>3. UNCHANGED depsVars => UNCHANGED Deps!depVars
  BY DEF depsVars, Deps!depVars
<1> QED BY <1>1, <1>2, <1>3 DEF DepsMoves

\* For every set of manifests, in whichever order the tasks of a pass take their steps:
\* what an app requires is loaded before it, nothing that the plan needs goes, no task
\* loads an app twice, and a failure is that of the apps that require the one that failed.
THEOREM PassesKeepOrderHolds == Spec => []PassesKeepOrder
<1>1. Init => PassInv
  BY InitPass DEF Init
<1>2. PassInv /\ [Next]_vars => PassInv'
  BY DepsAlone, StepPass
<1>3. PassInv => PassesKeepOrder
  BY PassPromises DEF PassesKeepOrder
<1> QED BY <1>1, <1>2, <1>3, PTL DEF Spec

=============================================================================

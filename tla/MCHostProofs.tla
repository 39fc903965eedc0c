---------------------------- MODULE MCHostProofs ----------------------------
(***************************************************************************)
(* More proofs about MCComponents: the VPN profiles of the host, and what  *)
(* an app has there, its trees, the settings and containers it runs with,  *)
(* the rows it seeds and the tools that the gateway serves.  As in         *)
(* MCComponentsProofs, a component's invariant holds whichever component   *)
(* moves.                                                                  *)
(***************************************************************************)
EXTENDS MCComponents, FiniteSetTheorems, TLAPS

-----------------------------------------------------------------------------
(* VPN profiles.  SavedStaysIndexed is not inductive: that the index a writer *)
(* puts back is still the index needs the lock to be held by the one who read *)
(* it (Locking), and that a listing does not drop a kept profile's entry      *)
(* needs its file to be there (KeptOnDisk).                                   *)

VpnAssumption ==
  /\ None \notin Workers
  /\ None \notin Names
  /\ None \notin Vpn!Types
  /\ MaxOps \in Nat
  /\ MaxFaults \in Nat

-----------------------------------------------------------------------------
(* The inductive invariant *)

Steps == {"nothing", "save", "save index", "delete", "delete index", "list",
          "read", "up", "route", "record", "give up", "unroute", "down",
          "forget", "give up down", "measure"}

Indexes == [Names -> Vpn!Types \union {None}]

Records == [action : {"none", "connecting", "connect", "disconnect"},
            ok : BOOLEAN, profile : Names \union {None}]

RequestRecords == [do : Steps, name : Names \union {None},
                   type : Vpn!Types \union {None}, text : Texts \union {None},
                   seen : Indexes \union {None},
                   recorded : Records \union {None}]

Shapes ==
  /\ Vpn!TypeOK
  /\ vpnReq \in [Workers -> RequestRecords]
  /\ vpnDial \in Records

\* Steps on the store, and those of them that are taken under its lock.
Inside == {"save index", "delete index"}
StoreSteps == Inside \union {"save", "delete"}

\* What a request on the store carries.
Carries ==
  \A w \in Workers :
    /\ vpnReq[w].do \in StoreSteps => vpnReq[w].name \in Names
    /\ vpnReq[w].do \in {"save", "save index"} =>
         vpnReq[w].type \in Vpn!Types /\ vpnReq[w].text \in Texts /\ vpnReq[w].text # Vpn!NoFile

\* The lock is held by the one between its file and its index, and what that
\* one read is still the index.
Locking ==
  \A w \in Workers :
    /\ vpnReq[w].do \in Inside <=> vpnLock = w
    /\ vpnReq[w].do \in Inside => vpnReq[w].seen = vpnIndex

\* The half of a save, and of a delete, that is done.
HalfDone ==
  \A w \in Workers :
    /\ vpnReq[w].do = "save index" => vpnFiles[<<vpnReq[w].name, vpnReq[w].type>>] # Vpn!NoFile
    /\ vpnReq[w].do = "delete index" => vpnKept[vpnReq[w].name] = None

KeptOnDisk == \A n \in Names : vpnKept[n] # None => vpnFiles[<<n, vpnKept[n]>>] # Vpn!NoFile

StoreInv == Carries /\ Locking /\ HalfDone /\ KeptOnDisk /\ Vpn!SavedStaysIndexed

VpnInv == Shapes /\ StoreInv

-----------------------------------------------------------------------------
(* The initial state, and the steps that leave the store alone *)

LEMMA InitVpn == ASSUME VpnAssumption, Vpn!Init PROVE VpnInv
<1> USE DEF VpnAssumption, Vpn!Init
<1>1. Vpn!Idle \in RequestRecords
  BY DEF Vpn!Idle, Steps, RequestRecords
<1>2. Vpn!TypeOK
  <2>1. \A w \in Workers : vpnReq[w].do = "nothing"
    BY DEF Vpn!Idle
  <2>2. vpnOps \in 0..MaxOps /\ vpnFaults \in 0..MaxFaults
    OBVIOUS
  <2> QED BY <2>1, <2>2 DEF Vpn!TypeOK
<1>3. Shapes
  BY <1>1, <1>2 DEF Shapes, Records
<1>4. StoreInv
  BY DEF StoreInv, Carries, Locking, HalfDone, KeptOnDisk, Vpn!SavedStaysIndexed,
         Inside, StoreSteps, Vpn!Idle, Vpn!NoFile
<1> QED BY <1>3, <1>4 DEF VpnInv

\* One worker's request changes, and is outside the store before and after.
LEMMA Elsewhere ==
  ASSUME VpnInv, NEW w \in Workers, NEW r \in RequestRecords,
         vpnReq' = [vpnReq EXCEPT ![w] = r],
         vpnReq[w].do \notin StoreSteps, r.do \notin StoreSteps,
         UNCHANGED <<vpnLock, vpnFiles, vpnIndex, vpnKept>>
  PROVE  StoreInv'
<1> USE DEF VpnInv, StoreInv, Inside, StoreSteps
<1>1. /\ vpnReq'[w] = r
      /\ \A v \in Workers : v # w => vpnReq'[v] = vpnReq[v]
  BY DEF Shapes
<1>2. Carries'
  BY <1>1 DEF Carries
<1>3. Locking'
  BY <1>1 DEF Locking
<1>4. HalfDone'
  BY <1>1 DEF HalfDone
<1>5. KeptOnDisk'
  BY DEF KeptOnDisk
<1>6. Vpn!SavedStaysIndexed'
  <2> SUFFICES ASSUME NEW n \in Names, vpnKept[n] # None
               PROVE  \/ vpnIndex[n] = vpnKept[n]
                      \/ \E v \in Workers : vpnLock = v /\ vpnReq'[v].name = n
    BY DEF Vpn!SavedStaysIndexed
  <2>1. \A v \in Workers : vpnLock = v => v # w
    BY DEF Locking
  <2> QED BY <1>1, <2>1 DEF Vpn!SavedStaysIndexed
<1> QED BY <1>2, <1>3, <1>4, <1>5, <1>6

LEMMA FaultShape == ASSUME VpnAssumption, Shapes, Vpn!Fault PROVE vpnFaults' \in 0..MaxFaults
<1>1. vpnFaults \in 0..MaxFaults /\ vpnFaults < MaxFaults /\ vpnFaults' = vpnFaults + 1
  BY DEF Shapes, Vpn!TypeOK, Vpn!Fault
<1> QED BY <1>1 DEF VpnAssumption

\* A request that comes to an idle worker.
LEMMA RequestShape ==
  ASSUME VpnAssumption, Shapes, NEW w \in Workers, NEW r \in RequestRecords,
         Vpn!Request(w, r)
  PROVE  /\ vpnReq' \in [Workers -> RequestRecords]
         /\ vpnReq' = [vpnReq EXCEPT ![w] = r]
         /\ vpnReq[w].do = "nothing"
         /\ vpnOps' \in 0..MaxOps
<1>1. vpnReq[w].do = "nothing" /\ vpnReq' = [vpnReq EXCEPT ![w] = r]
  BY DEF Vpn!Request, Vpn!Idle
<1>2. vpnReq' \in [Workers -> RequestRecords]
  BY <1>1 DEF Shapes
<1>3. vpnOps' \in 0..MaxOps
  <2>1. vpnOps \in 0..MaxOps /\ vpnOps < MaxOps /\ vpnOps' = vpnOps + 1
    BY DEF Shapes, Vpn!TypeOK, Vpn!Request
  <2> QED BY <2>1 DEF VpnAssumption
<1> QED BY <1>1, <1>2, <1>3

\* A request that goes on to its next step, and one that is over.
LEMMA StepShape ==
  ASSUME Shapes, NEW w \in Workers
  PROVE  /\ \A s \in Steps : Vpn!Goes(w, s) =>
              \E r \in RequestRecords :
                 /\ r.do = s
                 /\ vpnReq' = [vpnReq EXCEPT ![w] = r]
                 /\ vpnReq' \in [Workers -> RequestRecords]
         /\ Vpn!Ends(w) =>
              /\ Vpn!Idle \in RequestRecords
              /\ Vpn!Idle.do = "nothing"
              /\ vpnReq' = [vpnReq EXCEPT ![w] = Vpn!Idle]
              /\ vpnReq' \in [Workers -> RequestRecords]
<1>1. Vpn!Idle \in RequestRecords /\ Vpn!Idle.do = "nothing"
  BY DEF Vpn!Idle, RequestRecords, Steps
<1>2. ASSUME NEW s \in Steps, Vpn!Goes(w, s)
      PROVE  \E r \in RequestRecords :
                 /\ r.do = s
                 /\ vpnReq' = [vpnReq EXCEPT ![w] = r]
                 /\ vpnReq' \in [Workers -> RequestRecords]
  <2> DEFINE r == [vpnReq[w] EXCEPT !.do = s]
  <2>1. r \in RequestRecords /\ r.do = s
    BY DEF Shapes, RequestRecords
  <2>2. vpnReq' = [vpnReq EXCEPT ![w] = r]
    BY <1>2 DEF Vpn!Goes, Shapes
  <2> HIDE DEF r
  <2>3. vpnReq' \in [Workers -> RequestRecords]
    BY <2>1, <2>2 DEF Shapes
  <2> QED BY <2>1, <2>2, <2>3
<1>3. Vpn!Ends(w) => vpnReq' = [vpnReq EXCEPT ![w] = Vpn!Idle]
                  /\ vpnReq' \in [Workers -> RequestRecords]
  BY <1>1 DEF Vpn!Ends, Shapes
<1> QED BY <1>1, <1>2, <1>3

-----------------------------------------------------------------------------
(* The store's steps *)

LEMMA SaveKeeps ==
  ASSUME VpnAssumption, VpnInv, NEW w \in Workers, NEW n \in Names,
         NEW t \in Texts, NEW type \in Vpn!Types, Vpn!Save(w, n, type, t)
  PROVE  VpnInv'
<1> DEFINE r == [Vpn!Idle EXCEPT !.do = "save", !.name = n, !.type = type, !.text = t]
<1>1. /\ r \in RequestRecords
      /\ r.do = "save" /\ r.name = n /\ r.type = type /\ r.text = t
  BY DEF Vpn!Idle, RequestRecords, Steps
<1> HIDE DEF r
<1>2. Vpn!Request(w, r) /\ t # Vpn!NoFile
  BY DEF Vpn!Save, Vpn!Validates, r
<1>3. /\ vpnReq' \in [Workers -> RequestRecords]
      /\ vpnReq' = [vpnReq EXCEPT ![w] = r]
      /\ vpnReq[w].do = "nothing"
      /\ vpnOps' \in 0..MaxOps
  BY <1>1, <1>2, RequestShape DEF VpnInv
<1>4. /\ vpnReq'[w] = r
      /\ \A v \in Workers : v # w => vpnReq'[v] = vpnReq[v]
  BY <1>3 DEF VpnInv, Shapes
<1>5. Shapes'
  BY <1>3 DEF Vpn!Save, VpnInv, Shapes, Vpn!TypeOK, RequestRecords, Steps
<1>6. StoreInv'
  <2> USE DEF VpnInv, StoreInv, Vpn!Save
  <2>1. Carries'
    BY <1>1, <1>2, <1>4 DEF Carries
  <2>2. Locking'
    BY <1>1, <1>3, <1>4 DEF Locking, Inside
  <2>3. HalfDone'
    BY <1>1, <1>4 DEF HalfDone
  <2>4. KeptOnDisk'
    BY DEF KeptOnDisk
  <2>5. Vpn!SavedStaysIndexed'
    BY <1>3, <1>4, <2>2 DEF Vpn!SavedStaysIndexed, Locking, Inside
  <2> QED BY <2>1, <2>2, <2>3, <2>4, <2>5
<1> QED BY <1>5, <1>6 DEF VpnInv

\* The file under the lock, and the index as it is then.
LEMMA SaveFileKeeps ==
  ASSUME VpnAssumption, VpnInv, NEW w \in Workers, Vpn!SaveFile(w)
  PROVE  VpnInv'
<1> USE DEF VpnInv, StoreInv
<1> DEFINE r == [vpnReq[w] EXCEPT !.do = "save index", !.seen = vpnIndex]
<1>1. vpnIndex \in Indexes
  BY DEF Shapes, Vpn!TypeOK, Indexes
<1>2. /\ r \in RequestRecords
      /\ r.do = "save index" /\ r.seen = vpnIndex
      /\ r.name = vpnReq[w].name /\ r.type = vpnReq[w].type /\ r.text = vpnReq[w].text
  BY <1>1 DEF Shapes, RequestRecords, Steps
<1>3. vpnReq' = [vpnReq EXCEPT ![w] = r]
  BY DEF Vpn!SaveFile, Shapes
<1> HIDE DEF r
<1>4. /\ vpnReq'[w] = r
      /\ \A v \in Workers : v # w => vpnReq'[v] = vpnReq[v]
      /\ vpnReq' \in [Workers -> RequestRecords]
  BY <1>2, <1>3 DEF Shapes
<1>5. /\ vpnReq[w].name \in Names /\ vpnReq[w].type \in Vpn!Types
      /\ vpnReq[w].text \in Texts /\ vpnReq[w].text # Vpn!NoFile
      /\ vpnLock = None /\ vpnLock' = w
      /\ \A v \in Workers : vpnReq[v].do \notin Inside
  BY DEF Vpn!SaveFile, Vpn!TakeLock, Carries, StoreSteps, Inside, Locking, VpnAssumption
<1>6. /\ vpnFiles' \in [Names \X Vpn!Types -> Texts \union {Vpn!NoFile}]
      /\ vpnFiles'[<<vpnReq[w].name, vpnReq[w].type>>] # Vpn!NoFile
      /\ \A f \in Names \X Vpn!Types : vpnFiles[f] # Vpn!NoFile => vpnFiles'[f] # Vpn!NoFile
  BY <1>5 DEF Vpn!SaveFile, Shapes, Vpn!TypeOK
<1>7. Shapes'
  BY <1>4, <1>5, <1>6 DEF Vpn!SaveFile, Shapes, Vpn!TypeOK, RequestRecords, Steps
<1>8. Carries'
  BY <1>2, <1>4, <1>5 DEF Carries
<1>9. Locking'
  BY <1>2, <1>4, <1>5 DEF Locking, Inside, Vpn!SaveFile
<1>10. HalfDone'
  BY <1>2, <1>4, <1>5, <1>6 DEF HalfDone, Inside, Vpn!SaveFile
<1>11. KeptOnDisk'
  BY <1>6 DEF KeptOnDisk, Vpn!SaveFile, Shapes, Vpn!TypeOK
<1>12. Vpn!SavedStaysIndexed'
  BY <1>5 DEF Vpn!SavedStaysIndexed, Vpn!SaveFile, VpnAssumption
<1> QED BY <1>7, <1>8, <1>9, <1>10, <1>11, <1>12

\* The index it read is still the index, but for the name it writes.
LEMMA SaveIndexKeeps ==
  ASSUME VpnAssumption, VpnInv, NEW w \in Workers, Vpn!SaveIndex(w)
  PROVE  VpnInv'
<1> USE DEF VpnInv, StoreInv
<1>1. /\ vpnReq[w].name \in Names /\ vpnReq[w].type \in Vpn!Types
      /\ vpnLock = w /\ vpnLock' = None
      /\ vpnReq[w].seen = vpnIndex
      /\ vpnFiles[<<vpnReq[w].name, vpnReq[w].type>>] # Vpn!NoFile
      /\ \A v \in Workers : v # w => vpnReq[v].do \notin Inside
  BY DEF Vpn!SaveIndex, Carries, StoreSteps, Inside, Locking, HalfDone
<1>2. /\ Vpn!Idle \in RequestRecords
      /\ Vpn!Idle.do = "nothing"
      /\ vpnReq' = [vpnReq EXCEPT ![w] = Vpn!Idle]
      /\ vpnReq' \in [Workers -> RequestRecords]
  BY StepShape DEF Vpn!SaveIndex
<1>3. /\ vpnReq'[w] = Vpn!Idle
      /\ \A v \in Workers : v # w => vpnReq'[v] = vpnReq[v]
  BY <1>2 DEF Shapes
<1>4. /\ vpnIndex' = [vpnIndex EXCEPT ![vpnReq[w].name] = vpnReq[w].type]
      /\ vpnKept' = [vpnKept EXCEPT ![vpnReq[w].name] = vpnReq[w].type]
  BY <1>1 DEF Vpn!SaveIndex
<1>5. Shapes'
  BY <1>1, <1>2, <1>4 DEF Vpn!SaveIndex, Shapes, Vpn!TypeOK, RequestRecords, Steps
<1>6. Carries'
  BY <1>2, <1>3 DEF Carries, StoreSteps, Inside
<1>7. Locking'
  BY <1>1, <1>2, <1>3 DEF Locking, Inside, VpnAssumption
<1>8. HalfDone'
  BY <1>1, <1>2, <1>3 DEF HalfDone, Inside
<1>9. KeptOnDisk'
  BY <1>1, <1>4 DEF KeptOnDisk, Vpn!SaveIndex, Shapes, Vpn!TypeOK
<1>10. Vpn!SavedStaysIndexed'
  BY <1>1, <1>4 DEF Vpn!SavedStaysIndexed, Shapes, Vpn!TypeOK
<1> QED BY <1>5, <1>6, <1>7, <1>8, <1>9, <1>10

LEMMA DeleteFileKeeps ==
  ASSUME VpnAssumption, VpnInv, NEW w \in Workers, Vpn!DeleteFile(w)
  PROVE  VpnInv'
<1> USE DEF VpnInv, StoreInv
<1>1. vpnReq[w].do = "delete" /\ vpnReq[w].name \in Names
  BY DEF Vpn!DeleteFile, Carries, StoreSteps
<1>2. CASE vpnIndex[vpnReq[w].name] = None
  <2>1. /\ Vpn!Idle \in RequestRecords
        /\ Vpn!Idle.do \notin StoreSteps
        /\ vpnReq' = [vpnReq EXCEPT ![w] = Vpn!Idle]
        /\ vpnReq' \in [Workers -> RequestRecords]
        /\ UNCHANGED <<vpnLock, vpnFiles, vpnIndex, vpnKept>>
    BY <1>2, StepShape DEF Vpn!DeleteFile, StoreSteps, Inside
  <2>2. vpnReq'[w] = Vpn!Idle /\ \A v \in Workers : v # w => vpnReq'[v] = vpnReq[v]
    BY <2>1 DEF Shapes
  <2>3. Shapes'
    BY <2>1 DEF Vpn!DeleteFile, Shapes, Vpn!TypeOK, RequestRecords, Steps
  <2>4. Carries'
    BY <2>1, <2>2 DEF Carries, StoreSteps, Inside
  <2>5. Locking' /\ HalfDone'
    BY <1>1, <2>1, <2>2 DEF Locking, HalfDone, StoreSteps, Inside
  <2>6. KeptOnDisk'
    BY <2>1 DEF KeptOnDisk
  <2>7. Vpn!SavedStaysIndexed'
    <3>1. \A v \in Workers : vpnLock = v => v # w
      BY <1>1 DEF Locking, Inside
    <3> QED BY <2>1, <2>2, <3>1 DEF Vpn!SavedStaysIndexed
  <2> QED BY <2>3, <2>4, <2>5, <2>6, <2>7
<1>3. CASE vpnIndex[vpnReq[w].name] # None
  <2> DEFINE r == [vpnReq[w] EXCEPT !.do = "delete index", !.seen = vpnIndex]
  <2>1. vpnIndex \in Indexes /\ vpnIndex[vpnReq[w].name] \in Vpn!Types
    BY <1>1, <1>3 DEF Shapes, Vpn!TypeOK, Indexes
  <2>2. /\ r \in RequestRecords
        /\ r.do = "delete index" /\ r.seen = vpnIndex /\ r.name = vpnReq[w].name
    BY <2>1 DEF Shapes, RequestRecords, Steps
  <2>3. vpnReq' = [vpnReq EXCEPT ![w] = r]
    BY <1>3 DEF Vpn!DeleteFile, Shapes
  <2> HIDE DEF r
  <2>4. /\ vpnReq'[w] = r
        /\ \A v \in Workers : v # w => vpnReq'[v] = vpnReq[v]
        /\ vpnReq' \in [Workers -> RequestRecords]
    BY <2>2, <2>3 DEF Shapes
  <2>5. /\ vpnLock = None /\ vpnLock' = w
        /\ \A v \in Workers : vpnReq[v].do \notin Inside
        /\ vpnFiles' =
             [vpnFiles EXCEPT ![<<vpnReq[w].name, vpnIndex[vpnReq[w].name]>>] = Vpn!NoFile]
        /\ vpnKept' = [vpnKept EXCEPT ![vpnReq[w].name] = None]
        /\ vpnIndex' = vpnIndex
    BY <1>3 DEF Vpn!DeleteFile, Vpn!TakeLock, Locking, VpnAssumption
  <2>6. Shapes'
    BY <1>1, <2>1, <2>4, <2>5 DEF Vpn!DeleteFile, Shapes, Vpn!TypeOK, RequestRecords, Steps
  <2>7. Carries'
    BY <1>1, <2>2, <2>4 DEF Carries
  <2>8. Locking'
    BY <2>2, <2>4, <2>5 DEF Locking, Inside
  <2>9. HalfDone'
    BY <1>1, <2>2, <2>4, <2>5 DEF HalfDone, Inside, Shapes, Vpn!TypeOK
  <2>10. KeptOnDisk'
    <3> SUFFICES ASSUME NEW n \in Names, vpnKept'[n] # None
                 PROVE  vpnFiles'[<<n, vpnKept'[n]>>] # Vpn!NoFile
      BY DEF KeptOnDisk
    <3>1. n # vpnReq[w].name /\ vpnKept'[n] = vpnKept[n]
      BY <1>1, <2>5 DEF Shapes, Vpn!TypeOK
    <3>2. <<n, vpnKept[n]>> \in Names \X Vpn!Types
      BY <3>1 DEF Shapes, Vpn!TypeOK
    <3>3. <<n, vpnKept[n]>> # <<vpnReq[w].name, vpnIndex[vpnReq[w].name]>>
      BY <3>1
    <3> QED BY <2>5, <3>1, <3>2, <3>3 DEF KeptOnDisk, Shapes, Vpn!TypeOK
  <2>11. Vpn!SavedStaysIndexed'
    BY <1>1, <2>5 DEF Vpn!SavedStaysIndexed, Shapes, Vpn!TypeOK, VpnAssumption
  <2> QED BY <2>6, <2>7, <2>8, <2>9, <2>10, <2>11
<1> QED BY <1>2, <1>3

LEMMA DeleteIndexKeeps ==
  ASSUME VpnAssumption, VpnInv, NEW w \in Workers, Vpn!DeleteIndex(w)
  PROVE  VpnInv'
<1> USE DEF VpnInv, StoreInv
<1>1. /\ vpnReq[w].name \in Names /\ vpnKept[vpnReq[w].name] = None
      /\ vpnLock = w /\ vpnLock' = None
      /\ vpnReq[w].seen = vpnIndex
      /\ \A v \in Workers : v # w => vpnReq[v].do \notin Inside
  BY DEF Vpn!DeleteIndex, Carries, StoreSteps, Inside, Locking, HalfDone
<1>2. /\ Vpn!Idle \in RequestRecords
      /\ Vpn!Idle.do = "nothing"
      /\ vpnReq' = [vpnReq EXCEPT ![w] = Vpn!Idle]
      /\ vpnReq' \in [Workers -> RequestRecords]
  BY StepShape DEF Vpn!DeleteIndex
<1>3. /\ vpnReq'[w] = Vpn!Idle
      /\ \A v \in Workers : v # w => vpnReq'[v] = vpnReq[v]
  BY <1>2 DEF Shapes
<1>4. /\ vpnIndex' = [vpnIndex EXCEPT ![vpnReq[w].name] = None]
      /\ vpnKept' = vpnKept /\ vpnFiles' = vpnFiles
  BY <1>1 DEF Vpn!DeleteIndex
<1>5. Shapes'
  BY <1>1, <1>2, <1>4 DEF Vpn!DeleteIndex, Shapes, Vpn!TypeOK, RequestRecords, Steps
<1>6. Carries'
  BY <1>2, <1>3 DEF Carries, StoreSteps, Inside
<1>7. Locking'
  BY <1>1, <1>2, <1>3 DEF Locking, Inside, VpnAssumption
<1>8. HalfDone'
  BY <1>1, <1>2, <1>3 DEF HalfDone, Inside
<1>9. KeptOnDisk'
  BY <1>4 DEF KeptOnDisk
<1>10. Vpn!SavedStaysIndexed'
  BY <1>1, <1>4 DEF Vpn!SavedStaysIndexed, Shapes, Vpn!TypeOK
<1> QED BY <1>5, <1>6, <1>7, <1>8, <1>9, <1>10

\* A listing drops no entry that has its file.
LEMMA ListKeeps ==
  ASSUME VpnAssumption, VpnInv, NEW w \in Workers, Vpn!List(w)
  PROVE  VpnInv'
<1> USE DEF VpnInv, StoreInv
<1>1. /\ UNCHANGED <<vpnLock, vpnFiles, vpnReq, vpnKept>>
      /\ vpnLock = None
      /\ vpnIndex' \in [Names -> Vpn!Types \union {None}]
      /\ \A v \in Workers : vpnReq[v].do \notin Inside
  BY DEF Vpn!List, Locking, VpnAssumption
<1>2. Shapes'
  <2>1. vpnOps \in 0..MaxOps /\ vpnOps < MaxOps /\ vpnOps' = vpnOps + 1
    BY DEF Vpn!List, Shapes, Vpn!TypeOK
  <2>2. vpnOps' \in 0..MaxOps
    BY <2>1 DEF VpnAssumption
  <2> QED BY <1>1, <2>2 DEF Vpn!List, Shapes, Vpn!TypeOK
<1>3. Carries' /\ Locking' /\ HalfDone' /\ KeptOnDisk'
  BY <1>1 DEF Carries, Locking, HalfDone, KeptOnDisk, Inside, StoreSteps
<1>4. Vpn!SavedStaysIndexed'
  <2> SUFFICES ASSUME NEW n \in Names, vpnKept[n] # None
               PROVE  vpnIndex'[n] = vpnKept[n]
    BY <1>1 DEF Vpn!SavedStaysIndexed
  <2>1. vpnIndex[n] = vpnKept[n]
    BY <1>1 DEF Vpn!SavedStaysIndexed, VpnAssumption
  <2>2. vpnKept[n] \in Vpn!OnDisk(n)
    BY DEF Vpn!OnDisk, KeptOnDisk, Shapes, Vpn!TypeOK
  <2> QED BY <2>1, <2>2 DEF Vpn!List
<1> QED BY <1>2, <1>3, <1>4

\* A death between the file and the index takes the promise with it.
LEMMA DiesKeeps ==
  ASSUME VpnAssumption, VpnInv, NEW w \in Workers, Vpn!Dies(w)
  PROVE  VpnInv'
<1> USE DEF VpnInv, StoreInv
<1>1. /\ Vpn!Idle \in RequestRecords
      /\ Vpn!Idle.do = "nothing"
      /\ vpnReq' = [vpnReq EXCEPT ![w] = Vpn!Idle]
      /\ vpnReq' \in [Workers -> RequestRecords]
  BY StepShape DEF Vpn!Dies
<1>2. /\ vpnReq'[w] = Vpn!Idle
      /\ \A v \in Workers : v # w => vpnReq'[v] = vpnReq[v]
  BY <1>1 DEF Shapes
<1>3. /\ vpnFiles' = vpnFiles /\ vpnIndex' = vpnIndex
      /\ vpnLock' = IF vpnLock = w THEN None ELSE vpnLock
      /\ \A n \in Names : vpnKept'[n] = vpnKept[n] \/ vpnKept'[n] = None
      /\ vpnKept' \in [Names -> Vpn!Types \union {None}]
  BY DEF Vpn!Dies, Shapes, Vpn!TypeOK
<1>4. Shapes'
  <2>1. vpnLock' \in Workers \union {None}
    BY <1>3 DEF Shapes, Vpn!TypeOK
  <2> QED BY <1>1, <1>3, <2>1, FaultShape
          DEF Vpn!Dies, Shapes, Vpn!TypeOK, RequestRecords, Steps
<1>5. Carries'
  BY <1>1, <1>2 DEF Carries, StoreSteps, Inside
<1>6. Locking'
  BY <1>1, <1>2, <1>3 DEF Locking, Inside, VpnAssumption
<1>7. HalfDone'
  BY <1>1, <1>2, <1>3 DEF HalfDone, Carries, StoreSteps, Inside
<1>8. KeptOnDisk'
  BY <1>3 DEF KeptOnDisk
<1>9. Vpn!SavedStaysIndexed'
  <2> SUFFICES ASSUME NEW n \in Names, vpnKept'[n] # None
               PROVE  \/ vpnIndex[n] = vpnKept[n]
                      \/ \E v \in Workers : vpnLock' = v /\ vpnReq'[v].name = n
    BY <1>3 DEF Vpn!SavedStaysIndexed
  <2>1. vpnKept[n] = vpnKept'[n]
    BY <1>3
  <2>2. CASE vpnLock = w /\ vpnReq[w].name = n
    <3>1. vpnReq[w].do = "delete index"
      BY <2>1, <2>2 DEF Vpn!Dies, Locking, Inside, Shapes, Vpn!TypeOK
    <3> QED BY <2>1, <2>2, <3>1 DEF HalfDone
  <2>3. CASE ~(vpnLock = w /\ vpnReq[w].name = n)
    BY <1>2, <1>3, <2>1, <2>3 DEF Vpn!SavedStaysIndexed
  <2> QED BY <2>2, <2>3
<1> QED BY <1>4, <1>5, <1>6, <1>7, <1>8, <1>9

-----------------------------------------------------------------------------
(* The dial's steps: none is on the store *)

\* A dial's or a status's request goes on: s is its next step.
LEMMA GoesKeeps ==
  ASSUME VpnInv, NEW w \in Workers, NEW s \in Steps \ StoreSteps, Vpn!Goes(w, s),
         vpnReq[w].do \notin StoreSteps, UNCHANGED <<vpnLock, vpnFiles, vpnIndex, vpnKept>>
  PROVE  StoreInv' /\ vpnReq' \in [Workers -> RequestRecords]
<1>1. PICK r \in RequestRecords : /\ r.do = s
                                  /\ vpnReq' = [vpnReq EXCEPT ![w] = r]
                                  /\ vpnReq' \in [Workers -> RequestRecords]
  BY StepShape DEF VpnInv
<1> QED BY <1>1, Elsewhere

LEMMA EndsKeeps ==
  ASSUME VpnInv, NEW w \in Workers, Vpn!Ends(w), vpnReq[w].do \notin StoreSteps,
         UNCHANGED <<vpnLock, vpnFiles, vpnIndex, vpnKept>>
  PROVE  StoreInv' /\ vpnReq' \in [Workers -> RequestRecords]
<1>1. /\ Vpn!Idle \in RequestRecords
      /\ Vpn!Idle.do \notin StoreSteps
      /\ vpnReq' = [vpnReq EXCEPT ![w] = Vpn!Idle]
      /\ vpnReq' \in [Workers -> RequestRecords]
  BY StepShape DEF VpnInv, StoreSteps, Inside
<1> QED BY <1>1, Elsewhere

LEMMA ComesKeeps ==
  ASSUME VpnAssumption, VpnInv, NEW w \in Workers, NEW r \in RequestRecords,
         Vpn!Request(w, r), r.do \notin StoreSteps,
         UNCHANGED <<vpnLock, vpnFiles, vpnIndex, vpnKept>>
  PROVE  StoreInv' /\ vpnReq' \in [Workers -> RequestRecords] /\ vpnOps' \in 0..MaxOps
<1>1. /\ vpnReq' \in [Workers -> RequestRecords]
      /\ vpnReq' = [vpnReq EXCEPT ![w] = r]
      /\ vpnReq[w].do = "nothing"
      /\ vpnOps' \in 0..MaxOps
  BY RequestShape DEF VpnInv
<1>2. vpnReq[w].do \notin StoreSteps
  BY <1>1 DEF StoreSteps, Inside
<1> QED BY <1>1, <1>2, Elsewhere

\* What a dial may change keeps its type.
DialShapes ==
  /\ vpnKeyFiles \in [Names -> Texts \union {Vpn!NoFile}]
  /\ vpnDial \in Records
  /\ vpnTunnel \in Names \union {None}
  /\ vpnRouted \in BOOLEAN
  /\ vpnOps \in 0..MaxOps
  /\ vpnFaults \in 0..MaxFaults

LEMMA OutsideTheStore ==
  ASSUME VpnInv, DialShapes', StoreInv', vpnReq' \in [Workers -> RequestRecords],
         UNCHANGED <<vpnLock, vpnFiles, vpnIndex, vpnKept>>
  PROVE  VpnInv'
<1>1. \A w \in Workers : vpnReq'[w].do \in Steps
  BY DEF RequestRecords
<1>2. Vpn!TypeOK'
  BY <1>1 DEF VpnInv, Shapes, Vpn!TypeOK, DialShapes, Steps, Records
<1> QED BY <1>2 DEF VpnInv, Shapes, DialShapes

LEMMA ConnectKeeps ==
  ASSUME VpnAssumption, VpnInv, NEW w \in Workers, NEW n \in Names, Vpn!Connect(w, n)
  PROVE  VpnInv'
<1> DEFINE r == [Vpn!Idle EXCEPT !.do = "read", !.name = n]
<1>1. r \in RequestRecords /\ r.do \notin StoreSteps
  BY DEF Vpn!Idle, RequestRecords, Steps, StoreSteps, Inside
<1>2. Vpn!Request(w, r) /\ UNCHANGED <<vpnLock, vpnFiles, vpnIndex, vpnKept>>
  BY DEF Vpn!Connect
<1> HIDE DEF r
<1>3. StoreInv' /\ vpnReq' \in [Workers -> RequestRecords] /\ vpnOps' \in 0..MaxOps
  BY <1>1, <1>2, ComesKeeps
<1>4. DialShapes'
  BY <1>3 DEF Vpn!Connect, VpnInv, Shapes, Vpn!TypeOK, DialShapes, Records
<1> QED BY <1>2, <1>3, <1>4, OutsideTheStore

LEMMA DisconnectKeeps ==
  ASSUME VpnAssumption, VpnInv, NEW w \in Workers, Vpn!Disconnect(w)
  PROVE  VpnInv'
<1> DEFINE named == IF vpnDial.action = "connect" /\ vpnDial.ok THEN vpnDial.profile ELSE None
           r == [Vpn!Idle EXCEPT !.do = "unroute", !.name = named]
<1>1. r \in RequestRecords /\ r.do \notin StoreSteps
  <2>1. named \in Names \union {None}
    BY DEF VpnInv, Shapes, Records
  <2> HIDE DEF named
  <2> QED BY <2>1 DEF Vpn!Idle, RequestRecords, Steps, StoreSteps, Inside
<1>2. Vpn!Request(w, r) /\ UNCHANGED <<vpnLock, vpnFiles, vpnIndex, vpnKept>>
  BY DEF Vpn!Disconnect
<1> HIDE DEF r
<1>3. StoreInv' /\ vpnReq' \in [Workers -> RequestRecords] /\ vpnOps' \in 0..MaxOps
  BY <1>1, <1>2, ComesKeeps
<1>4. DialShapes'
  BY <1>3 DEF Vpn!Disconnect, VpnInv, Shapes, Vpn!TypeOK, DialShapes
<1> QED BY <1>2, <1>3, <1>4, OutsideTheStore

LEMMA StatusKeeps ==
  ASSUME VpnAssumption, VpnInv, NEW w \in Workers, Vpn!Status(w)
  PROVE  VpnInv'
<1> DEFINE r == [Vpn!Idle EXCEPT !.do = "measure", !.recorded = vpnDial]
<1>1. r \in RequestRecords /\ r.do \notin StoreSteps
  BY DEF Vpn!Idle, RequestRecords, Steps, StoreSteps, Inside, VpnInv, Shapes
<1>2. Vpn!Request(w, r) /\ UNCHANGED <<vpnLock, vpnFiles, vpnIndex, vpnKept>>
  BY DEF Vpn!Status
<1> HIDE DEF r
<1>3. StoreInv' /\ vpnReq' \in [Workers -> RequestRecords] /\ vpnOps' \in 0..MaxOps
  BY <1>1, <1>2, ComesKeeps
<1>4. DialShapes'
  BY <1>3 DEF Vpn!Status, VpnInv, Shapes, Vpn!TypeOK, DialShapes
<1> QED BY <1>2, <1>3, <1>4, OutsideTheStore

LEMMA DeleteKeeps ==
  ASSUME VpnAssumption, VpnInv, NEW w \in Workers, NEW n \in Names, Vpn!Delete(w, n)
  PROVE  VpnInv'
<1> USE DEF VpnInv, StoreInv
<1> DEFINE r == [Vpn!Idle EXCEPT !.do = "delete", !.name = n]
<1>1. r \in RequestRecords /\ r.do = "delete" /\ r.name = n
  BY DEF Vpn!Idle, RequestRecords, Steps
<1>2. Vpn!Request(w, r) /\ UNCHANGED <<vpnLock, vpnFiles, vpnIndex, vpnKept>>
  BY DEF Vpn!Delete
<1> HIDE DEF r
<1>3. /\ vpnReq' \in [Workers -> RequestRecords]
      /\ vpnReq' = [vpnReq EXCEPT ![w] = r]
      /\ vpnReq[w].do = "nothing"
      /\ vpnOps' \in 0..MaxOps
  BY <1>1, <1>2, RequestShape
<1>4. vpnReq'[w] = r /\ \A v \in Workers : v # w => vpnReq'[v] = vpnReq[v]
  BY <1>3 DEF Shapes
<1>5. DialShapes'
  BY <1>3 DEF Vpn!Delete, Shapes, Vpn!TypeOK, DialShapes
<1>6. Carries'
  BY <1>1, <1>4 DEF Carries
<1>7. Locking' /\ HalfDone' /\ KeptOnDisk'
  BY <1>1, <1>2, <1>3, <1>4 DEF Locking, HalfDone, KeptOnDisk, Inside
<1>8. Vpn!SavedStaysIndexed'
  <2>1. \A v \in Workers : vpnLock = v => v # w
    BY <1>3 DEF Locking, Inside
  <2> QED BY <1>2, <1>4, <2>1 DEF Vpn!SavedStaysIndexed
<1> QED BY <1>2, <1>3, <1>5, <1>6, <1>7, <1>8, OutsideTheStore

LEMMA DialKeeps ==
  ASSUME VpnAssumption, VpnInv, NEW w \in Workers,
         \/ Vpn!ReadFields(w) \/ Vpn!Up(w) \/ Vpn!Route(w) \/ Vpn!Connected(w)
         \/ Vpn!Unroute(w) \/ Vpn!Down(w) \/ Vpn!Disconnected(w) \/ Vpn!Measure(w)
  PROVE  VpnInv'
<1>1. /\ vpnReq[w].do \notin StoreSteps
      /\ UNCHANGED <<vpnLock, vpnFiles, vpnIndex, vpnKept, vpnOps>>
  BY DEF Vpn!ReadFields, Vpn!Up, Vpn!Route, Vpn!Connected, Vpn!Unroute, Vpn!Down,
     Vpn!Disconnected, Vpn!Measure,
         StoreSteps, Inside
<1>2. \/ Vpn!Goes(w, "up") \/ Vpn!Goes(w, "give up") \/ Vpn!Goes(w, "route")
      \/ Vpn!Goes(w, "record") \/ Vpn!Goes(w, "down") \/ Vpn!Goes(w, "give up down")
      \/ Vpn!Goes(w, "forget") \/ Vpn!Ends(w)
  BY DEF Vpn!ReadFields, Vpn!Up, Vpn!Route, Vpn!Connected, Vpn!Unroute, Vpn!Down,
     Vpn!Disconnected, Vpn!Measure
<1>3. StoreInv' /\ vpnReq' \in [Workers -> RequestRecords]
  <2>1. {"up", "give up", "route", "record", "down", "give up down", "forget"}
          \subseteq Steps \ StoreSteps
    BY DEF Steps, StoreSteps, Inside
  <2> QED BY <1>1, <1>2, <2>1, GoesKeeps, EndsKeeps
<1>4. vpnFaults' \in 0..MaxFaults
  <2>1. Vpn!Fault \/ UNCHANGED vpnFaults
    BY DEF Vpn!ReadFields, Vpn!Up, Vpn!Route, Vpn!Connected, Vpn!Unroute, Vpn!Down,
       Vpn!Disconnected, Vpn!Measure
  <2> QED BY <2>1, FaultShape DEF VpnInv, Shapes, Vpn!TypeOK
<1>5. vpnReq[w].name \in Names \union {None}
  BY DEF VpnInv, Shapes, RequestRecords
<1>6. vpnTunnel' \in Names \union {None} /\ vpnRouted' \in BOOLEAN
  <2>1. CASE Vpn!Up(w)
    <3>1. vpnTunnel' \in {vpnTunnel, vpnReq[w].name}
      BY <2>1 DEF Vpn!Up
    <3> QED BY <1>5, <2>1, <3>1 DEF Vpn!Up, VpnInv, Shapes, Vpn!TypeOK
  <2>2. CASE Vpn!Down(w)
    <3>1. vpnTunnel' \in {vpnTunnel, None}
      BY <2>2 DEF Vpn!Down
    <3> QED BY <2>2, <3>1 DEF Vpn!Down, VpnInv, Shapes, Vpn!TypeOK
  <2>3. CASE ~Vpn!Up(w) /\ ~Vpn!Down(w)
    BY <2>3 DEF Vpn!ReadFields, Vpn!Route, Vpn!Connected, Vpn!Unroute, Vpn!Disconnected,
       Vpn!Measure,
                VpnInv, Shapes, Vpn!TypeOK
  <2> QED BY <2>1, <2>2, <2>3
<1>7. vpnKeyFiles' \in [Names -> Texts \union {Vpn!NoFile}]
  <2>1. CASE Vpn!ReadFields(w) /\ Vpn!Dialable(vpnReq[w].name)
    <3>1. vpnKeyFiles' = [vpnKeyFiles EXCEPT ![vpnReq[w].name] =
                          vpnFiles[<<vpnReq[w].name, "wireguard">>]]
      BY <2>1 DEF Vpn!ReadFields
    <3>2. \A n \in Names : vpnFiles[<<n, "wireguard">>] \in Texts \union {Vpn!NoFile}
      BY DEF VpnInv, Shapes, Vpn!TypeOK, Vpn!Types
    <3> QED BY <3>1, <3>2 DEF VpnInv, Shapes, Vpn!TypeOK
  <2>2. CASE Vpn!Disconnected(w)
    BY <2>2 DEF Vpn!Disconnected, VpnInv, Shapes, Vpn!TypeOK
  <2>3. CASE ~Vpn!Disconnected(w) /\ ~(Vpn!ReadFields(w) /\ Vpn!Dialable(vpnReq[w].name))
    BY <2>3 DEF Vpn!ReadFields, Vpn!Up, Vpn!Route, Vpn!Connected, Vpn!Unroute, Vpn!Down,
       Vpn!Measure,
                VpnInv, Shapes, Vpn!TypeOK
  <2> QED BY <2>1, <2>2, <2>3
<1>8. vpnDial' \in Records
  <2>1. CASE Vpn!Connected(w)
    BY <1>5, <2>1 DEF Vpn!Connected, Records
  <2>2. CASE Vpn!Disconnected(w)
    BY <2>2 DEF Vpn!Disconnected, Records
  <2>3. CASE ~Vpn!Connected(w) /\ ~Vpn!Disconnected(w)
    BY <2>3 DEF Vpn!ReadFields, Vpn!Up, Vpn!Route, Vpn!Unroute, Vpn!Down, Vpn!Measure,
       VpnInv, Shapes
  <2> QED BY <2>1, <2>2, <2>3
<1>9. DialShapes'
  BY <1>1, <1>4, <1>6, <1>7, <1>8 DEF DialShapes, VpnInv, Shapes, Vpn!TypeOK
<1> QED BY <1>1, <1>3, <1>9, OutsideTheStore

\* A file dropped by hand fills an empty place; the host's switch leaves the
\* store alone.
LEMMA DroppedKeeps ==
  ASSUME VpnAssumption, VpnInv, NEW n \in Names, NEW t \in Texts, Vpn!Dropped(n, t)
  PROVE  VpnInv'
<1> USE DEF VpnInv, StoreInv
<1>1. /\ vpnFiles' \in [Names \X Vpn!Types -> Texts \union {Vpn!NoFile}]
      /\ \A f \in Names \X Vpn!Types : vpnFiles[f] # Vpn!NoFile => vpnFiles'[f] # Vpn!NoFile
      /\ UNCHANGED <<vpnLock, vpnIndex, vpnReq, vpnKeyFiles, vpnDial, vpnTunnel, vpnRouted,
                     vpnKept, vpnOps>>
  BY DEF Vpn!Dropped, Shapes, Vpn!TypeOK
<1>2. Shapes'
  BY <1>1, FaultShape DEF Vpn!Dropped, Shapes, Vpn!TypeOK
<1>3. Carries' /\ Locking' /\ Vpn!SavedStaysIndexed'
  BY <1>1 DEF Carries, Locking, Vpn!SavedStaysIndexed
<1>4. HalfDone'
  BY <1>1 DEF HalfDone, Carries, StoreSteps, Inside
<1>5. KeptOnDisk'
  BY <1>1 DEF KeptOnDisk, Shapes, Vpn!TypeOK
<1> QED BY <1>2, <1>3, <1>4, <1>5

LEMMA RevertsKeeps == ASSUME VpnAssumption, VpnInv, Vpn!Reverts PROVE VpnInv'
<1>1. UNCHANGED <<vpnLock, vpnFiles, vpnIndex, vpnReq, vpnKept>>
  BY DEF Vpn!Reverts
<1>2. StoreInv' /\ vpnReq' \in [Workers -> RequestRecords]
  BY <1>1 DEF VpnInv, Shapes, StoreInv, Carries, Locking, HalfDone, KeptOnDisk,
              Vpn!SavedStaysIndexed
<1>3. DialShapes'
  BY FaultShape DEF Vpn!Reverts, VpnInv, Shapes, Vpn!TypeOK, DialShapes
<1> QED BY <1>1, <1>2, <1>3, OutsideTheStore

-----------------------------------------------------------------------------
(* The theorems *)

LEMMA StepVpn == ASSUME VpnAssumption, VpnInv, [Vpn!Next]_(Vpn!vpnVars) PROVE VpnInv'
<1>1. CASE UNCHANGED Vpn!vpnVars
  BY <1>1 DEF Vpn!vpnVars, VpnInv, Shapes, Vpn!TypeOK, StoreInv, Carries, Locking, HalfDone,
              KeptOnDisk, Vpn!SavedStaysIndexed
<1>2. ASSUME NEW w \in Workers, NEW n \in Names, NEW t \in Texts, Vpn!Import(w, n, t)
      PROVE  VpnInv'
  BY <1>2, SaveKeeps DEF Vpn!Import, Vpn!Types
<1>3. CASE Vpn!Next
  BY <1>1, <1>2, <1>3, SaveKeeps, SaveFileKeeps, SaveIndexKeeps, DeleteKeeps,
     DeleteFileKeeps, DeleteIndexKeeps, ListKeeps, ConnectKeeps, DisconnectKeeps,
     StatusKeeps, DialKeeps, DiesKeeps, DroppedKeeps, RevertsKeeps DEF Vpn!Next, Vpn!Done
<1> QED BY <1>1, <1>3

\* VpnInv holds in every reachable state.
THEOREM VpnCorrect == ASSUME VpnAssumption PROVE Vpn!Spec => []VpnInv
<1>1. Vpn!Init => VpnInv
  BY InitVpn
<1>2. VpnInv /\ [Vpn!Next]_(Vpn!vpnVars) => VpnInv'
  BY StepVpn
<1> QED BY <1>1, <1>2, PTL DEF Vpn!Spec

\* The store, the requests and the dial's record keep their types.
THEOREM VpnTypeCorrect == ASSUME VpnAssumption PROVE Vpn!Spec => []Vpn!TypeOK
<1>1. VpnInv => Vpn!TypeOK
  BY DEF VpnInv, Shapes
<1> QED BY <1>1, VpnCorrect, PTL

\* A profile whose save was answered stays in the index whatever other workers
\* save, delete or list and wherever one of them dies: _locked() and the
\* reconciliation of list_configs lose no update.
THEOREM SavedStays == ASSUME VpnAssumption PROVE Vpn!Spec => []Vpn!SavedStaysIndexed
<1>1. VpnInv => Vpn!SavedStaysIndexed
  BY DEF VpnInv, StoreInv
<1> QED BY <1>1, VpnCorrect, PTL

-----------------------------------------------------------------------------
(* What is dialled *)

\* connect() reads the profile through the parser before it writes the host's copy; every
\* other step leaves the copies alone, and disconnect() takes one away.
LEMMA DialStep ==
  ASSUME VpnAssumption, VpnInv, Vpn!DialsOnlyAccepted, [Vpn!Next]_(Vpn!vpnVars)
  PROVE  Vpn!DialsOnlyAccepted'
<1>1. CASE UNCHANGED vpnKeyFiles
  BY <1>1 DEF Vpn!DialsOnlyAccepted
<1>2. ASSUME NEW w \in Workers, Vpn!ReadFields(w), ~UNCHANGED vpnKeyFiles
      PROVE  Vpn!DialsOnlyAccepted'
  <2>1. PICK text : /\ text = vpnFiles[<<vpnReq[w].name, "wireguard">>] /\ Vpn!Parses(text)
                    /\ vpnKeyFiles' = [vpnKeyFiles EXCEPT ![vpnReq[w].name] = text]
    BY <1>2 DEF Vpn!ReadFields, Vpn!Dialable
  <2>2. text # Vpn!NoFile
    BY <2>1 DEF Vpn!Parses, Vpn!Walks, Vpn!NoFile
  <2>3. Vpn!Validates("wireguard", text) /\ \A i \in DOMAIN text : text[i] # "hook"
    BY <2>1, <2>2 DEF Vpn!Parses, Vpn!Walks, Vpn!Validates
  <2>4. \A i, j \in Vpn!Peers(text) : i = j
    BY <2>1 DEF Vpn!Parses, Vpn!KeysOf
  <2>5. \A n \in Names : vpnKeyFiles'[n] = text \/ vpnKeyFiles'[n] = vpnKeyFiles[n]
    BY <2>1 DEF VpnInv, Shapes, Vpn!TypeOK
  <2> QED BY <2>3, <2>4, <2>5 DEF Vpn!DialsOnlyAccepted
<1>3. ASSUME NEW w \in Workers, Vpn!Disconnected(w)
      PROVE  Vpn!DialsOnlyAccepted'
  <2>1. \A n \in Names : vpnKeyFiles'[n] = Vpn!NoFile \/ vpnKeyFiles'[n] = vpnKeyFiles[n]
    BY <1>3 DEF Vpn!Disconnected, VpnInv, Shapes, Vpn!TypeOK
  <2> QED BY <2>1 DEF Vpn!DialsOnlyAccepted
<1>4. ASSUME ~UNCHANGED vpnKeyFiles
      PROVE  \E w \in Workers : Vpn!ReadFields(w) \/ Vpn!Disconnected(w)
  BY <1>4 DEF Vpn!Next, Vpn!vpnVars, Vpn!Import, Vpn!Save, Vpn!SaveFile, Vpn!SaveIndex,
     Vpn!Delete, Vpn!DeleteFile, Vpn!DeleteIndex,
     Vpn!List, Vpn!Connect, Vpn!Up, Vpn!Route, Vpn!Connected, Vpn!Disconnect, Vpn!Unroute,
     Vpn!Down, Vpn!Status, Vpn!Measure, Vpn!Dies,
     Vpn!Dropped, Vpn!Reverts, Vpn!Done
<1> QED BY <1>1, <1>2, <1>3, <1>4

\* connect() of dialer.py: no hook and no second peer ever reaches the host, also from a
\* profile that was dropped into the directory by hand.
THEOREM DialsOnlyAcceptedHolds == ASSUME VpnAssumption PROVE Vpn!Spec => []Vpn!DialsOnlyAccepted
<1>1. Vpn!Init => Vpn!DialsOnlyAccepted
  BY DEF Vpn!Init, Vpn!DialsOnlyAccepted
<1>2. VpnInv /\ Vpn!DialsOnlyAccepted /\ [Vpn!Next]_(Vpn!vpnVars) => Vpn!DialsOnlyAccepted'
  BY DialStep
<1>3. Vpn!Spec => []VpnInv
  BY VpnCorrect
<1> QED BY <1>1, <1>2, <1>3, PTL DEF Vpn!Spec

-----------------------------------------------------------------------------
(* The profiles, among the components *)

ProfilesInv == VpnInv /\ Vpn!DialsOnlyAccepted

LEMMA VpnAssumed == VpnAssumption
BY ProfilesAssumption, BoundsAssumption DEF VpnAssumption, Vpn!Types

LEMMA InitProfiles == Init => ProfilesInv
<1>1. Init => Vpn!Init
  BY DEF Init
<1>2. Vpn!Init => Vpn!DialsOnlyAccepted
  BY DEF Vpn!Init, Vpn!DialsOnlyAccepted
<1> QED BY <1>1, <1>2, VpnAssumed, InitVpn DEF ProfilesInv

\* Only the dialer's own moves change its variables.
LEMMA DialerAlone == [Next]_vars => [Vpn!Next]_(Vpn!vpnVars)
<1>1. Next => VpnMoves \/ UNCHANGED vpnVars
  BY SMT DEF Next, ConfigMoves, JobsMoves, MixedMoves, TwinsMoves, BoxesMoves,
     SettingsMoves, TreesMoves, DepsMoves, ToolsMoves, SeedsMoves, Unmoved
<1>2. UNCHANGED vars => UNCHANGED vpnVars
  BY DEF vars
<1>3. UNCHANGED vpnVars => UNCHANGED Vpn!vpnVars
  BY DEF vpnVars, Vpn!vpnVars
<1> QED BY <1>1, <1>2, <1>3 DEF VpnMoves

\* ProfilesAsSaved, the dialer's part: a VPN profile that was saved stays in the index
\* through other workers' saves, deletes, lists and deaths, and what the host dials is a
\* profile both rules accept, for any workers and names (_locked and _validate_wireguard
\* of vpn/profiles.py).
THEOREM ProfilesAsSavedHolds == Spec => []ProfilesAsSaved
<1>1. Init => ProfilesInv
  BY InitProfiles
<1>2. ProfilesInv /\ [Next]_vars => ProfilesInv'
  BY DialerAlone, VpnAssumed, StepVpn, DialStep DEF ProfilesInv
<1>3. ProfilesInv => ProfilesAsSaved
  BY DEF ProfilesInv, ProfilesAsSaved, VpnInv, StoreInv
<1> QED BY <1>1, <1>2, <1>3, PTL DEF Spec

-----------------------------------------------------------------------------
(* The trees and the volumes of a container app, for two users of its data.   *)
(* Until the container is registered nothing of the app is; what is           *)
(* registered stands on the tree of its own version (OnTree), mounts a whole  *)
(* checkout (OnCheckout), and who is taken for the owner of its data is       *)
(* (OwnerKnown).                                                              *)

LEMMA TwoSubsets == ASSUME NEW s \in SUBSET (1..2) PROVE s \in {{}, {1}, {2}, 1..2}
<1>1. 1 \in s \/ 1 \notin s
  OBVIOUS
<1>2. s \subseteq {1, 2} /\ 1..2 = {1, 2}
  BY SMT
<1>3. CASE 1 \in s /\ 2 \in s
  BY <1>2, <1>3, s = {1, 2}
<1>4. CASE 1 \in s /\ 2 \notin s
  BY <1>2, <1>4, s = {1}
<1>5. CASE 1 \notin s /\ 2 \in s
  BY <1>2, <1>5, s = {2}
<1>6. CASE 1 \notin s /\ 2 \notin s
  BY <1>2, <1>6, s = {}
<1> QED BY <1>3, <1>4, <1>5, <1>6

\* The recursion of the fold, for two users.
LEMMA FoldOfTwo ==
  ASSUME NEW f \in [1..2 -> Nat],
         NEW iter,
         iter = [s \in SUBSET (1..2) |->
                   IF s = {} THEN 0
                   ELSE f[CHOOSE x \in s : TRUE] + iter[s \ {CHOOSE x \in s : TRUE}]]
  PROVE  iter[1..2] = f[1] + f[2]
<1> DEFINE c(s) == CHOOSE x \in s : TRUE
<1>1. c({1}) = 1 /\ c({2}) = 2 /\ c(1..2) \in 1..2
  OBVIOUS
<1>2. iter[{}] = 0
  OBVIOUS
<1>3. iter[{1}] = f[1] + iter[{}] /\ iter[{2}] = f[2] + iter[{}]
  <2>1. {1} \ {c({1})} = {} /\ {2} \ {c({2})} = {}
    BY <1>1
  <2> QED BY <2>1, <1>1
<1>4. iter[1..2] = f[c(1..2)] + iter[(1..2) \ {c(1..2)}]
  OBVIOUS
<1>5. (1..2) \ {1} = {2} /\ (1..2) \ {2} = {1} /\ 1..2 = {1, 2}
  OBVIOUS
<1> HIDE DEF c
<1>6. CASE c(1..2) = 1
  BY <1>2, <1>3, <1>4, <1>5, <1>6
<1>7. CASE c(1..2) = 2
  BY <1>2, <1>3, <1>4, <1>5, <1>7
<1> QED BY <1>1, <1>5, <1>6, <1>7

LEMMA FoldExists ==
  ASSUME NEW f \in [1..2 -> Nat]
  PROVE  \E iter : iter = [s \in SUBSET (1..2) |->
                   IF s = {} THEN 0
                   ELSE f[CHOOSE x \in s : TRUE] + iter[s \ {CHOOSE x \in s : TRUE}]]
<1> DEFINE c(s) == CHOOSE x \in s : TRUE
           v(s) == IF s = {} THEN 0
                   ELSE IF s = {1} THEN f[1]
                   ELSE IF s = {2} THEN f[2] ELSE f[1] + f[2]
           g == [s \in SUBSET (1..2) |-> v(s)]
           h == [s \in SUBSET (1..2) |-> IF s = {} THEN 0 ELSE f[c(s)] + g[s \ {c(s)}]]
<1>1. c({1}) = 1 /\ c({2}) = 2 /\ c(1..2) \in 1..2
  OBVIOUS
<1>2. \A s \in SUBSET (1..2) : g[s] = v(s) /\ s \ {c(s)} \in SUBSET (1..2)
  OBVIOUS
<1>3. f[1] \in Nat /\ f[2] \in Nat /\ 1..2 = {1, 2}
  OBVIOUS
<1>4. v({}) = 0 /\ v({1}) = f[1] /\ v({2}) = f[2] /\ v(1..2) = f[1] + f[2]
  <2>1. 1 \in 1..2 /\ 2 \in 1..2
    OBVIOUS
  <2>2. {1} # {} /\ {2} # {} /\ {1} # {2} /\ 1..2 # {} /\ 1..2 # {1} /\ 1..2 # {2}
    BY <2>1
  <2> QED BY <2>2
<1> HIDE DEF v, g, c
<1>5. ASSUME NEW s \in SUBSET (1..2), s # {}
      PROVE  v(s) = f[c(s)] + g[s \ {c(s)}]
  <2>0. {} \in SUBSET (1..2) /\ {1} \in SUBSET (1..2) /\ {2} \in SUBSET (1..2)
    OBVIOUS
  <2>1. CASE s = {1}
    <3>1. s \ {c(s)} = {}
      BY <1>1, <2>1
    <3>2. g[s \ {c(s)}] = 0
      BY <3>1, <2>0, <1>2, <1>4
    <3> QED BY <1>1, <1>3, <1>4, <2>1, <3>2
  <2>2. CASE s = {2}
    <3>1. s \ {c(s)} = {}
      BY <1>1, <2>2
    <3>2. g[s \ {c(s)}] = 0
      BY <3>1, <2>0, <1>2, <1>4
    <3> QED BY <1>1, <1>3, <1>4, <2>2, <3>2
  <2>3. CASE s = 1..2 /\ c(s) = 1
    <3>1. s \ {c(s)} = {2}
      BY <1>3, <2>3, {1, 2} \ {1} = {2} DEF c
    <3>2. g[s \ {c(s)}] = f[2]
      BY <3>1, <2>0, <1>2, <1>4
    <3> QED BY <1>1, <1>3, <1>4, <2>3, <3>2
  <2>4. CASE s = 1..2 /\ c(s) = 2
    <3>1. s \ {c(s)} = {1}
      BY <1>3, <2>4, {1, 2} \ {2} = {1} DEF c
    <3>2. g[s \ {c(s)}] = f[1]
      BY <3>1, <2>0, <1>2, <1>4
    <3> QED BY <1>1, <1>3, <1>4, <2>4, <3>2
  <2> QED BY <1>1, <1>3, <1>5, <2>1, <2>2, <2>3, <2>4, TwoSubsets
<1>6. \A s \in SUBSET (1..2) : g[s] = IF s = {} THEN 0 ELSE f[c(s)] + g[s \ {c(s)}]
  BY <1>2, <1>4, <1>5
<1>7. g = h
  BY <1>6 DEF g
<1> QED BY <1>7 DEF c

LEMMA TotalOfTwo ==
  ASSUME treesFiles \in [1..2 -> Nat]
  PROVE  Trees!Total = treesFiles[1] + treesFiles[2]
<1> DEFINE sum == CHOOSE iter : iter = [s \in SUBSET (1..2) |->
                   IF s = {} THEN 0
                   ELSE treesFiles[CHOOSE x \in s : TRUE]
                          + iter[s \ {CHOOSE x \in s : TRUE}]]
<1>1. DOMAIN treesFiles = 1..2
  OBVIOUS
<1>2. Trees!Total = sum[1..2]
  BY <1>1 DEF Trees!Total, Trees!FoldFunction, Trees!FoldFunctionOnSet,
     Trees!MapThenFoldSet
<1>3. sum = [s \in SUBSET (1..2) |->
               IF s = {} THEN 0
               ELSE treesFiles[CHOOSE x \in s : TRUE]
                      + sum[s \ {CHOOSE x \in s : TRUE}]]
  BY FoldExists
<1> HIDE DEF sum
<1> QED BY <1>2, <1>3, FoldOfTwo

TreeRecords == [ver : Trees!Versions, whole : BOOLEAN, data : Trees!Versions \cup {None}]
TreeJobs == [step : Trees!Steps, rel : Packages, env : 1..2]

\* What a worker is at.
Doing(steps) == treesJob \in TreeJobs /\ treesJob.step \in steps

\* A container is registered.
Up == treesSpec # None \/ Doing({"start"})

Registered(r, e) == [rel |-> r, env |-> e, binds |-> Trees!Binds(r, treesFolders)]

Mounts(r, source) == \E v \in r.volumes : v.source = source

TreesTyped ==
  /\ treesWanted \in Packages \cup {None}
  /\ treesTree \in TreeRecords \cup {None}
  /\ treesAside \in TreeRecords \cup {None}
  /\ treesCheckout \in {"absent", "partial", "whole"}
  /\ treesFiles \in [1..2 -> Nat]
  /\ treesTop \in 1..2 \cup {None}
  /\ treesUid \in 1..2
  /\ treesJob \in TreeJobs \cup {None}
  /\ treesBox # None => treesBox.rel \in Packages /\ treesBox.by \in 1..2
  /\ treesSwept \in BOOLEAN
  /\ treesLost \in SUBSET {"tree", "checkout", "owner"}

\* A container's registration is up to date, and has nothing but declared sources.
Serves ==
  /\ Doing(Trees!Steps \ {"start"}) => treesSpec = None
  /\ Up => /\ \E r \in Packages, e \in 1..2 : treesSpec = Registered(r, e)
           /\ \A v \in treesSpec.rel.volumes : v.source \in Trees!Sources

OnVersion(r) == treesTree \in TreeRecords /\ treesTree.ver = r.ver
Intact(t) == t.whole /\ t.data \in {None, t.ver}

\* The load has its release's tree, and so has what is registered.
OnTree ==
  /\ Doing({"swapped", "load", "clone", "cloning", "mount", "start"})
       => OnVersion(treesJob.rel)
  /\ Up => OnVersion(treesSpec.rel)
  /\ "tree" \notin treesLost =>
        /\ treesTree # None => Intact(treesTree)
        /\ treesAside # None => Intact(treesAside)

\* Half a checkout is there while git runs only.
OnCheckout ==
  /\ Doing({"cloning"}) => treesCheckout = "partial"
  /\ "checkout" \notin treesLost =>
     /\ treesCheckout = "partial" => Doing({"cloning"})
     /\ Up /\ Mounts(treesSpec.rel, "$AW_WORKSPACE_REPO") => treesCheckout = "whole"
     /\ treesBox # None /\ Mounts(treesBox.rel, "$AW_WORKSPACE_REPO")
          => treesCheckout = "whole"

\* Who is taken for the owner of the data owns it until something slips.
OwnerKnown ==
  /\ Up /\ treesSwept => Doing({"start"})
  /\ "owner" \notin treesLost =>
       /\ treesBox # None /\ ~treesSwept => treesBox.by = Trees!DataOwner
       /\ Doing({"clone", "cloning", "mount"}) => treesJob.env = Trees!DataOwner
       /\ Up => treesSpec.env = Trees!DataOwner

TreesInv == TreesTyped /\ Serves /\ OnTree /\ OnCheckout /\ OwnerKnown

-----------------------------------------------------------------------------
LEMMA TreesNone ==
  /\ None \notin 1..2 /\ None \notin TreeRecords /\ None \notin TreeJobs
BY TreesAssumption DEF TreeRecords, TreeJobs

\* Who owns most of the files of two users.
Most(f, top, uid) ==
  IF f[1] + f[2] > 0 THEN IF f[2] > f[1] THEN 2 ELSE 1
  ELSE IF top # None THEN top ELSE uid

LEMMA OwnerIsMost ==
  treesFiles \in [1..2 -> Nat] => Trees!DataOwner = Most(treesFiles, treesTop, treesUid)
<1> SUFFICES ASSUME treesFiles \in [1..2 -> Nat]
             PROVE  Trees!DataOwner = Most(treesFiles, treesTop, treesUid)
  OBVIOUS
<1> DEFINE most == {u \in 1..2 : \A x \in 1..2 : treesFiles[x] <= treesFiles[u]}
           low == CHOOSE u \in most : \A x \in most : u <= x
<1>1. treesFiles[1] \in Nat /\ treesFiles[2] \in Nat /\ 1..2 = {1, 2}
  OBVIOUS
<1>2. low = IF treesFiles[2] > treesFiles[1] THEN 2 ELSE 1
  <2>1. CASE treesFiles[2] > treesFiles[1]
    <3>1. most = {2}
      BY <1>1, <2>1
    <3> QED BY <2>1, <3>1
  <2>2. CASE ~(treesFiles[2] > treesFiles[1])
    <3>1. 1 \in most /\ \A x \in most : x \in {1, 2}
      BY <1>1, <2>2
    <3>2. \A u \in most : (\A x \in most : u <= x) <=> u = 1
      BY <3>1
    <3> QED BY <2>2, <3>1, <3>2
  <2> QED BY <2>1, <2>2
<1>3. Trees!DataOwner = IF Trees!Total > 0 THEN low
                        ELSE IF treesTop # None THEN treesTop ELSE treesUid
  BY DEF Trees!DataOwner
<1> HIDE DEF low
<1> QED BY <1>1, <1>2, <1>3, TotalOfTwo DEF Most

LEMMA OwnerIsMostNext ==
  (treesFiles \in [1..2 -> Nat])'
    => Trees!DataOwner' = Most(treesFiles', treesTop', treesUid')
<1>1. (treesFiles \in [1..2 -> Nat] => Trees!DataOwner = Most(treesFiles, treesTop, treesUid))'
  BY OwnerIsMost, PTL
<1> QED BY <1>1 DEF Most

LEMMA JobMoves ==
  ASSUME TreesTyped
  PROVE  /\ \A step \in Trees!Steps : Trees!At(step) <=> Doing({step})
         /\ \A step \in Trees!Steps : treesJob \in TreeJobs /\ Trees!Goes(step) =>
              /\ treesJob' \in TreeJobs
              /\ treesJob'.step = step /\ treesJob'.rel = treesJob.rel
              /\ treesJob'.env = treesJob.env
         /\ \A r \in Packages : Trees!Begin(r) =>
              /\ treesJob' \in TreeJobs
              /\ treesJob'.step = "resolve" /\ treesJob'.rel = r
<1>1. \A step \in Trees!Steps : Trees!At(step) <=> Doing({step})
  BY TreesNone DEF Trees!At, Doing, TreesTyped
<1>2. ASSUME NEW step \in Trees!Steps, treesJob \in TreeJobs, Trees!Goes(step)
      PROVE  /\ treesJob' \in TreeJobs
             /\ treesJob'.step = step /\ treesJob'.rel = treesJob.rel
             /\ treesJob'.env = treesJob.env
  BY <1>2 DEF Trees!Goes, TreeJobs
<1>3. ASSUME NEW r \in Packages, Trees!Begin(r)
      PROVE  /\ treesJob' \in TreeJobs
             /\ treesJob'.step = "resolve" /\ treesJob'.rel = r
  BY <1>3 DEF Trees!Begin, TreeJobs, Trees!Steps, TreesTyped
<1> QED BY <1>1, <1>2, <1>3

\* What is registered stays so.
LEMMA StaysUp ==
  ASSUME Serves, UNCHANGED <<treesSpec, treesFolders>>, Up' => Up,
         Doing(Trees!Steps \ {"start"})' => treesSpec = None
  PROVE  Serves'
<1>1. \A r, e : Registered(r, e)' = Registered(r, e)
  BY DEF Registered
<1> QED BY <1>1 DEF Serves

\* Before the container is registered, and the data is not touched.
LEMMA PreparesKeep ==
  ASSUME TreesInv, Doing(Trees!Steps \ {"start"}),
         treesJob' = None \/ (/\ treesJob' \in TreeJobs /\ treesJob'.step # "start"
                              /\ treesJob'.rel = treesJob.rel
                              /\ \/ /\ treesJob'.env = treesJob.env
                                    /\ Doing({"clone", "cloning", "mount"})
                                 \/ treesJob'.env = Trees!DataOwner
                                 \/ ~Doing({"clone", "cloning", "mount"})'),
         UNCHANGED <<treesWanted, treesFiles, treesTop, treesUid, treesFolders, treesSpec,
                     treesBox, treesSwept, treesLost>>
  PROVE  /\ Serves' /\ OwnerKnown' /\ ~Up /\ ~Up'
         /\ treesJob' \in TreeJobs \cup {None}
<1>1. ~Up /\ treesSpec = None
  BY TreesNone DEF TreesInv, Serves, Up, Doing
<1>2. ~Up'
  BY <1>1, TreesNone DEF Up, Doing
<1>3. Serves'
  BY <1>1, <1>2, StaysUp DEF TreesInv
<1>4. Trees!DataOwner' = Trees!DataOwner
  BY OwnerIsMost, OwnerIsMostNext DEF TreesInv, TreesTyped
<1>5. OwnerKnown'
  BY <1>1, <1>2, <1>4, TreesNone DEF TreesInv, OwnerKnown, Doing
<1> QED BY <1>1, <1>2, <1>3, <1>5

\* Fetching and swapping in a release.
LEMMA FetchingKeeps ==
  ASSUME TreesInv,
         \/ Trees!PackageIsCurrent \/ Trees!Fetch \/ Trees!FetchFails \/ Trees!SetAside
         \/ Trees!SwapIn \/ Trees!SwapFails \/ Trees!RemoveAside
  PROVE  TreesInv'
<1>1. TreesTyped
  BY DEF TreesInv
<1>2. /\ Doing({"resolve", "fetched", "aside", "swapped"})
      /\ \/ treesJob' = None
         \/ /\ treesJob' \in TreeJobs /\ treesJob'.rel = treesJob.rel
            /\ treesJob'.step \in {"fetched", "aside", "swapped", "load"}
      /\ UNCHANGED <<treesWanted, treesCheckout, treesFiles, treesTop, treesUid,
                     treesFolders, treesSpec, treesBox, treesSwept, treesLost>>
  BY <1>1, JobMoves DEF Trees!PackageIsCurrent, Trees!Fetch, Trees!FetchFails,
     Trees!SetAside, Trees!SwapIn, Trees!SwapFails, Trees!RemoveAside, Trees!data,
     Trees!disk, Trees!Steps, Doing
<1>3. /\ Serves' /\ OwnerKnown' /\ ~Up /\ ~Up' /\ treesJob' \in TreeJobs \cup {None}
  BY <1>2, PreparesKeep DEF Doing, Trees!Steps
<1>4. OnCheckout'
  BY <1>2, <1>3, TreesNone DEF TreesInv, OnCheckout, Doing
<1>5. CASE Trees!PackageIsCurrent
  <2>1. /\ OnVersion(treesJob.rel) /\ UNCHANGED <<treesTree, treesAside>>
        /\ treesJob'.rel = treesJob.rel
    BY <1>1, <1>2, <1>5, JobMoves DEF Trees!PackageIsCurrent, Trees!Current, OnVersion,
       TreesTyped, Trees!disk, Doing, Trees!Steps
  <2>2. TreesTyped'
    BY <1>1, <1>2, <1>3, <2>1 DEF TreesTyped
  <2>3. OnTree'
    BY <1>2, <1>3, <2>1 DEF TreesInv, OnTree, OnVersion, Intact, Doing
  <2> QED BY <1>3, <1>4, <2>2, <2>3 DEF TreesInv
<1>6. CASE Trees!Fetch \/ Trees!FetchFails
  <2>1. /\ UNCHANGED treesTree /\ treesAside' \in {treesAside, None}
        /\ treesJob' = None \/ treesJob'.step = "fetched"
    BY <1>1, <1>2, <1>6, JobMoves DEF Trees!Fetch, Trees!FetchFails, Trees!disk, Doing,
       Trees!Steps
  <2>2. TreesTyped'
    BY <1>1, <1>2, <1>3, <2>1 DEF TreesTyped
  <2>3. OnTree'
    BY <1>2, <1>3, <2>1, TreesNone DEF TreesInv, OnTree, OnVersion, Intact, Doing
  <2> QED BY <1>3, <1>4, <2>2, <2>3 DEF TreesInv
<1>7. CASE Trees!SetAside
  <2>1. /\ treesTree' = None /\ treesAside' = treesTree
        /\ treesJob'.step = "aside"
    BY <1>1, <1>2, <1>7, JobMoves DEF Trees!SetAside, Doing, Trees!Steps
  <2>2. TreesTyped'
    BY <1>1, <1>2, <1>3, <2>1 DEF TreesTyped
  <2>3. OnTree'
    BY <1>2, <1>3, <2>1, TreesNone DEF TreesInv, OnTree, OnVersion, Intact, Doing
  <2> QED BY <1>3, <1>4, <2>2, <2>3 DEF TreesInv
<1>8. CASE Trees!SwapIn
  <2>1. /\ treesTree' = [ver |-> treesJob.rel.ver, whole |-> TRUE, data |-> None]
        /\ UNCHANGED treesAside
        /\ treesJob'.rel = treesJob.rel
    BY <1>1, <1>2, <1>8, JobMoves DEF Trees!SwapIn, Doing, Trees!Steps
  <2>2. treesTree' \in TreeRecords /\ OnVersion(treesJob.rel)' /\ Intact(treesTree')
    <3>1. treesJob.rel.ver \in Trees!Versions
      BY <1>2 DEF Doing, TreeJobs, Trees!Versions
    <3> QED BY <1>2, <2>1, <3>1 DEF OnVersion, Intact, TreeRecords
  <2>3. TreesTyped'
    BY <1>1, <1>2, <1>3, <2>1, <2>2 DEF TreesTyped
  <2>4. OnTree'
    BY <1>2, <1>3, <2>1, <2>2, TreesNone DEF TreesInv, OnTree, OnVersion, Intact, Doing
  <2> QED BY <1>3, <1>4, <2>3, <2>4 DEF TreesInv
<1>9. CASE Trees!SwapFails
  <2>1. treesTree' = treesAside /\ treesAside' = None /\ treesJob' = None
    BY <1>9 DEF Trees!SwapFails
  <2>2. TreesTyped'
    BY <1>1, <1>2, <1>3, <2>1 DEF TreesTyped
  <2>3. OnTree'
    BY <1>2, <1>3, <2>1, TreesNone DEF TreesInv, OnTree, OnVersion, Intact, Doing
  <2> QED BY <1>3, <1>4, <2>2, <2>3 DEF TreesInv
<1>10. CASE Trees!RemoveAside
  <2>1. /\ UNCHANGED treesTree /\ treesAside' = None
        /\ treesJob'.rel = treesJob.rel /\ treesJob.step = "swapped"
    BY <1>1, <1>2, <1>10, JobMoves DEF Trees!RemoveAside, Doing, Trees!Steps
  <2>2. TreesTyped'
    BY <1>1, <1>2, <1>3, <2>1 DEF TreesTyped
  <2>3. OnTree'
    BY <1>2, <1>3, <2>1, TreesNone DEF TreesInv, OnTree, OnVersion, Intact, Doing
  <2> QED BY <1>3, <1>4, <2>2, <2>3 DEF TreesInv
<1> QED BY <1>5, <1>6, <1>7, <1>8, <1>9, <1>10

\* The environment and the checkout, and a load refused.
LEMMA ClonesKeep ==
  ASSUME TreesInv,
         \/ Trees!Expand \/ Trees!Clone \/ Trees!Cloned \/ Trees!CloneFails
         \/ Trees!Refused
  PROVE  TreesInv'
<1>1. TreesTyped
  BY DEF TreesInv
<1>2. /\ Doing({"load", "clone", "cloning", "mount"})
      /\ UNCHANGED <<treesWanted, treesTree, treesAside, treesFiles, treesTop, treesUid,
                     treesFolders, treesSpec, treesBox, treesSwept, treesLost>>
  BY <1>1, JobMoves DEF Trees!Expand, Trees!Clone, Trees!Cloned, Trees!CloneFails,
     Trees!Refused, Trees!data, Trees!disk, Trees!Steps, Doing
<1>3. \/ treesJob' = None /\ UNCHANGED treesCheckout /\ Doing({"mount"})
      \/ /\ treesJob' \in TreeJobs /\ treesJob'.rel = treesJob.rel
         /\ \/ /\ Doing({"load"}) /\ treesJob'.step = "clone"
               /\ treesJob'.env = Trees!DataOwner
               /\ UNCHANGED treesCheckout
            \/ /\ Doing({"clone", "cloning"}) /\ treesJob'.env = treesJob.env
               /\ \/ treesJob'.step = "cloning" /\ treesCheckout' = "partial"
                       /\ treesCheckout = "absent"
                  \/ treesJob'.step = "mount" /\ Doing({"clone"}) /\ UNCHANGED treesCheckout
                  \/ /\ treesJob'.step = "mount" /\ Doing({"cloning"})
                     /\ treesCheckout' \in {"whole", "absent"}
  <2>1. CASE Trees!Expand
    <3>1. /\ treesJob' = [treesJob EXCEPT !.step = "clone", !.env = Trees!DataOwner]
          /\ Doing({"load"}) /\ UNCHANGED treesCheckout
      BY <1>1, <2>1, JobMoves DEF Trees!Expand, Trees!disk, Trees!Steps
    <3>2. Trees!DataOwner \in 1..2
      BY <1>1, OwnerIsMost DEF TreesTyped, Most
    <3> QED BY <3>1, <3>2 DEF Doing, TreeJobs, Trees!Steps
  <2>2. CASE Trees!Clone
    BY <1>1, <2>2, JobMoves DEF Trees!Clone, Trees!Steps, Doing
  <2>3. CASE Trees!Cloned
    BY <1>1, <2>3, JobMoves DEF Trees!Cloned, Trees!Steps, Doing
  <2>4. CASE Trees!CloneFails
    BY <1>1, <2>4, JobMoves DEF Trees!CloneFails, Trees!Steps, Doing
  <2>5. CASE Trees!Refused
    BY <1>1, <2>5, JobMoves DEF Trees!Refused, Trees!disk, Trees!Steps
  <2> QED BY <2>1, <2>2, <2>3, <2>4, <2>5
<1>4. /\ Serves' /\ OwnerKnown' /\ ~Up /\ ~Up' /\ treesJob' \in TreeJobs \cup {None}
  BY <1>2, <1>3, PreparesKeep DEF Doing, Trees!Steps
<1>5. TreesTyped'
  BY <1>1, <1>2, <1>3, <1>4 DEF TreesTyped
<1>6. OnTree'
  BY <1>2, <1>3, <1>4, TreesNone DEF TreesInv, OnTree, OnVersion, Intact, Doing
<1>7. OnCheckout'
  BY <1>1, <1>2, <1>3, <1>4, TreesNone DEF TreesInv, OnCheckout, Doing, TreesTyped
<1> QED BY <1>4, <1>5, <1>6, <1>7 DEF TreesInv

\* A job begins, or ends with its process; the tree and the checkout stay.
LEMMA BeginsKeep ==
  ASSUME TreesInv,
         \/ \E r \in Packages : Trees!Ask(r)
         \/ Trees!Reconcile \/ Trees!Uninstall \/ Trees!Redeploy
  PROVE  TreesInv'
<1>1. TreesTyped
  BY DEF TreesInv
<1>2. /\ UNCHANGED <<treesTree, treesAside, treesCheckout, treesFolders, treesLost>>
      /\ treesJob = None /\ treesSpec' = None
      /\ treesWanted' \in Packages \cup {None}
  BY <1>1 DEF Trees!Ask, Trees!Reconcile, Trees!Uninstall, Trees!Redeploy, Trees!disk,
     TreesTyped
<1>3. \/ treesJob' = None
      \/ treesJob' \in TreeJobs /\ treesJob'.step \in {"resolve", "remove"}
  <2>1. CASE \E r \in Packages : Trees!Ask(r)
    BY <1>1, <2>1, JobMoves DEF Trees!Ask
  <2>2. CASE Trees!Reconcile
    BY <1>1, <2>2, JobMoves DEF Trees!Reconcile, TreesTyped
  <2>3. CASE Trees!Uninstall
    <3>1. Up
      BY <2>3 DEF Trees!Uninstall, Up
    <3>2. PICK r \in Packages, e \in 1..2 : treesSpec = Registered(r, e)
      BY <3>1 DEF TreesInv, Serves
    <3>3. treesJob' = [step |-> "remove", rel |-> r, env |-> e]
      BY <2>3, <3>2 DEF Trees!Uninstall, Registered
    <3> QED BY <3>3 DEF TreeJobs, Trees!Steps
  <2>4. CASE Trees!Redeploy
    BY <1>2, <2>4 DEF Trees!Redeploy
  <2> QED BY <2>1, <2>2, <2>3, <2>4
<1>4. ~Up' /\ ~Doing({"start"})' /\ ~Doing({"start", "cloning"})
  BY <1>2, <1>3, TreesNone DEF Up, Doing
<1>5. Serves'
  BY <1>2, <1>4 DEF Serves
<1>6. OnTree'
  BY <1>2, <1>3, <1>4, TreesNone DEF TreesInv, OnTree, OnVersion, Intact, Doing
<1>7. CASE ~Trees!Redeploy
  <2>1. /\ UNCHANGED <<treesFiles, treesTop, treesUid, treesSwept>>
        /\ treesBox' \in {treesBox, None}
    BY <1>7 DEF Trees!Ask, Trees!Reconcile, Trees!Uninstall, Trees!data
  <2>2. TreesTyped'
    BY <1>1, <1>2, <1>3, <2>1 DEF TreesTyped
  <2>3. OnCheckout'
    BY <1>2, <1>3, <1>4, <2>1, TreesNone DEF TreesInv, OnCheckout, Doing
  <2>4. Trees!DataOwner' = Trees!DataOwner
    BY <1>1, <2>1, <2>2, OwnerIsMost, OwnerIsMostNext DEF TreesTyped
  <2>5. OwnerKnown'
    BY <1>2, <1>3, <1>4, <2>1, <2>4, TreesNone DEF TreesInv, OwnerKnown, Doing
  <2> QED BY <1>5, <1>6, <2>2, <2>3, <2>5 DEF TreesInv
<1>8. CASE Trees!Redeploy
  <2>1. /\ treesUid' \in 1..2 /\ treesJob' = None
        /\ treesFiles' = [u \in 1..2 |-> IF u = treesUid' THEN Trees!Total ELSE 0]
        /\ treesTop' = IF treesTop = None THEN None ELSE treesUid'
        /\ treesSwept' = (treesSwept \/ treesBox # None)
        /\ UNCHANGED treesBox
    BY <1>2, <1>8 DEF Trees!Redeploy
  <2>2. Trees!Total \in Nat
    BY <1>1, TotalOfTwo DEF TreesTyped
  <2>3. treesFiles' \in [1..2 -> Nat]
    BY <2>1, <2>2
  <2>4. TreesTyped'
    BY <1>1, <1>2, <1>3, <2>1, <2>3 DEF TreesTyped
  <2>5. OnCheckout'
    BY <1>2, <1>3, <1>4, <2>1, TreesNone DEF TreesInv, OnCheckout, Doing
  <2>6. OwnerKnown'
    <3>1. treesBox' # None => treesSwept'
      BY <2>1
    <3> QED BY <1>4, <2>1, <3>1, TreesNone DEF OwnerKnown, Doing
  <2> QED BY <1>5, <1>6, <2>4, <2>5, <2>6 DEF TreesInv
<1> QED BY <1>7, <1>8

\* An install is removed from disk, or a process dies.
LEMMA RemovesKeep ==
  ASSUME TreesInv, Trees!RemoveTree \/ Trees!Killed
  PROVE  TreesInv'
<1>1. TreesTyped
  BY DEF TreesInv
<1>2. /\ UNCHANGED <<treesWanted, treesAside, treesCheckout, treesFiles, treesTop, treesUid,
                     treesFolders, treesBox, treesSwept>>
      /\ treesJob' = None
  BY DEF Trees!RemoveTree, Trees!Killed, Trees!data
<1>3. treesSpec' = None
  BY <1>1, JobMoves DEF Trees!RemoveTree, Trees!Killed, TreesInv, Serves, Doing, Trees!Steps
<1>4. ~Up'
  BY <1>2, <1>3, TreesNone DEF Up, Doing
<1>5. /\ treesTree' \in TreeRecords \cup {None}
      /\ treesLost' \in SUBSET {"tree", "checkout", "owner"} /\ treesLost \subseteq treesLost'
      /\ "tree" \notin treesLost' => treesTree' \in {treesTree, None}
      /\ Doing({"cloning"}) => "checkout" \in treesLost'
  <2>1. CASE Trees!RemoveTree
    BY <1>1, <2>1, JobMoves DEF Trees!RemoveTree, Trees!Steps, Doing, TreesTyped
  <2>2. CASE Trees!Killed
    <3>1. Trees!At("cloning") <=> Doing({"cloning"})
      BY <1>1, JobMoves DEF Trees!Steps
    <3>2. treesLost' = treesLost \cup (IF Trees!At("remove") THEN {"tree"} ELSE {})
                                 \cup (IF Trees!At("cloning") THEN {"checkout"} ELSE {})
      BY <2>2 DEF Trees!Killed
    <3>3. \/ treesTree' = treesTree
          \/ treesTree \in TreeRecords /\ Trees!At("remove")
               /\ treesTree' = [treesTree EXCEPT !.whole = FALSE]
      BY <1>1, <2>2 DEF Trees!Killed, TreesTyped
    <3>4. treesTree' \in TreeRecords \cup {None}
      BY <1>1, <3>3 DEF TreesTyped, TreeRecords
    <3> QED BY <1>1, <3>1, <3>2, <3>3, <3>4 DEF TreesTyped
  <2> QED BY <2>1, <2>2
<1>6. TreesTyped'
  BY <1>1, <1>2, <1>5 DEF TreesTyped
<1>7. Serves'
  BY <1>3, <1>4 DEF Serves
<1>8. OnTree'
  BY <1>2, <1>4, <1>5, TreesNone DEF TreesInv, OnTree, Intact, Doing
<1>9. OnCheckout'
  BY <1>2, <1>4, <1>5, TreesNone DEF TreesInv, OnCheckout, Doing
<1>10. OwnerKnown'
  <2>1. Trees!DataOwner' = Trees!DataOwner
    BY <1>1, <1>2, <1>6, OwnerIsMost, OwnerIsMostNext DEF TreesTyped
  <2> QED BY <1>2, <1>4, <1>5, <2>1, TreesNone DEF TreesInv, OwnerKnown, Doing
<1> QED BY <1>6, <1>7, <1>8, <1>9, <1>10 DEF TreesInv

\* Without the placeholder an app's binds do not depend on the mapped folders.
LEMMA BindsAlike ==
  ASSUME NEW r, ~Mounts(r, "$AW_WORKSPACE_FOLDERS"), NEW f, NEW g
  PROVE  Trees!Binds(r, f) = Trees!Binds(r, g)
<1>1. Trees!FolderBinds(r, f) = {} /\ Trees!FolderBinds(r, g) = {}
  BY DEF Mounts, Trees!FolderBinds
<1> DEFINE own == {[path |-> v.source, target |-> v.source, mode |-> v.mode] :
                   v \in {x \in r.volumes : x.source # "$AW_WORKSPACE_FOLDERS"}}
<1>2. Trees!Binds(r, f) = own
  BY <1>1 DEF Trees!Binds
<1>3. Trees!Binds(r, g) = own
  BY <1>1 DEF Trees!Binds
<1> QED BY <1>2, <1>3

\* A container is registered.
LEMMA MountKeeps == ASSUME TreesInv, Trees!Mount PROVE TreesInv'
<1>1. TreesTyped
  BY DEF TreesInv
<1>2. /\ Doing({"mount"}) /\ Trees!Mountable(treesJob.rel)
      /\ treesTop' \in {treesTop, treesUid} /\ (treesTop # None => treesTop' = treesTop)
      /\ treesSpec' = Registered(treesJob.rel, treesJob.env)
      /\ treesJob' \in TreeJobs /\ treesJob'.step = "start" /\ treesJob'.rel = treesJob.rel
      /\ UNCHANGED <<treesWanted, treesTree, treesAside, treesCheckout, treesFiles,
                     treesUid, treesFolders, treesBox, treesSwept, treesLost>>
  BY <1>1, JobMoves DEF Trees!Mount, Trees!disk, Trees!Steps, Doing, Registered
<1>3. Trees!DataOwner' = Trees!DataOwner
  BY <1>1, <1>2, OwnerIsMost, OwnerIsMostNext DEF TreesTyped, Most
<1>4. /\ treesJob.rel \in Packages /\ treesJob.env \in 1..2
      /\ treesSpec'.rel = treesJob.rel /\ treesSpec'.env = treesJob.env
      /\ Up' /\ ~Doing(Trees!Steps \ {"start"})'
  BY <1>2 DEF Doing, Up, TreeJobs, Registered
<1>5. /\ \A v \in treesJob.rel.volumes : v.source \in Trees!Sources
      /\ Mounts(treesJob.rel, "$AW_WORKSPACE_REPO") => treesCheckout # "absent"
  BY <1>2 DEF Trees!Mountable, Mounts
<1>6. TreesTyped'
  BY <1>1, <1>2 DEF TreesTyped
<1>7. Serves'
  <2>1. PICK r \in Packages, e \in 1..2 : r = treesJob.rel /\ e = treesJob.env
    BY <1>4
  <2>2. (\E p \in Packages, q \in 1..2 : treesSpec = Registered(p, q))'
    BY <1>2, <2>1, Registered(r, e)' = Registered(r, e) DEF Registered
  <2> QED BY <1>4, <1>5, <2>2 DEF Serves
<1>8. OnTree'
  BY <1>2, <1>4 DEF TreesInv, OnTree, OnVersion, Intact, Doing
<1>9. OnCheckout'
  BY <1>1, <1>2, <1>4, <1>5 DEF TreesInv, OnCheckout, Doing, TreesTyped, Mounts
<1>10. OwnerKnown'
  BY <1>2, <1>3, <1>4 DEF TreesInv, OwnerKnown, Doing
<1> QED BY <1>6, <1>7, <1>8, <1>9, <1>10 DEF TreesInv

\* An image that chowns some of the data to its user leaves the owner the owner.
LEMMA InitsKeep ==
  ASSUME TreesTyped, NEW by \in 1..2, Trees!Inits(by), UNCHANGED treesUid
  PROVE  /\ treesFiles' \in [1..2 -> Nat] /\ treesTop' \in 1..2 \cup {None}
         /\ by = Trees!DataOwner => Trees!DataOwner' = by
<1>1. treesTop' = IF treesTop = None THEN None ELSE by
  BY DEF Trees!Inits
<1>2. PICK u \in 1..2 :
        IF treesFiles[u] = 0 \/ u = by THEN UNCHANGED treesFiles
        ELSE treesFiles' = [treesFiles EXCEPT ![u] = @ - 1, ![by] = @ + 1]
  BY DEF Trees!Inits
<1>3. treesFiles[1] \in Nat /\ treesFiles[2] \in Nat /\ 1..2 = {1, 2}
  BY DEF TreesTyped
<1>4. \/ treesFiles' = treesFiles
      \/ /\ by = 1 /\ treesFiles' = [treesFiles EXCEPT ![2] = @ - 1, ![1] = @ + 1]
         /\ treesFiles[2] > 0
      \/ /\ by = 2 /\ treesFiles' = [treesFiles EXCEPT ![1] = @ - 1, ![2] = @ + 1]
         /\ treesFiles[1] > 0
  BY <1>2, <1>3
<1>5. /\ treesFiles' \in [1..2 -> Nat]
      /\ \/ treesFiles' = treesFiles
         \/ /\ by = 1 /\ treesFiles'[1] = treesFiles[1] + 1
            /\ treesFiles'[2] = treesFiles[2] - 1 /\ treesFiles[2] > 0
         \/ /\ by = 2 /\ treesFiles'[2] = treesFiles[2] + 1
            /\ treesFiles'[1] = treesFiles[1] - 1 /\ treesFiles[1] > 0
  BY <1>3, <1>4 DEF TreesTyped
<1>6. /\ Trees!DataOwner = Most(treesFiles, treesTop, treesUid)
      /\ Trees!DataOwner' = Most(treesFiles', treesTop', treesUid)
  BY <1>5, OwnerIsMost, OwnerIsMostNext DEF TreesTyped
<1>7. by = Trees!DataOwner => Trees!DataOwner' = by
  BY <1>1, <1>3, <1>5, <1>6, TreesNone DEF Most
<1> QED BY <1>1, <1>5, <1>7 DEF TreesTyped

\* The container starts.
LEMMA StartKeeps == ASSUME TreesInv, Trees!Start PROVE TreesInv'
<1>1. TreesTyped
  BY DEF TreesInv
<1>2. /\ Doing({"start"}) /\ treesJob' = None /\ treesSwept' = FALSE
      /\ UNCHANGED <<treesWanted, treesTree, treesAside, treesCheckout,
                     treesUid, treesFolders, treesSpec, treesLost>>
  BY <1>1, JobMoves DEF Trees!Start, Trees!disk, Trees!Steps
<1>3. Up /\ (Up' => Up) /\ ~Doing(Trees!Steps)'
  BY <1>2, TreesNone DEF Up, Doing
<1>4. PICK r \in Packages, e \in 1..2 : treesSpec = Registered(r, e)
  BY <1>3 DEF TreesInv, Serves
<1>5. treesSpec.rel = r /\ treesSpec.env = e
  BY <1>4 DEF Registered
<1>6. PICK by \in 1..2 :
        /\ by = IF r.user = "flag" THEN Trees!DataOwner ELSE e
        /\ treesBox' = [rel |-> r, by |-> by, binds |-> treesSpec.binds]
        /\ IF r.user = "flag" THEN UNCHANGED <<treesFiles, treesTop>> ELSE Trees!Inits(by)
  <2>1. Trees!DataOwner \in 1..2
    BY <1>1, OwnerIsMost DEF TreesTyped, Most
  <2> QED BY <1>5, <2>1 DEF Trees!Start, Trees!data
<1>7. /\ treesFiles' \in [1..2 -> Nat] /\ treesTop' \in 1..2 \cup {None}
      /\ by = Trees!DataOwner => Trees!DataOwner' = by
  <2>1. CASE r.user = "flag"
    <3>1. UNCHANGED <<treesFiles, treesTop, treesUid>>
      BY <1>2, <1>6, <2>1
    <3> QED BY <1>1, <3>1, OwnerIsMost, OwnerIsMostNext DEF TreesTyped
  <2>2. CASE r.user # "flag"
    BY <1>1, <1>2, <1>6, <2>2, InitsKeep
  <2> QED BY <2>1, <2>2
<1>8. treesBox'.rel = r /\ treesBox'.by = by
  BY <1>6
<1>9. TreesTyped'
  BY <1>1, <1>2, <1>7, <1>8 DEF TreesTyped
<1>10. Serves'
  BY <1>2, <1>3, StaysUp, TreesNone DEF TreesInv, Doing
<1>11. OnTree'
  BY <1>2, <1>3, TreesNone DEF TreesInv, OnTree, OnVersion, Intact, Doing
<1>12. OnCheckout'
  BY <1>2, <1>3, <1>5, <1>8, TreesNone DEF TreesInv, OnCheckout, Doing
<1>13. OwnerKnown'
  <2>1. "owner" \notin treesLost => e = Trees!DataOwner
    BY <1>3, <1>5 DEF TreesInv, OwnerKnown
  <2>2. "owner" \notin treesLost => by = Trees!DataOwner' /\ e = Trees!DataOwner'
    BY <1>6, <1>7, <2>1
  <2> QED BY <1>2, <1>3, <1>5, <1>8, <2>2, TreesNone DEF OwnerKnown, Doing
<1> QED BY <1>9, <1>10, <1>11, <1>12, <1>13 DEF TreesInv

\* A container is restarted, as it was or with the folders mapped now.
LEMMA RestartsKeep ==
  ASSUME TreesInv,
         \/ Trees!RestartContainer
         \/ \E f \in Mapped : Trees!MapFolder(f) \/ Trees!UnmapFolder(f.name)
  PROVE  TreesInv'
<1>1. TreesTyped
  BY DEF TreesInv
<1>2. /\ treesJob = None
      /\ UNCHANGED <<treesWanted, treesTree, treesAside, treesCheckout, treesFiles,
                     treesTop, treesUid, treesBox, treesSwept, treesLost>>
  BY DEF Trees!RestartContainer, Trees!MapFolder, Trees!UnmapFolder, Trees!Remap,
     Trees!disk, Trees!data
<1>3. CASE treesSpec = None /\ UNCHANGED <<treesJob, treesSpec>>
  <2>1. TreesTyped'
    BY <1>1, <1>2, <1>3 DEF TreesTyped
  <2>2. ~Up'
    BY <1>2, <1>3, TreesNone DEF Up, Doing
  <2>3. Serves'
    BY <1>3, <2>2 DEF Serves
  <2>4. OnTree' /\ OnCheckout'
    BY <1>2, <1>3, <2>2, TreesNone DEF TreesInv, OnTree, OnCheckout, Intact, Doing
  <2>5. OwnerKnown'
    <3>1. Trees!DataOwner' = Trees!DataOwner
      BY <1>1, <1>2, <2>1, OwnerIsMost, OwnerIsMostNext DEF TreesTyped
    <3> QED BY <1>2, <1>3, <2>2, <3>1, TreesNone DEF TreesInv, OwnerKnown, Doing
  <2> QED BY <2>1, <2>3, <2>4, <2>5 DEF TreesInv
<1>4. CASE treesSpec # None
  <2>1. Up
    BY <1>4 DEF Up
  <2>2. PICK r \in Packages, e \in 1..2 : treesSpec = Registered(r, e)
    BY <2>1 DEF TreesInv, Serves
  <2>3. treesSpec.rel = r /\ treesSpec.env = e
    BY <2>2 DEF Registered
  <2>4. /\ treesSpec' = Registered(r, e)'
        /\ \/ treesJob' = None
           \/ treesJob' = [step |-> "start", rel |-> r, env |-> e]
    <3>1. CASE Trees!RestartContainer
      BY <2>2, <2>3, <3>1 DEF Trees!RestartContainer, Registered
    <3>2. CASE \E f \in Mapped : Trees!MapFolder(f) \/ Trees!UnmapFolder(f.name)
      <4>1. PICK list : Trees!Remap(list)
        BY <3>2 DEF Trees!MapFolder, Trees!UnmapFolder
      <4>2. treesFolders' = list
        BY <4>1 DEF Trees!Remap
      <4>3. CASE Mounts(r, "$AW_WORKSPACE_FOLDERS")
        <5>1. /\ treesSpec' = [treesSpec EXCEPT !.binds = Trees!Binds(r, list)]
              /\ treesJob' = [step |-> "start", rel |-> r, env |-> e]
          BY <1>4, <2>3, <4>1, <4>3 DEF Trees!Remap, Mounts
        <5> QED BY <2>2, <4>2, <5>1 DEF Registered
      <4>4. CASE ~Mounts(r, "$AW_WORKSPACE_FOLDERS")
        <5>1. UNCHANGED <<treesSpec, treesJob>>
          BY <1>4, <2>3, <4>1, <4>4 DEF Trees!Remap, Mounts
        <5>2. Trees!Binds(r, treesFolders) = Trees!Binds(r, treesFolders')
          BY <4>4, BindsAlike
        <5> QED BY <1>2, <2>2, <5>1, <5>2 DEF Registered
      <4> QED BY <4>3, <4>4
    <3> QED BY <3>1, <3>2
  <2>5. /\ treesSpec'.rel = r /\ treesSpec'.env = e
        /\ treesJob' \in TreeJobs => treesJob'.step = "start" /\ treesJob'.rel = r
        /\ treesJob' \in TreeJobs \cup {None}
    BY <2>4, TreesNone DEF Registered, TreeJobs, Trees!Steps
  <2>6. TreesTyped'
    BY <1>1, <1>2, <2>5 DEF TreesTyped
  <2>7. Serves'
    <3>1. (\E p \in Packages, q \in 1..2 : treesSpec = Registered(p, q))'
      BY <2>4
    <3> QED BY <2>1, <2>3, <2>5, <3>1 DEF TreesInv, Serves, Doing
  <2>8. OnTree' /\ OnCheckout'
    BY <1>2, <2>1, <2>3, <2>5, TreesNone DEF TreesInv, OnTree, OnVersion, OnCheckout,
       Intact, Doing
  <2>9. OwnerKnown'
    <3>1. Trees!DataOwner' = Trees!DataOwner
      BY <1>1, <1>2, <2>6, OwnerIsMost, OwnerIsMostNext DEF TreesTyped
    <3>2. ~treesSwept
      BY <1>2, <2>1, TreesNone DEF TreesInv, OwnerKnown, Doing
    <3> QED BY <1>2, <2>1, <2>3, <2>5, <3>1, <3>2 DEF TreesInv, OwnerKnown, Doing
  <2> QED BY <2>6, <2>7, <2>8, <2>9 DEF TreesInv
<1>5. treesSpec # None \/ (treesSpec = None /\ UNCHANGED <<treesJob, treesSpec>>)
  BY DEF Trees!RestartContainer, Trees!MapFolder, Trees!UnmapFolder, Trees!Remap
<1> QED BY <1>3, <1>4, <1>5

\* The app builds and writes for itself; its container is restarted by the engine.
LEMMA AppKeeps ==
  ASSUME TreesInv, Trees!Builds \/ Trees!Writes \/ Trees!BoxRestarts
  PROVE  TreesInv'
<1>1. TreesTyped
  BY DEF TreesInv
<1>2. UNCHANGED <<treesWanted, treesAside, treesCheckout, treesUid, treesFolders, treesJob,
                  treesSpec, treesBox, treesSwept>>
  BY DEF Trees!Builds, Trees!Writes, Trees!BoxRestarts, Trees!disk
<1>3. (Up' <=> Up) /\ (\A steps : Doing(steps)' <=> Doing(steps))
  BY <1>2 DEF Up, Doing
<1>4. Serves'
  BY <1>2, <1>3, StaysUp DEF TreesInv, Serves
<1>5. CASE Trees!Builds
  <2>1. /\ Up /\ treesTree \in TreeRecords
        /\ treesTree' = [treesTree EXCEPT !.data = treesSpec.rel.ver]
        /\ UNCHANGED <<treesFiles, treesTop, treesLost>>
    BY <1>1, <1>5 DEF Trees!Builds, Up, TreesTyped, Trees!data
  <2>2. treesSpec.rel \in Packages /\ treesTree.ver = treesSpec.rel.ver
    <3>1. PICK r \in Packages, e \in 1..2 : treesSpec = Registered(r, e)
      BY <2>1 DEF TreesInv, Serves
    <3>2. treesSpec.rel = r
      BY <3>1 DEF Registered
    <3> QED BY <2>1, <3>2 DEF TreesInv, OnTree, OnVersion
  <2>3. /\ treesTree' \in TreeRecords /\ treesTree'.ver = treesTree.ver
        /\ treesTree'.whole = treesTree.whole /\ treesTree'.data = treesTree.ver
    BY <2>1, <2>2 DEF TreeRecords, Trees!Versions
  <2>4. TreesTyped'
    BY <1>1, <1>2, <2>1, <2>3 DEF TreesTyped
  <2>5. OnTree'
    BY <1>2, <1>3, <2>1, <2>3, TreesNone DEF TreesInv, OnTree, OnVersion, Intact
  <2>6. OnCheckout'
    BY <1>2, <1>3, <2>1 DEF TreesInv, OnCheckout
  <2>7. Trees!DataOwner' = Trees!DataOwner
    BY <1>1, <1>2, <2>1, <2>4, OwnerIsMost, OwnerIsMostNext DEF TreesTyped
  <2>8. OwnerKnown'
    BY <1>2, <1>3, <2>1, <2>7 DEF TreesInv, OwnerKnown
  <2> QED BY <1>4, <2>4, <2>5, <2>6, <2>8 DEF TreesInv
<1>6. CASE Trees!Writes
  <2>1. /\ treesBox # None /\ treesBox.by \in 1..2 /\ treesTop # None
        /\ treesFiles' = [treesFiles EXCEPT ![treesBox.by] = @ + 1]
        /\ treesLost' = IF treesSwept THEN treesLost \cup {"owner"} ELSE treesLost
        /\ UNCHANGED <<treesTree, treesTop>>
    BY <1>1, <1>6 DEF Trees!Writes, Trees!disk, TreesTyped
  <2>2. PICK by \in 1..2 : by = treesBox.by
    BY <2>1
  <2>3. treesFiles[1] \in Nat /\ treesFiles[2] \in Nat /\ 1..2 = {1, 2}
    BY <1>1 DEF TreesTyped
  <2>4. /\ treesFiles' \in [1..2 -> Nat]
        /\ by = 1 => treesFiles'[1] = treesFiles[1] + 1 /\ treesFiles'[2] = treesFiles[2]
        /\ by = 2 => treesFiles'[2] = treesFiles[2] + 1 /\ treesFiles'[1] = treesFiles[1]
    BY <1>1, <2>1, <2>2, <2>3 DEF TreesTyped
  <2>5. by = Trees!DataOwner => Trees!DataOwner' = by
    <3>1. /\ Trees!DataOwner = Most(treesFiles, treesTop, treesUid)
          /\ Trees!DataOwner' = Most(treesFiles', treesTop, treesUid)
      BY <1>1, <1>2, <2>1, <2>4, OwnerIsMost, OwnerIsMostNext DEF TreesTyped
    <3> QED BY <2>2, <2>3, <2>4, <3>1 DEF Most
  <2>6. TreesTyped'
    BY <1>1, <1>2, <2>1, <2>4 DEF TreesTyped
  <2>7. OnTree' /\ OnCheckout'
    BY <1>2, <1>3, <2>1 DEF TreesInv, OnTree, OnVersion, OnCheckout, Intact
  <2>8. OwnerKnown'
    BY <1>2, <1>3, <2>1, <2>2, <2>5 DEF TreesInv, OwnerKnown, TreesTyped
  <2> QED BY <1>4, <2>6, <2>7, <2>8 DEF TreesInv
<1>7. CASE Trees!BoxRestarts
  <2>1. /\ treesBox # None /\ treesBox.by \in 1..2 /\ treesSwept
        /\ Trees!Inits(treesBox.by)
        /\ treesLost' = IF treesJob = None THEN treesLost ELSE treesLost \cup {"owner"}
        /\ UNCHANGED treesTree
    BY <1>1, <1>7 DEF Trees!BoxRestarts, Trees!disk, TreesTyped
  <2>2. treesFiles' \in [1..2 -> Nat] /\ treesTop' \in 1..2 \cup {None}
    BY <1>1, <1>2, <2>1, InitsKeep
  <2>3. TreesTyped'
    BY <1>1, <1>2, <2>1, <2>2 DEF TreesTyped
  <2>4. OnTree' /\ OnCheckout'
    BY <1>2, <1>3, <2>1 DEF TreesInv, OnTree, OnVersion, OnCheckout, Intact
  <2>5. OwnerKnown'
    <3>1. Up => Doing({"start"})
      BY <2>1 DEF TreesInv, OwnerKnown
    <3>2. "owner" \notin treesLost' => ~Up /\ \A steps : ~Doing(steps)
      BY <2>1, <3>1, TreesNone DEF Doing
    <3> QED BY <1>2, <1>3, <2>1, <3>1, <3>2 DEF OwnerKnown
  <2> QED BY <1>4, <2>3, <2>4, <2>5 DEF TreesInv
<1> QED BY <1>5, <1>6, <1>7

LEMMA InitTrees == Trees!Init => TreesInv
<1> SUFFICES ASSUME Trees!Init PROVE TreesInv
  OBVIOUS
<1>1. ~Up /\ \A steps : ~Doing(steps)
  BY TreesNone DEF Trees!Init, Up, Doing
<1>2. TreesTyped
  BY DEF Trees!Init, TreesTyped
<1>3. Serves /\ OnTree /\ OnCheckout /\ OwnerKnown
  BY <1>1 DEF Trees!Init, Serves, OnTree, OnCheckout, OwnerKnown
<1> QED BY <1>2, <1>3 DEF TreesInv

LEMMA StepTrees == TreesInv /\ [Trees!Next]_(Trees!treeVars) => TreesInv'
<1> SUFFICES ASSUME TreesInv, [Trees!Next]_(Trees!treeVars) PROVE TreesInv'
  OBVIOUS
<1>1. CASE Trees!Next
  BY <1>1, FetchingKeeps, ClonesKeep, BeginsKeep, RemovesKeep, MountKeeps, StartKeeps,
     RestartsKeep, AppKeeps DEF Trees!Next
<1>2. CASE UNCHANGED Trees!treeVars
  <2>1. UNCHANGED <<treesWanted, treesTree, treesAside, treesCheckout, treesFiles, treesTop,
                    treesUid, treesFolders, treesJob, treesSpec, treesBox, treesSwept,
                    treesLost>>
    BY <1>2 DEF Trees!treeVars
  <2>2. (Up' <=> Up) /\ (\A steps : Doing(steps)' <=> Doing(steps))
    BY <2>1 DEF Up, Doing
  <2>3. Serves'
    BY <2>1, <2>2, StaysUp DEF TreesInv, Serves
  <2>4. TreesTyped'
    BY <2>1 DEF TreesInv, TreesTyped
  <2>5. OnTree' /\ OnCheckout'
    BY <2>1, <2>2 DEF TreesInv, OnTree, OnVersion, OnCheckout, Intact
  <2>6. Trees!DataOwner' = Trees!DataOwner
    BY <2>1, <2>4, OwnerIsMost, OwnerIsMostNext DEF TreesInv, TreesTyped
  <2>7. OwnerKnown'
    BY <2>1, <2>2, <2>6 DEF TreesInv, OwnerKnown
  <2> QED BY <2>3, <2>4, <2>5, <2>7 DEF TreesInv
<1> QED BY <1>1, <1>2

\* Every volume of declared sources is mounted, if no two are one directory.
LEMMA BindsAll ==
  ASSUME NEW r, NEW list,
         \A v \in r.volumes : v.source \in Trees!Sources,
         \A i \in DOMAIN list : list[i].path \notin Trees!Sources
            /\ \A j \in DOMAIN list : i # j => list[i].path # list[j].path,
         NEW v \in r.volumes
  PROVE  IF v.source = "$AW_WORKSPACE_FOLDERS"
         THEN \A i \in DOMAIN list : \E b \in Trees!Binds(r, list) : b.target = list[i].name
         ELSE \E b \in Trees!Binds(r, list) : b.target = v.source
<1> DEFINE own == {[path |-> w.source, target |-> w.source, mode |-> w.mode] :
                   w \in {x \in r.volumes : x.source # "$AW_WORKSPACE_FOLDERS"}}
           later == {i \in DOMAIN list :
                       \A j \in DOMAIN list \ {i} : list[j].path = list[i].path => j < i}
           mapped == {b \in Trees!FolderBinds(r, list) :
                        \E i \in later : b.path = list[i].path /\ b.target = list[i].name}
<1>1. Trees!Binds(r, list) = mapped \cup {b \in own : \A m \in mapped : m.path # b.path}
  BY DEF Trees!Binds
<1>3. CASE v.source = "$AW_WORKSPACE_FOLDERS"
  <2>1. ASSUME NEW i \in DOMAIN list
        PROVE  \E b \in mapped : b.target = list[i].name
    <3> DEFINE b == [path |-> list[i].path, target |-> list[i].name,
                     mode |-> IF v.mode = "ro" THEN "ro" ELSE list[i].mode]
    <3>1. b \in Trees!FolderBinds(r, list)
      BY <1>3 DEF Trees!FolderBinds
    <3>2. i \in later
      OBVIOUS
    <3>3. b.path = list[i].path /\ b.target = list[i].name
      OBVIOUS
    <3> QED BY <3>1, <3>2, <3>3
  <2> QED BY <1>1, <1>3, <2>1
<1>4. CASE v.source # "$AW_WORKSPACE_FOLDERS"
  <2> DEFINE b == [path |-> v.source, target |-> v.source, mode |-> v.mode]
  <2>1. b \in own /\ b.path = v.source /\ b.target = v.source
    BY <1>4
  <2>2. \A m \in mapped : m.path # v.source
    BY DEF Trees!FolderBinds
  <2> QED BY <1>1, <1>4, <2>1, <2>2
<1> QED BY <1>3, <1>4

LEMMA TreesStandWhole ==
  TreesInv => /\ Trees!LoadedTreeIsWhole /\ Trees!CheckoutIsWhole
              /\ Trees!RunsAsOwner /\ Trees!DistinctVolumesMounted
<1> SUFFICES ASSUME TreesInv
             PROVE  /\ Trees!LoadedTreeIsWhole /\ Trees!CheckoutIsWhole
                    /\ Trees!RunsAsOwner /\ Trees!DistinctVolumesMounted
  OBVIOUS
<1>1. Trees!LoadedTreeIsWhole
  BY TreesNone DEF TreesInv, OnTree, OnVersion, Intact, Up, Trees!LoadedTreeIsWhole
<1>2. Trees!CheckoutIsWhole
  BY DEF TreesInv, OnCheckout, Mounts, Trees!CheckoutIsWhole
<1>3. Trees!RunsAsOwner
  <2>1. SUFFICES ASSUME treesBox # None, ~treesSwept, "owner" \notin treesLost
                 PROVE  \A u \in 1..2 : treesFiles[u] <= treesFiles[treesBox.by]
    BY DEF Trees!RunsAsOwner
  <2>2. treesBox.by = Most(treesFiles, treesTop, treesUid)
    BY <2>1, OwnerIsMost DEF TreesInv, TreesTyped, OwnerKnown
  <2>3. treesFiles[1] \in Nat /\ treesFiles[2] \in Nat /\ 1..2 = {1, 2}
    BY DEF TreesInv, TreesTyped
  <2>4. treesBox.by \in 1..2
    BY <2>1 DEF TreesInv, TreesTyped
  <2>5. CASE treesFiles[1] + treesFiles[2] > 0
    BY <2>2, <2>3, <2>5 DEF Most
  <2>6. CASE treesFiles[1] = 0 /\ treesFiles[2] = 0
    BY <2>3, <2>4, <2>6
  <2> QED BY <2>3, <2>5, <2>6
<1>4. Trees!DistinctVolumesMounted
  <2>1. SUFFICES ASSUME treesSpec # None,
                        \A i \in DOMAIN treesFolders :
                          /\ treesFolders[i].path \notin Trees!Sources
                          /\ \A j \in DOMAIN treesFolders :
                               i # j => treesFolders[i].path # treesFolders[j].path,
                        NEW v \in treesSpec.rel.volumes
                 PROVE  IF v.source = "$AW_WORKSPACE_FOLDERS"
                        THEN \A i \in DOMAIN treesFolders :
                               \E b \in treesSpec.binds : b.target = treesFolders[i].name
                        ELSE \E b \in treesSpec.binds : b.target = v.source
    BY DEF Trees!DistinctVolumesMounted, Trees!EveryVolumeMounted
  <2>2. PICK r \in Packages, e \in 1..2 : treesSpec = Registered(r, e)
    BY <2>1 DEF TreesInv, Serves, Up
  <2>3. treesSpec.rel = r /\ treesSpec.binds = Trees!Binds(r, treesFolders)
    BY <2>2 DEF Registered
  <2>4. \A w \in r.volumes : w.source \in Trees!Sources
    BY <2>1, <2>3 DEF TreesInv, Serves, Up
  <2> QED BY <2>1, <2>3, <2>4, BindsAll
<1> QED BY <1>1, <1>2, <1>3, <1>4

LEMMA TreesAlone == [Next]_vars => [Trees!Next]_(Trees!treeVars)
<1>1. Next => TreesMoves \/ UNCHANGED treesVars
  BY SMT DEF Next, ConfigMoves, JobsMoves, MixedMoves, TwinsMoves, BoxesMoves, VpnMoves,
     SettingsMoves, DepsMoves, ToolsMoves, SeedsMoves, Unmoved
<1>2. UNCHANGED vars => UNCHANGED treesVars
  BY DEF vars
<1>3. UNCHANGED treesVars => UNCHANGED Trees!treeVars
  BY DEF treesVars, Trees!treeVars
<1> QED BY <1>1, <1>2, <1>3 DEF TreesMoves

\* ContainersStartOnWholeTrees: through failed downloads, swaps and clones, kills,
\* redeploys that chown everything and images that chown some of it back, a container app
\* runs from a whole tree of its own version and a whole checkout, as the user its data
\* belongs to, with the folders that are mapped, for any releases and folders and any
\* numbers of operations and faults (fetch_app_repo, ReposRegistry.clone, app_data_owner,
\* _container_volumes).
THEOREM ContainersStartOnWholeTreesHolds == Spec => []ContainersStartOnWholeTrees
<1>1. Init => TreesInv
  BY InitTrees DEF Init
<1>2. TreesInv /\ [Next]_vars => TreesInv'
  BY TreesAlone, StepTrees
<1>3. TreesInv => ContainersStartOnWholeTrees
  BY TreesStandWhole DEF ContainersStartOnWholeTrees
<1> QED BY <1>1, <1>2, <1>3, PTL DEF Spec

-----------------------------------------------------------------------------
\* What a container app runs with: its settings and its power over the host.
\* A container is always one that was started by the rules of the release and the host
\* of its time (Installed), and wherever the secret is kept, in the app, its row, the
\* snapshot or the install under way, it is the one of the last finished install
\* (OneSecret).

Chosen == [secret : Nat, public : Settings!Publics]
SettledRows == [man : Releases, cfg : Chosen]
Upgrades == [step : Settings!Steps, man : Releases, cfg : Chosen, prev : SettledRows \cup {None},
             was : Releases \cup {None}]

\* What the install under way is at.
Amid(steps) == settingsJob \in Upgrades /\ settingsJob.step \in steps

Ran(m, c, offer) ==
  [man |-> m, cfg |-> c, power |-> Settings!Arguments(Settings!Power(m, offer)),
   drops |-> m.optional \ Settings!Power(m, offer), offered |-> offer]

\* A container was started by the rules.
ByTheRules(m, c) ==
  /\ m \in Releases /\ c \in Chosen /\ (~m.standalone => c.public = "on")
  /\ \E offer \in Hosts : Settings!Resolves(m, offer) /\ settingsBox = Ran(m, c, offer)

SettingsTyped ==
  /\ settingsHost \in Hosts /\ settingsVersion \in 0..1
  /\ settingsRow \in SettledRows \cup {None} /\ settingsApp \in SettledRows \cup {None}
  /\ settingsSnap \in Chosen \cup {None}
  /\ settingsJob \in Upgrades \cup {None}
  /\ settingsMinted \in Nat /\ settingsHeld \in Nat

\* Where the app is, its row and its container.
Installed ==
  /\ Amid({"fetched", "resolved", "database"}) => settingsApp = None
  /\ Amid({"asked", "running", "rowed"}) => settingsApp \in SettledRows
  /\ settingsJob = None /\ settingsApp # None => settingsRow \in SettledRows
  /\ Amid({"rowed"}) => settingsRow \in SettledRows
  /\ Amid({"database"}) => Settings!Resolves(settingsJob.man, settingsHost)
  /\ settingsBox # None => \E m \in Releases, c \in Chosen : ByTheRules(m, c)
  /\ settingsApp # None => ByTheRules(settingsApp.man, settingsApp.cfg)

\* Wherever the secret is kept it is the one of the last finished install.
OneSecret ==
  /\ Amid({"running", "rowed"}) => settingsApp.cfg.secret = settingsJob.cfg.secret
  /\ Amid({"rowed"}) => settingsRow.cfg.secret = settingsJob.cfg.secret
  /\ settingsHeld # 0 =>
       /\ settingsSnap \in Chosen /\ settingsSnap.secret = settingsHeld
       /\ settingsRow # None => settingsRow.cfg.secret = settingsHeld
       /\ settingsApp # None => settingsApp.cfg.secret = settingsHeld
       /\ Amid(Settings!Steps) =>
            /\ settingsJob.prev # None => settingsJob.prev.cfg.secret = settingsHeld
            /\ \/ settingsJob.cfg.secret = settingsHeld
               \/ settingsJob.step = "fetched" /\ settingsJob.cfg = Settings!NoConfig

SettingsInv == SettingsTyped /\ Installed /\ OneSecret

LEMMA SettingsNone ==
  /\ None \notin Chosen /\ None \notin SettledRows /\ None \notin Upgrades
BY UpdatesAssumption DEF Chosen, SettledRows, Upgrades

LEMMA InstallAt ==
  ASSUME SettingsTyped
  PROVE  /\ \A step : settingsJob # None /\ settingsJob.step = step => Amid({step})
         /\ \A step : Amid({step}) => settingsJob.man \in Releases
                                       /\ settingsJob.cfg \in Chosen
                                       /\ settingsJob.prev \in SettledRows \cup {None}
  BY DEF SettingsTyped, Amid, Upgrades

\* A failure ends the install, or puts back what it was to replace.
LEMMA FailsBack ==
  ASSUME settingsJob \in Upgrades, Settings!Fails
  PROVE  \/ settingsJob' = None
         \/ /\ settingsJob' \in Upgrades /\ settingsJob'.step = "fetched"
            /\ settingsJob'.prev = None
            /\ settingsJob.prev \in SettledRows
            /\ settingsJob'.cfg = settingsJob.prev.cfg
<1>1. CASE settingsJob.prev = None
  BY <1>1 DEF Settings!Fails
<1>2. CASE settingsJob.prev # None
  <2>1. settingsJob.prev \in SettledRows
    BY <1>2 DEF Upgrades
  <2>2. settingsJob.prev.man \in Releases /\ settingsJob.prev.cfg \in Chosen
    BY <2>1 DEF SettledRows
  <2>3. settingsJob' = [settingsJob EXCEPT !.step = "fetched", !.man = settingsJob.prev.man,
                            !.cfg = settingsJob.prev.cfg, !.prev = None]
    BY <1>2 DEF Settings!Fails
  <2> QED BY <2>1, <2>2, <2>3 DEF Upgrades, Settings!Steps
<1> QED BY <1>1, <1>2

LEMMA BoxStays ==
  ASSUME UNCHANGED settingsBox, NEW m, NEW c
  PROVE  ByTheRules(m, c)' <=> ByTheRules(m, c)
BY DEF ByTheRules

\* Before the app is up again.
LEMMA PreparingKeeps ==
  ASSUME SettingsInv,
         \/ Settings!Refused \/ Settings!Resolve \/ Settings!LegMissing
         \/ Settings!StartDatabase \/ Settings!StartFails
  PROVE  SettingsInv'
<1>1. SettingsTyped
  BY DEF SettingsInv
<1>2. /\ Amid({"fetched", "resolved", "database"}) /\ settingsApp = None
      /\ UNCHANGED <<settingsHost, settingsVersion, settingsRow, settingsSnap, settingsApp,
                     settingsHeld>>
      /\ settingsBox' \in {settingsBox, None}
  <2>1. Amid({"fetched", "resolved", "database"})
    BY <1>1, InstallAt DEF Settings!Refused, Settings!Resolve, Settings!LegMissing,
       Settings!StartDatabase, Settings!StartFails, Amid
  <2>2. settingsApp = None
    BY <2>1 DEF SettingsInv, Installed
  <2> QED BY <2>1, <2>2 DEF Settings!Refused, Settings!Resolve, Settings!LegMissing,
       Settings!StartDatabase, Settings!StartFails
<1>3. CASE Settings!Refused \/ Settings!LegMissing \/ Settings!StartFails
  <2>1. /\ settingsMinted' = settingsMinted
        /\ \/ settingsJob' = None
           \/ /\ settingsJob' \in Upgrades /\ settingsJob'.step = "fetched"
              /\ settingsJob'.prev = None
              /\ settingsJob.prev \in SettledRows
              /\ settingsJob'.cfg = settingsJob.prev.cfg
    BY <1>2, <1>3, FailsBack DEF Settings!Refused, Settings!LegMissing,
       Settings!StartFails, Amid
  <2>2. SettingsTyped'
    BY <1>1, <1>2, <2>1 DEF SettingsTyped
  <2>3. Installed'
    BY <1>2, <2>1, BoxStays, SettingsNone DEF SettingsInv, Installed, Amid
  <2>4. OneSecret'
    BY <1>2, <2>1, SettingsNone DEF SettingsInv, OneSecret, Amid, Upgrades
  <2> QED BY <2>2, <2>3, <2>4 DEF SettingsInv
<1>4. CASE Settings!Resolve
  <2> DEFINE cfg == Settings!Restored(settingsJob.cfg)
             mint == cfg.secret = 0
  <2>1. /\ Amid({"fetched"}) /\ UNCHANGED settingsBox
        /\ settingsMinted' = IF mint THEN settingsMinted + 1 ELSE settingsMinted
        /\ settingsJob' = [settingsJob EXCEPT !.step = "resolved",
             !.cfg = IF mint THEN [cfg EXCEPT !.secret = settingsMinted + 1] ELSE cfg]
    BY <1>1, <1>4, InstallAt DEF Settings!Resolve
  <2>2. cfg \in Chosen
    BY <1>1, <2>1, InstallAt DEF Settings!Restored, SettingsTyped
  <2>3. settingsHeld # 0 => cfg.secret = settingsHeld
    <3>1. SUFFICES ASSUME settingsHeld # 0 PROVE cfg.secret = settingsHeld
      OBVIOUS
    <3>2. CASE settingsJob.cfg = Settings!NoConfig
      BY <2>1, <3>1, <3>2, SettingsNone DEF SettingsInv, OneSecret, Settings!Restored
    <3>3. CASE settingsJob.cfg # Settings!NoConfig
      BY <2>1, <3>1, <3>3 DEF SettingsInv, OneSecret, Settings!Restored, Amid, Upgrades
    <3> QED BY <3>2, <3>3
  <2> HIDE DEF cfg
  <2>4. /\ settingsMinted' \in Nat /\ settingsMinted + 1 \in Nat
    BY <1>1, <2>1 DEF SettingsTyped
  <2>5. (IF mint THEN [cfg EXCEPT !.secret = settingsMinted + 1] ELSE cfg) \in Chosen
    BY <2>2, <2>4 DEF Chosen
  <2>6. /\ settingsJob' \in Upgrades /\ settingsJob'.step = "resolved"
        /\ settingsJob'.prev = settingsJob.prev /\ (~mint => settingsJob'.cfg = cfg)
    BY <2>1, <2>5 DEF Upgrades, Settings!Steps, Amid
  <2>7. SettingsTyped'
    BY <1>1, <1>2, <2>4, <2>6 DEF SettingsTyped
  <2>8. Installed'
    BY <1>2, <2>1, <2>6, BoxStays, SettingsNone DEF SettingsInv, Installed, Amid
  <2>9. OneSecret'
    BY <1>1, <1>2, <2>1, <2>3, <2>6, SettingsNone DEF SettingsInv, OneSecret, Amid,
       SettingsTyped, Settings!Steps
  <2> QED BY <2>7, <2>8, <2>9 DEF SettingsInv
<1>5. CASE Settings!StartDatabase
  <2>1. /\ Amid({"resolved"}) /\ UNCHANGED <<settingsBox, settingsMinted>>
        /\ Settings!Resolves(settingsJob.man, settingsHost)
        /\ settingsJob' = [settingsJob EXCEPT !.step = "database"]
    BY <1>1, <1>5, InstallAt DEF Settings!StartDatabase
  <2>2. /\ settingsJob' \in Upgrades /\ settingsJob'.step = "database"
        /\ settingsJob'.prev = settingsJob.prev /\ settingsJob'.cfg = settingsJob.cfg
        /\ settingsJob'.man = settingsJob.man
    BY <2>1 DEF Upgrades, Settings!Steps, Amid
  <2>3. SettingsTyped'
    BY <1>1, <1>2, <2>1, <2>2 DEF SettingsTyped
  <2>4. Installed'
    BY <1>2, <2>1, <2>2, BoxStays, SettingsNone DEF SettingsInv, Installed, Amid
  <2>5. OneSecret'
    BY <1>2, <2>1, <2>2, SettingsNone DEF SettingsInv, OneSecret, Amid, Settings!Steps
  <2> QED BY <2>3, <2>4, <2>5 DEF SettingsInv
<1> QED BY <1>3, <1>4, <1>5

\* An install or an update begins.
LEMMA AsksKeep ==
  ASSUME SettingsInv,
         \/ \E m \in Releases : Settings!Install(m) \/ Settings!Update(m) \/ Settings!Desired(m)
         \/ Settings!Reconcile
  PROVE  SettingsInv'
<1>1. SettingsTyped
  BY DEF SettingsInv
<1>2. /\ settingsJob = None
      /\ UNCHANGED <<settingsHost, settingsVersion, settingsSnap, settingsApp, settingsBox,
                     settingsMinted, settingsHeld>>
  BY DEF Settings!Install, Settings!Update, Settings!Desired, Settings!Reconcile
<1>3. CASE (\E m \in Releases : Settings!Install(m)) \/ Settings!Reconcile
  <2>1. settingsApp = None /\ UNCHANGED settingsRow
    BY <1>3 DEF Settings!Install, Settings!Reconcile
  <2>2. PICK m \in Releases, cfg \in Chosen :
          /\ cfg = Settings!NoConfig \/ (settingsRow # None /\ cfg = settingsRow.cfg)
          /\ Settings!Begin(m, cfg)
    <3>1. settingsRow # None => settingsRow.man \in Releases /\ settingsRow.cfg \in Chosen
      BY <1>1 DEF SettingsTyped, SettledRows
    <3>2. Settings!NoConfig \in Chosen
      BY DEF Settings!NoConfig, Chosen, Settings!Publics
    <3>3. CASE \E m \in Releases : Settings!Install(m)
      BY <3>1, <3>2, <3>3 DEF Settings!Install
    <3>4. CASE Settings!Reconcile
      BY <3>1, <3>4 DEF Settings!Reconcile
    <3> QED BY <1>3, <3>3, <3>4
  <2>3. /\ settingsJob' \in Upgrades /\ settingsJob'.step = "fetched"
        /\ settingsJob'.prev = None /\ settingsJob'.cfg = cfg
    BY <2>2 DEF Settings!Begin, Upgrades, Settings!Steps
  <2>4. SettingsTyped'
    BY <1>1, <1>2, <2>1, <2>3 DEF SettingsTyped
  <2>5. Installed'
    BY <1>2, <2>1, <2>3, BoxStays, SettingsNone DEF SettingsInv, Installed, Amid
  <2>6. OneSecret'
    BY <1>2, <2>1, <2>2, <2>3, SettingsNone DEF SettingsInv, OneSecret, Amid
  <2> QED BY <2>4, <2>5, <2>6 DEF SettingsInv
<1>4. CASE \E m \in Releases : Settings!Update(m) \/ Settings!Desired(m)
  <2>1. PICK m \in Releases : Settings!Update(m) \/ Settings!Desired(m)
    BY <1>4
  <2>2. /\ settingsApp \in SettledRows
        /\ settingsApp # None /\ settingsRow \in SettledRows
    BY <1>1, <1>2, <2>1 DEF Settings!Update, Settings!Desired, SettingsTyped, SettingsInv,
       Installed
  <2>3. /\ \/ settingsRow' = settingsRow
           \/ settingsRow' = [man |-> m, cfg |-> settingsApp.cfg]
        /\ settingsJob' = [step |-> "asked", man |-> m, cfg |-> settingsApp.cfg,
                           prev |-> None, was |-> settingsApp.man]
    BY <2>1 DEF Settings!Update, Settings!Desired
  <2>4. settingsApp.cfg \in Chosen /\ settingsApp.man \in Releases
    BY <2>2 DEF SettledRows
  <2>5. /\ settingsRow' \in SettledRows
        /\ settingsRow'.cfg \in {settingsRow.cfg, settingsApp.cfg}
    BY <2>2, <2>3, <2>4 DEF SettledRows
  <2>6. /\ settingsJob' \in Upgrades /\ settingsJob'.step = "asked"
        /\ settingsJob'.prev = None /\ settingsJob'.cfg = settingsApp.cfg
    BY <2>3, <2>4 DEF Upgrades, Settings!Steps
  <2>7. SettingsTyped'
    BY <1>1, <1>2, <2>5, <2>6 DEF SettingsTyped
  <2>8. Installed'
    BY <1>2, <2>2, <2>5, <2>6, BoxStays, SettingsNone DEF SettingsInv, Installed, Amid
  <2>9. OneSecret'
    BY <1>2, <2>2, <2>5, <2>6, SettingsNone DEF SettingsInv, OneSecret, Amid
  <2> QED BY <2>7, <2>8, <2>9 DEF SettingsInv
<1> QED BY <1>3, <1>4

\* The release that is replaced, or removed, goes with its container and its row.
LEMMA GoesKeep ==
  ASSUME SettingsInv, Settings!Replace \/ Settings!Uninstall
  PROVE  SettingsInv'
<1>1. SettingsTyped
  BY DEF SettingsInv
<1>2. /\ settingsApp \in SettledRows
      /\ settingsSnap' = settingsApp.cfg /\ settingsApp' = None
      /\ settingsBox' = None /\ settingsRow' = None
      /\ UNCHANGED <<settingsHost, settingsVersion, settingsMinted, settingsHeld>>
  BY <1>1, InstallAt DEF SettingsInv, Installed, Settings!Replace, Settings!Uninstall, Amid,
     SettingsTyped
<1>3. \/ settingsJob = None /\ settingsJob' = None
      \/ /\ Amid({"asked"}) /\ settingsJob' \in Upgrades /\ settingsJob'.step = "fetched"
         /\ settingsJob'.prev = settingsRow /\ settingsJob'.cfg = settingsJob.cfg
  <2>1. CASE Settings!Replace
    <3>1. Amid({"asked"})
          /\ settingsJob' = [settingsJob EXCEPT !.step = "fetched", !.prev = settingsRow]
      BY <1>1, <2>1, InstallAt DEF Settings!Replace
    <3> QED BY <1>1, <3>1 DEF Amid, Upgrades, Settings!Steps, SettingsTyped
  <2>2. CASE Settings!Uninstall
    BY <2>2 DEF Settings!Uninstall
  <2> QED BY <2>1, <2>2
<1>4. settingsApp.cfg \in Chosen
  BY <1>2 DEF SettledRows
<1>5. SettingsTyped'
  BY <1>1, <1>2, <1>3, <1>4 DEF SettingsTyped
<1>6. Installed'
  BY <1>2, <1>3, SettingsNone DEF Installed, Amid
<1>7. settingsApp # None
  BY <1>2, SettingsNone
<1>8. OneSecret'
  BY <1>2, <1>3, <1>4, <1>7, SettingsNone DEF SettingsInv, OneSecret, Amid, Settings!Steps
<1> QED BY <1>5, <1>6, <1>8 DEF SettingsInv

LEMMA DefaultsKeep ==
  ASSUME NEW m, NEW cfg \in Chosen
  PROVE  /\ Settings!WithDefaults(m, cfg) \in Chosen
         /\ Settings!WithDefaults(m, cfg).secret = cfg.secret
         /\ ~m.standalone => Settings!WithDefaults(m, cfg).public = "on"
BY DEF Settings!WithDefaults, Settings!Default, Chosen, Settings!Publics

\* The container starts with what its release and its host agree on.
LEMMA AppStartsKeep == ASSUME SettingsInv, Settings!StartApp PROVE SettingsInv'
<1>1. SettingsTyped
  BY DEF SettingsInv
<1>2. Amid({"database"}) /\ settingsApp = None
      /\ settingsJob' = [settingsJob EXCEPT !.step = "running"]
      /\ UNCHANGED <<settingsHost, settingsVersion, settingsRow, settingsSnap,
                     settingsMinted, settingsHeld>>
  <2>1. Amid({"database"})
    BY <1>1, InstallAt DEF Settings!StartApp
  <2> QED BY <2>1 DEF Settings!StartApp, SettingsInv, Installed, Amid
<1>3. PICK m \in Releases, c \in Chosen :
        /\ m = settingsJob.man /\ c = Settings!WithDefaults(m, settingsJob.cfg)
        /\ c.secret = settingsJob.cfg.secret
        /\ ~m.standalone => c.public = "on"
  BY <1>1, <1>2, InstallAt, DefaultsKeep
<1>4. /\ settingsBox' = Ran(m, c, settingsHost)
      /\ settingsApp' = [man |-> m, cfg |-> c]
  BY <1>3 DEF Settings!StartApp, Ran
<1>5. Settings!Resolves(m, settingsHost)
  BY <1>2, <1>3 DEF SettingsInv, Installed
<1>6. PICK offer \in Hosts : settingsBox' = Ran(m, c, offer) /\ Settings!Resolves(m, offer)
  BY <1>1, <1>4, <1>5 DEF SettingsTyped
<1>7. ByTheRules(m, c)'
  BY <1>3, <1>6 DEF ByTheRules, Ran
<1>8. /\ settingsApp' \in SettledRows /\ settingsApp'.man = m /\ settingsApp'.cfg = c
  BY <1>4 DEF SettledRows
<1>9. /\ settingsJob' \in Upgrades /\ settingsJob'.step = "running"
      /\ settingsJob'.prev = settingsJob.prev /\ settingsJob'.cfg = settingsJob.cfg
  BY <1>2 DEF Amid, Upgrades, Settings!Steps
<1>10. SettingsTyped'
  BY <1>1, <1>2, <1>8, <1>9 DEF SettingsTyped
<1>11. ByTheRules(settingsApp.man, settingsApp.cfg)'
  BY <1>7, <1>8 DEF ByTheRules
<1>12. Installed'
  BY <1>2, <1>7, <1>8, <1>9, <1>11, SettingsNone DEF Installed, Amid
<1>13. OneSecret'
  BY <1>2, <1>3, <1>8, <1>9, SettingsNone DEF SettingsInv, OneSecret, Amid, Settings!Steps
<1> QED BY <1>10, <1>12, <1>13 DEF SettingsInv

\* The row and the snapshot of the install are written.
LEMMA RecordsKeep ==
  ASSUME SettingsInv, Settings!SaveRow \/ Settings!SaveSnapshot
  PROVE  SettingsInv'
<1>1. SettingsTyped
  BY DEF SettingsInv
<1>2. UNCHANGED <<settingsHost, settingsVersion, settingsApp, settingsBox, settingsMinted>>
  BY DEF Settings!SaveRow, Settings!SaveSnapshot
<1>3. settingsApp # None => ByTheRules(settingsApp.man, settingsApp.cfg)'
  BY <1>2, BoxStays DEF SettingsInv, Installed
<1>4. settingsApp' # None => (ByTheRules(settingsApp.man, settingsApp.cfg))'
  BY <1>2, <1>3 DEF ByTheRules
<1>5. CASE Settings!SaveRow
  <2>1. /\ Amid({"running"})
        /\ settingsRow' = [man |-> settingsJob.man, cfg |-> settingsJob.cfg]
        /\ settingsJob' = [settingsJob EXCEPT !.step = "rowed"]
        /\ UNCHANGED <<settingsSnap, settingsHeld>>
    BY <1>1, <1>5, InstallAt DEF Settings!SaveRow
  <2>2. settingsRow' \in SettledRows /\ settingsRow'.cfg = settingsJob.cfg
    BY <1>1, <2>1, InstallAt DEF SettledRows
  <2>3. /\ settingsJob' \in Upgrades /\ settingsJob'.step = "rowed"
        /\ settingsJob'.prev = settingsJob.prev /\ settingsJob'.cfg = settingsJob.cfg
    BY <2>1 DEF Amid, Upgrades, Settings!Steps
  <2>4. SettingsTyped'
    BY <1>1, <1>2, <2>1, <2>2, <2>3 DEF SettingsTyped
  <2>5. Installed'
    BY <1>2, <1>4, <2>1, <2>2, <2>3, BoxStays, SettingsNone DEF SettingsInv, Installed,
       Amid
  <2>6. OneSecret'
    BY <1>2, <2>1, <2>2, <2>3, SettingsNone DEF SettingsInv, OneSecret, Amid,
       Settings!Steps
  <2> QED BY <2>4, <2>5, <2>6 DEF SettingsInv
<1>6. CASE Settings!SaveSnapshot
  <2>1. /\ Amid({"rowed"}) /\ settingsJob' = None
        /\ settingsSnap' = settingsJob.cfg /\ settingsHeld' = settingsJob.cfg.secret
        /\ UNCHANGED settingsRow
    BY <1>1, <1>6, InstallAt DEF Settings!SaveSnapshot
  <2>2. settingsSnap' \in Chosen /\ settingsHeld' \in Nat
    BY <1>1, <2>1, InstallAt DEF Chosen
  <2>3. SettingsTyped'
    BY <1>1, <1>2, <2>1, <2>2 DEF SettingsTyped
  <2>4. Installed'
    BY <1>2, <1>4, <2>1, BoxStays, SettingsNone DEF SettingsInv, Installed, Amid
  <2>5. OneSecret'
    BY <1>2, <2>1, <2>2, SettingsNone DEF SettingsInv, OneSecret, Amid
  <2> QED BY <2>3, <2>4, <2>5 DEF SettingsInv
<1> QED BY <1>5, <1>6

\* A save: the app, both records and the container get the same settings.
LEMMA SavesKeep ==
  ASSUME SettingsInv, NEW p \in {"on", "off"}, Settings!SaveConfig(p)
  PROVE  SettingsInv'
<1>1. SettingsTyped
  BY DEF SettingsInv
<1>2. /\ settingsJob = None /\ settingsJob' = None /\ settingsApp # None
      /\ settingsApp \in SettledRows /\ settingsRow \in SettledRows
      /\ ByTheRules(settingsApp.man, settingsApp.cfg)
      /\ UNCHANGED <<settingsHost, settingsVersion, settingsMinted, settingsHeld>>
  BY <1>1 DEF Settings!SaveConfig, SettingsTyped, SettingsInv, Installed
<1>3. [settingsApp.cfg EXCEPT !.public = p] \in Chosen
      /\ [settingsApp.cfg EXCEPT !.public = p].secret = settingsApp.cfg.secret
      /\ settingsApp.man \in Releases
  BY <1>2 DEF SettledRows, Chosen, Settings!Publics
<1>4. PICK m \in Releases, given \in Chosen :
        /\ m = settingsApp.man /\ given = [settingsApp.cfg EXCEPT !.public = p]
        /\ given.secret = settingsApp.cfg.secret
  BY <1>3
<1>5. PICK c \in Chosen :
        /\ c = Settings!WithDefaults(m, given) /\ c.secret = settingsApp.cfg.secret
        /\ ~m.standalone => c.public = "on"
  <2>1. /\ Settings!WithDefaults(m, given) \in Chosen
        /\ Settings!WithDefaults(m, given).secret = given.secret
        /\ ~m.standalone => Settings!WithDefaults(m, given).public = "on"
    BY DefaultsKeep
  <2> QED BY <1>4, <2>1
<1>6. /\ settingsApp' = [settingsApp EXCEPT !.cfg = c]
      /\ settingsSnap' = c
      /\ settingsRow' = [settingsRow EXCEPT !.cfg = c]
      /\ settingsBox' = [settingsBox EXCEPT !.cfg = c]
  BY <1>4, <1>5 DEF Settings!SaveConfig
<1>7. /\ settingsApp' \in SettledRows /\ settingsApp'.man = m /\ settingsApp'.cfg = c
      /\ settingsRow' \in SettledRows /\ settingsRow'.cfg = c
  BY <1>2, <1>4, <1>6, <1>5 DEF SettledRows
<1>8. PICK offer \in Hosts :
        Settings!Resolves(m, offer) /\ settingsBox = Ran(m, settingsApp.cfg, offer)
  BY <1>2, <1>4 DEF ByTheRules
<1>9. settingsBox' = Ran(m, c, offer)
  BY <1>6, <1>8 DEF Ran
<1>10. ByTheRules(m, c)'
  BY <1>4, <1>8, <1>9, <1>5 DEF ByTheRules, Ran
<1>11. (ByTheRules(settingsApp.man, settingsApp.cfg))'
  BY <1>7, <1>10 DEF ByTheRules
<1>12. SettingsTyped'
  BY <1>1, <1>2, <1>6, <1>7 DEF SettingsTyped
<1>13. Installed'
  BY <1>2, <1>7, <1>10, <1>11, SettingsNone DEF Installed, Amid
<1>14. OneSecret'
  BY <1>2, <1>5, <1>6, <1>7, SettingsNone DEF SettingsInv, OneSecret, Amid
<1> QED BY <1>12, <1>13, <1>14 DEF SettingsInv

LEMMA RestartsSettle ==
  ASSUME SettingsInv, Settings!Restart \/ UNCHANGED Settings!settingVars
  PROVE  SettingsInv'
<1>1. SettingsTyped
  BY DEF SettingsInv
<1>2. CASE Settings!Restart
  <2>1. /\ settingsHost' \in Hosts /\ settingsVersion' \in 0..1
        /\ settingsApp' = None /\ settingsJob' = None
        /\ UNCHANGED <<settingsRow, settingsSnap, settingsBox, settingsMinted,
                       settingsHeld>>
    BY <1>2 DEF Settings!Restart
  <2>2. SettingsTyped'
    BY <1>1, <2>1 DEF SettingsTyped
  <2>3. Installed'
    BY <2>1, BoxStays, SettingsNone DEF SettingsInv, Installed, Amid
  <2>4. OneSecret'
    BY <2>1, SettingsNone DEF SettingsInv, OneSecret, Amid
  <2> QED BY <2>2, <2>3, <2>4 DEF SettingsInv
<1>3. CASE UNCHANGED Settings!settingVars
  <2>1. UNCHANGED <<settingsHost, settingsVersion, settingsRow, settingsSnap, settingsApp,
                    settingsBox, settingsJob, settingsMinted, settingsHeld>>
    BY <1>3 DEF Settings!settingVars
  <2>2. SettingsTyped' /\ OneSecret'
    BY <2>1 DEF SettingsInv, SettingsTyped, OneSecret, Amid
  <2>3. Installed'
    BY <2>1 DEF SettingsInv, Installed, Amid, ByTheRules
  <2> QED BY <2>2, <2>3 DEF SettingsInv
<1> QED BY <1>2, <1>3

LEMMA InitUpdates == Settings!Init => SettingsInv
BY SettingsNone DEF Settings!Init, SettingsInv, SettingsTyped, Installed, OneSecret, Amid

LEMMA StepSettings == SettingsInv /\ [Settings!Next]_(Settings!settingVars) => SettingsInv'
<1> SUFFICES ASSUME SettingsInv, [Settings!Next]_(Settings!settingVars) PROVE SettingsInv'
  OBVIOUS
<1> QED BY PreparingKeeps, AsksKeep, GoesKeep, AppStartsKeep, RecordsKeep, SavesKeep,
           RestartsSettle DEF Settings!Next, Settings!Done

\* What is started by the rules has the power it earned.
LEMMA RanEarned ==
  ASSUME NEW m, NEW c, NEW offer, Settings!Resolves(m, offer)
  PROVE  LET box == Ran(m, c, offer)
         IN  /\ box.power \subseteq Settings!Available(box.offered)
             /\ box.man.required \subseteq box.power
             /\ "privileged" \notin box.man.required \cup box.man.optional =>
                   box.power \subseteq (box.man.required \cup box.man.optional)
                                          \cap Settings!Held(box.man)
<1> DEFINE power == Settings!Power(m, offer)
           all == Settings!Available(offer)
<1>1. power = m.required \cup (m.optional \cap all)
  BY DEF Settings!Power
<1>2. m.required \subseteq all /\ m.required \cup m.optional \subseteq Settings!Held(m)
  BY DEF Settings!Resolves
<1>3. "privileged" \in all => all = Settings!Grants
  BY DEF Settings!Available
<1>4. Settings!Arguments(power) = IF "privileged" \in power THEN Settings!Grants ELSE power
  BY DEF Settings!Arguments
<1>5. /\ Ran(m, c, offer).power = Settings!Arguments(power)
      /\ Ran(m, c, offer).offered = offer /\ Ran(m, c, offer).man = m
  BY DEF Ran
<1> HIDE DEF power, all
<1>6. Settings!Arguments(power) \subseteq all /\ m.required \subseteq Settings!Arguments(power)
  BY <1>1, <1>2, <1>3, <1>4
<1>7. "privileged" \notin m.required \cup m.optional =>
        Settings!Arguments(power) \subseteq (m.required \cup m.optional) \cap Settings!Held(m)
  BY <1>1, <1>2, <1>4
<1> QED BY <1>5, <1>6, <1>7 DEF all

LEMMA UpdatesAreRuled ==
  SettingsInv => Settings!PowerIsEarned /\ Settings!LockHolds /\ Settings!SecretStays
<1> SUFFICES ASSUME SettingsInv
             PROVE  Settings!PowerIsEarned /\ Settings!LockHolds /\ Settings!SecretStays
  OBVIOUS
<1>1. Settings!SecretStays
  BY DEF SettingsInv, OneSecret, Settings!SecretStays
<1>2. ASSUME settingsBox # None
      PROVE  \E m \in Releases, c \in Chosen, offer \in Hosts :
               /\ ~m.standalone => c.public = "on"
               /\ Settings!Resolves(m, offer) /\ settingsBox = Ran(m, c, offer)
  BY <1>2 DEF SettingsInv, Installed, ByTheRules
<1>3. Settings!LockHolds
  BY <1>2 DEF Settings!LockHolds, Ran
<1>4. Settings!PowerIsEarned
  BY <1>2, RanEarned DEF Settings!PowerIsEarned
<1> QED BY <1>1, <1>3, <1>4

-----------------------------------------------------------------------------
\* What apps seed and correct, for one app that declares an object and the provider of
\* the objects.  What no user has touched is the baseline, or the release just written
\* whose baseline is next (Baselined); what a seeding is about to write over is a release
\* of its own, never a text it saw from a user (EditsSeen); and a release that is not late
\* is on its object, is being seeded, or waits for the boot (Followed).

Shipped == 2..3
Contents == [content : Shipped \cup {Seeds!Own}, by : {"app", "user"}]
Loads == [{AppA} -> Shipped \cup {Seeds!Absent}]
Declared == [app : {AppA}, rel : Shipped]
Seedings == [by : Workers, todo : Seq(Declared) \ {<<>>},
             step : {"create", "read", "write", "record"}, seen : Shipped \cup {Seeds!Own}]

SeedsTyped ==
  /\ seedsKind \in {"tasks", "agents"} /\ seedsCapable \in BOOLEAN
  /\ seedsWanted \in Loads /\ seedsMem \in [Workers -> Loads]
  /\ seedsPending \in [Workers -> Loads]
  /\ seedsRun \in Seedings \cup {None}
  /\ seedsLive \in [{AppA} -> Contents \cup {None}]
  /\ seedsLocal \in Loads /\ seedsRemote \in Loads
  /\ seedsSlips \in [{AppA} -> SUBSET Seeds!Slips]
  /\ AppA \in seedsBoot => seedsWanted[AppA] # Seeds!Absent

Clean == seedsSlips[AppA] = {}
There == seedsLive[AppA] # None
Ours == There /\ seedsLive[AppA].by = "app"
Says == seedsLive[AppA].content
Within(steps) == seedsRun \in Seedings /\ seedsRun.step \in steps

\* The baseline of what no user has touched.
Baselined ==
  /\ ~Seeds!Remote => seedsRemote[AppA] = Seeds!Absent
  /\ Clean /\ Ours =>
        \/ Says = Seeds!Baseline(AppA)
        \/ Within({"read", "record"}) /\ Says = Seeds!Now.rel
  /\ Clean /\ Ours /\ Within({"record"}) => Says = Seeds!Now.rel
  /\ Clean /\ Ours /\ Within({"write"}) => Says = Seeds!Baseline(AppA)

\* An edit that was seen is not overwritten.
EditsSeen ==
  /\ There /\ ~Ours /\ Says # Seeds!Own => "agreed" \in seedsSlips[AppA]
  /\ Within({"write"}) => seedsRun.seen \in Shipped
  /\ Seeds!EditsHold

\* A release that is installed and not late is on the object, or will be.
Followed ==
  seedsWanted[AppA] # Seeds!Absent /\ AppA \notin seedsLate /\ Clean =>
    \/ AppA \in seedsBoot
    \/ Within({"create"})
    \/ Within({"read", "write", "record"}) /\ Seeds!Now.rel = seedsWanted[AppA] /\ There
    \/ seedsRun = None /\ There /\ (Ours => Says = seedsWanted[AppA])

SeedsInv == SeedsTyped /\ Baselined /\ EditsSeen /\ Followed

LEMMA SeedValues ==
  /\ Seeds!Absent = 0 /\ Seeds!Own = 1
  /\ \A r \in Shipped : r # Seeds!Absent /\ r # Seeds!Own
  /\ None \notin Contents /\ None \notin Seedings
BY SeedsAssumption DEF Seeds!Absent, Seeds!Own, Shipped, Contents, Seedings, Declared

\* The one app's declarations, in whichever order they are taken.
LEMMA OneInOrder ==
  ASSUME NEW S, S = {} \/ \E x : S = {x}
  PROVE  /\ Seeds!SetToSeq(S) \in Seq(S)
         /\ S # {} => Seeds!SetToSeq(S) # <<>>
<1> DEFINE n == Seeds!Cardinality(S)
           Sorts(f) == f \in [1..n -> S] /\ \A i, j \in DOMAIN f : f[i] = f[j] => i = j
<1>1. Seeds!SetToSeq(S) = CHOOSE f : Sorts(f)
  BY Zenon DEF Seeds!SetToSeq, Seeds!IsInjective
<1>2. n \in {0, 1} /\ (S = {} => n = 0) /\ (S # {} => n = 1)
  <2>1. n = Cardinality(S)
    BY Zenon DEF Cardinality, Seeds!Cardinality
  <2> HIDE DEF n
  <2> QED BY <2>1, FS_EmptySet, FS_Singleton
<1> HIDE DEF n
<1>3. \E f : Sorts(f)
  <2>1. CASE S = {}
    BY <1>2, <2>1, Sorts([i \in 1..n |-> i])
  <2>2. CASE S # {}
    <3>1. PICK x : S = {x}
      BY <2>2
    <3> QED BY <1>2, <2>2, <3>1, Sorts([i \in 1..n |-> x])
  <2> QED BY <2>1, <2>2
<1> DEFINE f == CHOOSE f : Sorts(f)
<1>4. f \in [1..n -> S]
  <2>1. Sorts(f)
    BY <1>3
  <2> QED BY <2>1
<1> HIDE DEF f
<1>5. f \in Seq(S) /\ Len(f) = n
  BY <1>2, <1>4
<1> QED BY <1>1, <1>2, <1>5 DEF f

LEMMA SweepsIn ==
  ASSUME SeedsTyped, NEW w \in Workers, Seeds!Sweep(w)
  PROVE  /\ seedsRun' \in Seedings \cup {None}
         /\ seedsRun' # None => seedsRun'.step = "create"
         /\ seedsMem[w][AppA] # Seeds!Absent => seedsRun' \in Seedings
         /\ seedsPending' \in [Workers -> Loads] /\ UNCHANGED seedsMem
<1> DEFINE Set(of) == {Seeds!Job(a, of[a]) : a \in {b \in {AppA} : of[b] # Seeds!Absent}}
<1>1. ASSUME NEW of \in Loads
      PROVE  /\ Seeds!SetToSeq(Set(of)) \in Seq(Declared)
             /\ of[AppA] # Seeds!Absent => Seeds!SetToSeq(Set(of)) # <<>>
  <2>1. CASE of[AppA] = Seeds!Absent
    <3>1. Set(of) = {}
      BY <2>1
    <3> HIDE DEF Set
    <3>2. Seeds!SetToSeq(Set(of)) \in Seq(Set(of))
      BY <3>1, OneInOrder
    <3> QED BY <2>1, <3>1, <3>2
  <2>2. CASE of[AppA] # Seeds!Absent
    <3>1. Set(of) = {Seeds!Job(AppA, of[AppA])} /\ Seeds!Job(AppA, of[AppA]) \in Declared
      BY <2>2 DEF Loads, Declared, Seeds!Job
    <3> HIDE DEF Set
    <3>2. Seeds!SetToSeq(Set(of)) \in Seq(Set(of)) /\ Seeds!SetToSeq(Set(of)) # <<>>
      BY <3>1, OneInOrder
    <3>3. Set(of) \subseteq Declared
      BY <3>1
    <3> QED BY <3>2, <3>3
  <2> QED BY <2>1, <2>2
<1>2. seedsPending[w] \in Loads /\ seedsMem[w] \in Loads
  BY DEF SeedsTyped
<1> DEFINE first == Seeds!SetToSeq(Set(seedsPending[w]))
           rest == Seeds!SetToSeq(Set(seedsMem[w]))
<1>3. /\ seedsRun' = Seeds!Seeding(w, first \o rest) /\ UNCHANGED seedsMem
      /\ seedsPending' = [seedsPending EXCEPT ![w] = Seeds!Nothing]
  BY DEF Seeds!Sweep
<1>4. /\ first \in Seq(Declared) /\ rest \in Seq(Declared)
      /\ seedsMem[w][AppA] # Seeds!Absent => rest # <<>>
  BY <1>1, <1>2
<1> HIDE DEF first, rest
<1> DEFINE todo == first \o rest
<1>5. todo \in Seq(Declared) /\ (rest # <<>> => todo # <<>>)
  <2>1. todo \in Seq(Declared) /\ Len(todo) = Len(first) + Len(rest)
    BY <1>4
  <2>2. rest # <<>> => Len(rest) > 0
    BY <1>4
  <2>3. Len(first) \in Nat /\ Len(rest) \in Nat
    BY <1>4
  <2>4. rest # <<>> => Len(todo) > 0
    BY <2>1, <2>2, <2>3
  <2> QED BY <2>1, <2>4
<1> HIDE DEF todo
<1>6. seedsRun' = IF todo = <<>> THEN None
                  ELSE [by |-> w, todo |-> todo, step |-> "create", seen |-> Seeds!Own]
  BY <1>3 DEF Seeds!Seeding, todo
<1>7. Seeds!Nothing \in Loads
  BY DEF Seeds!Nothing, Loads
<1> QED BY <1>3, <1>4, <1>5, <1>6, <1>7 DEF Seedings, SeedsTyped

LEMMA NowIs ==
  ASSUME seedsRun \in Seedings
  PROVE  Seeds!Now.app = AppA /\ Seeds!Now.rel \in Shipped
<1>1. seedsRun.todo \in Seq(Declared) /\ seedsRun.todo # <<>>
  BY DEF Seedings
<1>2. Head(seedsRun.todo) \in Declared
  BY <1>1
<1> QED BY <1>2 DEF Seeds!Now, Declared

LEMMA NextIs ==
  ASSUME seedsRun \in Seedings, Seeds!Done
  PROVE  /\ seedsRun' \in Seedings \cup {None}
         /\ seedsRun' # None => seedsRun'.step = "create"
<1> DEFINE rest == Tail(seedsRun.todo)
<1>1. rest \in Seq(Declared) /\ seedsRun.by \in Workers
  BY DEF Seedings
<1> HIDE DEF rest
<1>2. seedsRun' = IF rest = <<>> THEN None
                  ELSE [by |-> seedsRun.by, todo |-> rest, step |-> "create",
                        seen |-> Seeds!Own]
  BY DEF rest, Seeds!Done, Seeds!Seeding
<1> QED BY <1>1, <1>2 DEF Seedings

LEMMA GoesOn ==
  ASSUME seedsRun \in Seedings, NEW step \in {"create", "read", "write", "record"},
         NEW seen \in Shipped \cup {Seeds!Own}, Seeds!Goes(step, seen)
  PROVE  /\ seedsRun' \in Seedings /\ seedsRun'.step = step /\ seedsRun'.seen = seen
         /\ Seeds!Now' = Seeds!Now
BY DEF Seedings, Seeds!Goes, Seeds!Now

\* A seeding begins or ends, and no object is touched.
LEMMA SettlesKeep ==
  ASSUME SeedsInv,
         UNCHANGED <<seedsKind, seedsLive, seedsLocal, seedsRemote, seedsUndone>>,
         seedsCapable' \in BOOLEAN, seedsCapable => seedsCapable',
         seedsRun' \in Seedings \cup {None}, seedsRun' # None => seedsRun'.step = "create",
         seedsSlips[AppA] \subseteq seedsSlips'[AppA],
         Seeds!Dangling => seedsSlips'[AppA] # {}
  PROVE  Baselined' /\ EditsSeen'
<1>1. Clean /\ Ours /\ ~Seeds!Dangling => Says = Seeds!Baseline(AppA)
  <2> SUFFICES ASSUME Clean, Ours, ~Seeds!Dangling, Says # Seeds!Baseline(AppA)
               PROVE  FALSE
    OBVIOUS
  <2>1. Within({"read", "record"})
    BY DEF SeedsInv, Baselined
  <2>2. Seeds!Now.app = AppA
    BY <2>1, NowIs DEF Within
  <2>3. seedsRun # None
    BY <2>1, SeedValues DEF Within
  <2> QED BY <2>1, <2>2, <2>3 DEF Within, Seeds!Dangling, Seeds!At, Ours, There, Says
<1>2. /\ Clean' => Clean /\ ~Seeds!Dangling
      /\ There' <=> There
      /\ Ours' <=> Ours
      /\ Says' = Says
      /\ ~Within({"read", "record"})' /\ ~Within({"record"})' /\ ~Within({"write"})'
  BY SeedValues DEF Clean, There, Ours, Says, Within
<1>3. /\ (~Seeds!Remote)' => ~Seeds!Remote
      /\ ~Seeds!Remote => seedsRemote[AppA] = Seeds!Absent
  BY DEF Seeds!Remote, SeedsInv, Baselined
<1>4. Seeds!Baseline(AppA)' = Seeds!Baseline(AppA)
  BY <1>3 DEF Seeds!Baseline, Seeds!Remote
<1>5. Baselined'
  BY <1>1, <1>2, <1>3, <1>4 DEF Baselined
<1>6. EditsSeen'
  BY <1>2 DEF SeedsInv, EditsSeen, Seeds!EditsHold
<1> QED BY <1>5, <1>6

LEMMA SeedingBegins ==
  ASSUME SeedsInv, seedsRun = None,
         UNCHANGED <<seedsKind, seedsLive, seedsLocal, seedsRemote, seedsSlips, seedsUndone>>,
         seedsCapable' \in BOOLEAN, seedsCapable => seedsCapable',
         seedsRun' \in Seedings \cup {None}, seedsRun' # None => seedsRun'.step = "create"
  PROVE  Baselined' /\ EditsSeen'
<1>1. ~Seeds!Dangling
  BY DEF Seeds!Dangling, Seeds!At
<1> QED BY <1>1, SettlesKeep

LEMMA LoadsFit ==
  ASSUME SeedsTyped, NEW w \in Workers, NEW r \in Shipped \cup {Seeds!Absent}
  PROVE  /\ [seedsMem EXCEPT ![w][AppA] = r] \in [Workers -> Loads]
         /\ [seedsPending EXCEPT ![w][AppA] = r] \in [Workers -> Loads]
         /\ [seedsWanted EXCEPT ![AppA] = r] \in Loads
         /\ Seeds!Nothing \in Loads
BY DEF SeedsTyped, Loads, Seeds!Nothing

\* One app is loaded: it seeds at once, or it is late.
LEMMA RegistersIn ==
  ASSUME SeedsTyped, NEW w \in Workers, NEW r \in Shipped, Seeds!Register(w, AppA, r),
         seedsRun = None
  PROVE  /\ seedsMem' \in [Workers -> Loads] /\ seedsPending' \in [Workers -> Loads]
         /\ \/ seedsRun' \in Seedings /\ seedsRun'.step = "create"
            \/ seedsRun' = None /\ AppA \in seedsLate'
<1>1. seedsMem' \in [Workers -> Loads] /\ seedsPending' \in [Workers -> Loads]
  <2> DEFINE mem == [seedsMem EXCEPT ![w][AppA] = r]
             pending == [seedsPending EXCEPT ![w][AppA] = r]
  <2>1. mem \in [Workers -> Loads] /\ pending \in [Workers -> Loads]
    BY LoadsFit
  <2>2. seedsMem' = mem /\ (seedsPending' = pending \/ seedsPending' = seedsPending)
    BY DEF Seeds!Register
  <2> HIDE DEF mem, pending
  <2> QED BY <2>1, <2>2 DEF SeedsTyped
<1>2. CASE w \in seedsProv
  <2>1. <<Seeds!Job(AppA, r)>> \in Seq(Declared) \ {<<>>}
    BY DEF Seeds!Job, Declared
  <2>2. seedsRun' = [by |-> w, todo |-> <<Seeds!Job(AppA, r)>>, step |-> "create",
                     seen |-> Seeds!Own]
    BY <1>2, <2>1 DEF Seeds!Register, Seeds!Seeding
  <2> HIDE DEF Seeds!Job
  <2> QED BY <1>1, <2>1, <2>2 DEF Seedings
<1>3. CASE w \notin seedsProv
  BY <1>1, <1>3 DEF Seeds!Register
<1> QED BY <1>2, <1>3

\* What is asked for while nothing is seeded.
LEMMA AsksSeed ==
  ASSUME SeedsInv, NEW w \in Workers,
         \/ Seeds!Install(w, AppA) \/ Seeds!Uninstall(w, AppA)
         \/ Seeds!RemoveProvider(w) \/ Seeds!Attach(w)
  PROVE  SeedsInv'
<1>1. SeedsTyped /\ seedsRun = None /\ seedsBoot = {}
  BY DEF SeedsInv, Seeds!Install, Seeds!Uninstall, Seeds!RemoveProvider, Seeds!Attach,
     Seeds!Quiet
<1>2. UNCHANGED <<seedsKind, seedsCapable, seedsLive, seedsLocal, seedsRemote, seedsSlips,
                  seedsUndone>>
  BY DEF Seeds!Install, Seeds!Uninstall, Seeds!RemoveProvider, Seeds!Attach, Seeds!objects
<1>3. CASE Seeds!Install(w, AppA)
  <2>1. PICK r \in Shipped : seedsWanted' = [seedsWanted EXCEPT ![AppA] = r]
                             /\ Seeds!Register(w, AppA, r)
    BY <1>3 DEF Seeds!Install, Shipped
  <2>2. /\ seedsMem' \in [Workers -> Loads] /\ seedsPending' \in [Workers -> Loads]
        /\ \/ seedsRun' \in Seedings /\ seedsRun'.step = "create"
           \/ seedsRun' = None /\ AppA \in seedsLate'
    BY <1>1, <2>1, RegistersIn
  <2>3. SeedsTyped'
    <3>1. seedsWanted' \in Loads
      BY <1>1, <2>1, LoadsFit DEF SeedsTyped
    <3>2. seedsBoot' = {}
      BY <1>1, <1>3 DEF Seeds!Install
    <3> QED BY <1>1, <1>2, <2>2, <3>1, <3>2, SeedValues DEF SeedsTyped
  <2>4. Baselined' /\ EditsSeen'
    BY <1>1, <1>2, <2>2, SeedingBegins, SeedValues DEF SeedsTyped
  <2>5. Followed'
    BY <2>2 DEF Followed, Within
  <2> QED BY <2>3, <2>4, <2>5 DEF SeedsInv
<1>4. CASE Seeds!Uninstall(w, AppA) \/ Seeds!RemoveProvider(w) \/ Seeds!Attach(w)
  <2>1. /\ UNCHANGED <<seedsRun, seedsPending, seedsLate, seedsBoot>>
        /\ \/ seedsWanted' = [seedsWanted EXCEPT ![AppA] = Seeds!Absent]
           \/ UNCHANGED seedsWanted
    BY <1>4 DEF Seeds!Uninstall, Seeds!RemoveProvider, Seeds!Attach
  <2>6. seedsMem' \in [Workers -> Loads]
    <3> DEFINE mem == [seedsMem EXCEPT ![w][AppA] = Seeds!Absent]
    <3>1. mem \in [Workers -> Loads]
      BY <1>1, LoadsFit
    <3>2. seedsMem' = mem \/ seedsMem' = seedsMem
          \/ seedsMem' = [seedsMem EXCEPT ![w] = seedsWanted]
      BY <1>4 DEF Seeds!Uninstall, Seeds!RemoveProvider, Seeds!Attach
    <3> HIDE DEF mem
    <3> QED BY <1>1, <3>1, <3>2 DEF SeedsTyped
  <2>2. SeedsTyped'
    <3>1. seedsWanted' \in Loads
      BY <1>1, <2>1, LoadsFit DEF SeedsTyped
    <3> QED BY <1>1, <1>2, <2>1, <2>6, <3>1 DEF SeedsTyped
  <2>3. Baselined' /\ EditsSeen'
    BY <1>1, <1>2, <2>1, SeedingBegins, SeedValues DEF SeedsTyped
  <2>4. seedsWanted'[AppA] # Seeds!Absent => UNCHANGED seedsWanted
    BY <1>1, <2>1 DEF SeedsTyped, Loads
  <2>5. Followed'
    BY <1>1, <1>2, <2>1, <2>4, SeedValues
       DEF SeedsInv, Followed, Within, Clean, There, Ours, Says
  <2> QED BY <2>2, <2>3, <2>5 DEF SeedsInv
<1> QED BY <1>3, <1>4

\* The provider is loaded, by an install or at boot.
LEMMA SweepsKeep ==
  ASSUME SeedsInv, NEW w \in Workers, Seeds!Sweep(w), seedsRun = None,
         UNCHANGED <<seedsKind, seedsWanted, seedsBoot, seedsLive, seedsLocal, seedsRemote,
                     seedsSlips, seedsUndone>>,
         seedsCapable' \in BOOLEAN, seedsCapable => seedsCapable',
         AppA \notin seedsLate' => AppA \notin seedsLate \/ seedsMem[w][AppA] = seedsWanted[AppA]
  PROVE  SeedsInv'
<1>1. SeedsTyped
  BY DEF SeedsInv
<1>2. /\ seedsRun' \in Seedings \cup {None}
      /\ seedsRun' # None => seedsRun'.step = "create"
      /\ seedsMem[w][AppA] # Seeds!Absent => seedsRun' \in Seedings
      /\ seedsPending' \in [Workers -> Loads] /\ UNCHANGED seedsMem
  BY <1>1, SweepsIn
<1>3. SeedsTyped'
  BY <1>1, <1>2 DEF SeedsTyped
<1>4. Baselined' /\ EditsSeen'
  BY <1>2, SeedingBegins
<1>5. Followed'
  BY <1>2, SeedValues DEF SeedsInv, Followed, Within, Clean, There, Ours, Says
<1> QED BY <1>3, <1>4, <1>5 DEF SeedsInv

LEMMA ProviderComes ==
  ASSUME SeedsInv, NEW w \in Workers, Seeds!InstallProvider(w)
  PROVE  SeedsInv'
<1>1. /\ seedsRun = None /\ Seeds!Sweep(w)
      /\ UNCHANGED <<seedsKind, seedsWanted, seedsBoot, seedsLive, seedsLocal, seedsRemote,
                     seedsSlips, seedsUndone>>
      /\ seedsLate' = {a \in seedsLate : seedsMem[w][a] # seedsWanted[a]}
  BY DEF Seeds!InstallProvider, Seeds!Quiet, Seeds!objects
<1>2. seedsCapable' \in BOOLEAN /\ (seedsCapable => seedsCapable')
  BY DEF Seeds!InstallProvider, Seeds!Provides
<1> QED BY <1>1, <1>2, SweepsKeep

LEMMA BootsKeep ==
  ASSUME SeedsInv, NEW x \in {AppA, AppB}, Seeds!BootLoads(x)
  PROVE  SeedsInv'
<1>1. /\ SeedsTyped /\ seedsRun = None /\ x \in seedsBoot /\ Leader \in Workers
      /\ seedsBoot' = seedsBoot \ {x}
      /\ UNCHANGED <<seedsKind, seedsCapable, seedsWanted, seedsLive, seedsLocal,
                     seedsRemote, seedsSlips, seedsUndone>>
  BY SeedsAssumption DEF SeedsInv, Seeds!BootLoads, Seeds!objects
<1>2. CASE x = AppB
  <2>1. Seeds!Sweep(Leader) /\ UNCHANGED seedsLate
    BY <1>2 DEF Seeds!BootLoads
  <2>2. /\ seedsRun' \in Seedings \cup {None}
        /\ seedsRun' # None => seedsRun'.step = "create"
        /\ seedsPending' \in [Workers -> Loads] /\ UNCHANGED seedsMem
    BY <1>1, <2>1, SweepsIn
  <2>3. SeedsTyped'
    BY <1>1, <2>2 DEF SeedsTyped
  <2>4. Baselined' /\ EditsSeen'
    BY <1>1, <2>2, SeedingBegins DEF SeedsTyped
  <2>5. AppA \in seedsBoot' <=> AppA \in seedsBoot
    BY <1>1, <1>2, SeedsAssumption
  <2>6. Followed'
    BY <1>1, <2>1, <2>2, <2>5, SeedValues
       DEF SeedsInv, Followed, Within, Clean, There, Ours, Says
  <2> QED BY <2>3, <2>4, <2>6 DEF SeedsInv
<1>3. CASE x = AppA
  <2>1. PICK r \in Shipped : r = seedsWanted[AppA] /\ Seeds!Register(Leader, AppA, r)
    <3>1. seedsWanted[AppA] \in Shipped
      BY <1>1, <1>3 DEF SeedsTyped, Loads
    <3>2. Seeds!Register(Leader, AppA, seedsWanted[AppA])
      BY <1>3, SeedsAssumption DEF Seeds!BootLoads
    <3> QED BY <3>1, <3>2
  <2>2. /\ seedsMem' \in [Workers -> Loads] /\ seedsPending' \in [Workers -> Loads]
        /\ \/ seedsRun' \in Seedings /\ seedsRun'.step = "create"
           \/ seedsRun' = None /\ AppA \in seedsLate'
    BY <1>1, <2>1, RegistersIn
  <2>3. SeedsTyped'
    BY <1>1, <1>3, <2>2 DEF SeedsTyped
  <2>4. Baselined' /\ EditsSeen'
    BY <1>1, <2>2, SeedingBegins, SeedValues DEF SeedsTyped
  <2>5. Followed'
    BY <2>2 DEF Followed, Within
  <2> QED BY <2>3, <2>4, <2>5 DEF SeedsInv
<1> QED BY <1>2, <1>3

\* The container starts again, in the middle of a seeding or not.
LEMMA RestartSeeds == ASSUME SeedsInv, Seeds!Restart PROVE SeedsInv'
<1>1. /\ SeedsTyped /\ seedsRun' = None
      /\ UNCHANGED <<seedsKind, seedsCapable, seedsWanted, seedsLive, seedsLocal,
                     seedsRemote, seedsUndone>>
      /\ seedsMem' = [v \in Workers |-> Seeds!Nothing]
      /\ seedsPending' = [v \in Workers |-> Seeds!Nothing]
      /\ seedsBoot' = {a \in {AppA} : seedsWanted[a] # Seeds!Absent}
                        \cup (IF seedsHosted THEN {AppB} ELSE {})
  BY DEF SeedsInv, Seeds!Restart, Seeds!objects
<1>2. AppA \in seedsBoot' <=> seedsWanted[AppA] # Seeds!Absent
  BY <1>1, SeedsAssumption
<1>3. /\ seedsSlips' \in [{AppA} -> SUBSET Seeds!Slips]
      /\ seedsSlips[AppA] \subseteq seedsSlips'[AppA]
      /\ Seeds!Dangling => seedsSlips'[AppA] # {}
  <2>1. CASE Seeds!Dangling
    <3>1. seedsRun \in Seedings
      BY <1>1, <2>1 DEF SeedsTyped, Seeds!Dangling, Seeds!At
    <3>2. Head(seedsRun.todo).app = AppA
      BY <3>1, NowIs DEF Seeds!Now
    <3>3. seedsSlips' = [seedsSlips EXCEPT ![AppA] = @ \cup {"cut"}]
      BY <2>1, <3>2 DEF Seeds!Restart
    <3> QED BY <1>1, <3>3 DEF SeedsTyped, Seeds!Slips
  <2>2. CASE ~Seeds!Dangling
    BY <1>1, <2>2 DEF SeedsTyped, Seeds!Restart
  <2> QED BY <2>1, <2>2
<1>4. SeedsTyped'
  <2>1. [v \in Workers |-> Seeds!Nothing] \in [Workers -> Loads]
    BY DEF Loads, Seeds!Nothing
  <2> QED BY <1>1, <1>2, <1>3, <2>1 DEF SeedsTyped
<1>5. Baselined' /\ EditsSeen'
  BY <1>1, <1>3, SettlesKeep DEF SeedsTyped
<1>6. Followed'
  BY <1>1, <1>2 DEF Followed
<1> QED BY <1>4, <1>5, <1>6 DEF SeedsInv

\* What each step of a seeding leaves alone.
LEMMA SeedingAt ==
  ASSUME SeedsTyped, NEW step \in {"create", "read", "write", "record"}, Seeds!At(step)
  PROVE  /\ seedsRun \in Seedings /\ seedsRun.step = step
         /\ Seeds!Now.app = AppA /\ Seeds!Now.rel \in Shipped
         /\ \A steps : Within(steps) <=> step \in steps
         /\ Seeds!Baseline(AppA) \in Shipped \cup {Seeds!Absent}
         /\ There => Says \in Shipped \cup {Seeds!Own}
<1>1. seedsRun \in Seedings /\ seedsRun.step = step
  BY DEF SeedsTyped, Seeds!At
<1>2. Seeds!Now.app = AppA /\ Seeds!Now.rel \in Shipped
  BY <1>1, NowIs
<1>3. Seeds!Baseline(AppA) \in Shipped \cup {Seeds!Absent}
  BY DEF SeedsTyped, Loads, Seeds!Baseline
<1>4. There => Says \in Shipped \cup {Seeds!Own}
  BY DEF SeedsTyped, There, Says, Contents
<1> QED BY <1>1, <1>2, <1>3, <1>4 DEF Within

LEMMA CreatesKeep == ASSUME SeedsInv, Seeds!Create PROVE SeedsInv'
<1>1. SeedsTyped /\ Seeds!At("create")
  BY DEF SeedsInv, Seeds!Create
<1>2. /\ seedsRun \in Seedings /\ Seeds!Now.app = AppA /\ Seeds!Now.rel \in Shipped
      /\ Within({"create"}) /\ ~Within({"read", "record"})
  BY <1>1, SeedingAt
<1>3. UNCHANGED <<seedsKind, seedsCapable, seedsWanted, seedsMem, seedsPending, seedsBoot,
                  seedsLocal, seedsRemote, seedsSlips, seedsUndone>>
  BY DEF Seeds!Create, Seeds!registry
<1>4. PICK r \in Shipped : r = Seeds!Now.rel
  BY <1>2
<1>5. AppA \notin seedsLate' => r = seedsWanted[AppA]
  BY <1>2, <1>4 DEF Seeds!Create
<1>6. PICK step \in {"read", "record"} : Seeds!Goes(step, Seeds!Own)
  BY DEF Seeds!Create
<1>7. /\ seedsRun' \in Seedings /\ seedsRun'.step = step /\ Seeds!Now'.rel = r
  BY <1>2, <1>4, <1>6, GoesOn
<1>8. \/ ~There /\ seedsLive' = [seedsLive EXCEPT ![AppA] = [content |-> r, by |-> "app"]]
      \/ There /\ step = "read" /\ UNCHANGED seedsLive
  <2>1. CASE There
    <3>1. Seeds!Goes("read", Seeds!Own) /\ UNCHANGED seedsLive
      BY <1>2, <2>1 DEF Seeds!Create, There
    <3>2. seedsRun'.step = "read"
      BY <1>2, <3>1, GoesOn
    <3> QED BY <1>7, <2>1, <3>1, <3>2
  <2>2. CASE ~There
    BY <1>2, <1>4, <2>2 DEF Seeds!Create, There
  <2> QED BY <2>1, <2>2
<1>9. seedsLive' \in [{AppA} -> Contents \cup {None}] /\ There'
  BY <1>1, <1>8, SeedValues DEF SeedsTyped, Contents, There
<1>10. SeedsTyped'
  BY <1>1, <1>3, <1>7, <1>9 DEF SeedsTyped
<1>11. /\ Seeds!Baseline(AppA)' = Seeds!Baseline(AppA) /\ (Seeds!Remote' <=> Seeds!Remote)
       /\ (Clean' <=> Clean) /\ Within({step})' /\ ~Within({"write"})'
       /\ (Within({"record"})' => step = "record")
  BY <1>3, <1>7 DEF Seeds!Baseline, Seeds!Remote, Clean, Within
<1>12. \/ ~There /\ Ours' /\ Says' = r
       \/ There /\ step = "read" /\ (Ours' <=> Ours) /\ Says' = Says
  BY <1>1, <1>8, SeedValues DEF There, Ours, Says, SeedsTyped, Contents
<1>13. Baselined'
  <2>1. Within({"read", "record"})'
    BY <1>11 DEF Within
  <2> QED BY <1>2, <1>3, <1>7, <1>11, <1>12, <2>1 DEF SeedsInv, Baselined
<1>14. EditsSeen'
  BY <1>3, <1>9, <1>11, <1>12 DEF SeedsInv, EditsSeen, Seeds!EditsHold, Ours
<1>15. Followed'
  BY <1>3, <1>5, <1>7, <1>9 DEF Followed, Within
<1> QED BY <1>10, <1>13, <1>14, <1>15 DEF SeedsInv

LEMMA ReadsKeep == ASSUME SeedsInv, Seeds!Read PROVE SeedsInv'
<1>1. SeedsTyped /\ Seeds!At("read") /\ There
  <2>1. SeedsTyped /\ Seeds!At("read")
    BY DEF SeedsInv, Seeds!Read
  <2>2. Seeds!Now.app = AppA
    BY <2>1, SeedingAt
  <2> QED BY <2>1, <2>2 DEF Seeds!Read, There
<1>2. /\ seedsRun \in Seedings /\ Seeds!Now.app = AppA /\ Seeds!Now.rel \in Shipped
      /\ ~Within({"create"}) /\ seedsRun # None
      /\ Seeds!Baseline(AppA) \in Shipped \cup {Seeds!Absent}
      /\ Says \in Shipped \cup {Seeds!Own}
  BY <1>1, SeedingAt, SeedValues
<1>3. UNCHANGED <<seedsKind, seedsCapable, seedsWanted, seedsMem, seedsPending, seedsBoot,
                  seedsLive, seedsLocal, seedsRemote, seedsLate, seedsSlips, seedsUndone>>
  BY DEF Seeds!Read, Seeds!registry, Seeds!objects
<1>4. PICK r \in Shipped, seen \in Shipped \cup {Seeds!Own} : r = Seeds!Now.rel /\ seen = Says
  BY <1>2
<1>5. PICK step \in {"write", "record"} :
        /\ Seeds!Goes(step, seen)
        /\ IF Seeds!Updatable(AppA, r, seen) THEN step = "write" ELSE step = "record"
  BY <1>2, <1>4 DEF Seeds!Read, Says
<1>6. /\ seedsRun' \in Seedings /\ seedsRun'.step = step /\ seedsRun'.seen = seen
      /\ Seeds!Now'.rel = r
  BY <1>2, <1>4, <1>5, GoesOn
<1>7. SeedsTyped'
  BY <1>1, <1>3, <1>6 DEF SeedsTyped
<1>8. /\ Seeds!Baseline(AppA)' = Seeds!Baseline(AppA) /\ (Seeds!Remote' <=> Seeds!Remote)
      /\ (Clean' <=> Clean) /\ (There' <=> There) /\ (Ours' <=> Ours) /\ Says' = Says
      /\ (Within({"write"})' => step = "write")
      /\ (Within({"record"})' => step = "record")
      /\ (Within({"read", "record"})' => step = "record")
  BY <1>3, <1>6 DEF Seeds!Baseline, Seeds!Remote, Clean, There, Ours, Says, Within
<1>9. step = "write" => seen = Seeds!Baseline(AppA) /\ seen \in Shipped
  BY <1>2, <1>4, <1>5 DEF Seeds!Updatable
<1>10. Clean /\ Ours => Says = Seeds!Baseline(AppA) \/ Says = r
  BY <1>4 DEF SeedsInv, Baselined
<1>11. step = "record" /\ Says = Seeds!Baseline(AppA) => Says = r
  BY <1>2, <1>4, <1>5, SeedValues DEF Seeds!Updatable
<1>12. Within({step})'
  BY <1>6 DEF Within
<1>13. Baselined'
  BY <1>3, <1>4, <1>6, <1>8, <1>9, <1>10, <1>11, <1>12 DEF SeedsInv, Baselined, Within
<1>14. EditsSeen'
  BY <1>3, <1>6, <1>8, <1>9 DEF SeedsInv, EditsSeen, Seeds!EditsHold
<1>15. Followed'
  <2>1. Within({"read", "write", "record"})'
    BY <1>6 DEF Within
  <2> QED BY <1>1, <1>2, <1>3, <1>4, <1>6, <1>8, <2>1 DEF SeedsInv, Followed
<1> QED BY <1>7, <1>13, <1>14, <1>15 DEF SeedsInv

LEMMA WritesKeep == ASSUME SeedsInv, Seeds!Write PROVE SeedsInv'
<1>1. SeedsTyped /\ Seeds!At("write")
  BY DEF SeedsInv, Seeds!Write
<1>2. /\ seedsRun \in Seedings /\ Seeds!Now.app = AppA /\ Seeds!Now.rel \in Shipped
      /\ Within({"write"}) /\ ~Within({"create"}) /\ seedsRun # None
  BY <1>1, SeedingAt, SeedValues
<1>3. UNCHANGED <<seedsKind, seedsCapable, seedsWanted, seedsMem, seedsPending, seedsBoot,
                  seedsLocal, seedsRemote, seedsLate, seedsSlips>>
  BY DEF Seeds!Write, Seeds!registry
<1>4. PICK r \in Shipped : r = Seeds!Now.rel
  BY <1>2
<1>5. /\ seedsRun' \in Seedings /\ seedsRun'.step = "record" /\ Seeds!Now'.rel = r
  BY <1>2, <1>4, GoesOn DEF Seeds!Write
<1>6. \/ ~There /\ UNCHANGED seedsLive
      \/ There /\ seedsLive' = [seedsLive EXCEPT ![AppA] = [content |-> r, by |-> "app"]]
  BY <1>2, <1>4 DEF Seeds!Write, There
<1>7. SeedsTyped'
  BY <1>1, <1>3, <1>5, <1>6 DEF SeedsTyped, Contents
<1>8. /\ (Seeds!Remote' <=> Seeds!Remote) /\ (Clean' <=> Clean) /\ (There' <=> There)
      /\ Within({"record"})' /\ Within({"read", "record"})' /\ ~Within({"write"})'
  BY <1>1, <1>3, <1>5, <1>6, SeedValues
     DEF Seeds!Remote, Clean, There, Within, SeedsTyped, Contents
<1>9. There => Ours' /\ Says' = r
  BY <1>1, <1>6, SeedValues DEF There, Ours, Says, SeedsTyped, Contents
<1>10. Ours' => There
  BY <1>8 DEF Ours
<1>11. Baselined'
  BY <1>3, <1>5, <1>8, <1>9, <1>10 DEF SeedsInv, Baselined
<1>12. seedsUndone' = {}
  <2>1. seedsRun.seen \in Shipped /\ seedsUndone = {}
    BY <1>2 DEF SeedsInv, EditsSeen, Seeds!EditsHold
  <2>2. ~(There /\ seedsLive[AppA].by = "user" /\ Says = seedsRun.seen
            /\ "agreed" \notin seedsSlips[AppA])
    BY <2>1, SeedValues DEF SeedsInv, EditsSeen, Ours
  <2> QED BY <1>2, <2>1, <2>2 DEF Seeds!Write, There, Says
<1>13. EditsSeen'
  BY <1>8, <1>9, <1>12 DEF EditsSeen, Seeds!EditsHold
<1>14. Followed'
  <2>1. Within({"read", "write", "record"})'
    BY <1>5 DEF Within
  <2> QED BY <1>2, <1>3, <1>4, <1>5, <1>8, <2>1 DEF SeedsInv, Followed
<1> QED BY <1>7, <1>11, <1>13, <1>14 DEF SeedsInv

\* A seeding is left off: the object is gone, or a call failed.
LEMMA LeavesOff ==
  ASSUME SeedsInv, Seeds!ReadsNothing \/ Seeds!CallFails \/ Seeds!RecordFails
  PROVE  SeedsInv'
<1>1. /\ SeedsTyped /\ seedsRun # None /\ Seeds!Done
      /\ UNCHANGED <<seedsKind, seedsCapable, seedsWanted, seedsMem, seedsPending, seedsBoot,
                     seedsLive, seedsLocal, seedsRemote, seedsUndone>>
  BY DEF SeedsInv, Seeds!ReadsNothing, Seeds!CallFails, Seeds!RecordFails, Seeds!At,
     Seeds!registry, Seeds!objects
<1>2. seedsRun \in Seedings
  BY <1>1 DEF SeedsTyped
<1>3. /\ Seeds!Now.app = AppA
      /\ seedsRun' \in Seedings \cup {None}
      /\ seedsRun' # None => seedsRun'.step = "create"
  BY <1>1, <1>2, NowIs, NextIs
<1>4. /\ seedsSlips' \in [{AppA} -> SUBSET Seeds!Slips]
      /\ seedsSlips[AppA] \subseteq seedsSlips'[AppA]
      /\ Seeds!Dangling => seedsSlips'[AppA] # {}
      /\ seedsLate \subseteq seedsLate'
      /\ \/ AppA \in seedsLate' \/ seedsSlips'[AppA] # {}
         \/ Seeds!At("read") /\ ~There
  <2>1. CASE Seeds!ReadsNothing
    <3>1. Seeds!At("read") /\ ~There /\ UNCHANGED <<seedsSlips, seedsLate>>
      BY <1>3, <2>1 DEF Seeds!ReadsNothing, There
    <3>2. ~Seeds!Dangling
      BY <1>3, <3>1 DEF Seeds!Dangling, There
    <3> QED BY <1>1, <3>1, <3>2 DEF SeedsTyped
  <2>2. CASE Seeds!CallFails
    BY <1>1, <1>3, <2>2 DEF Seeds!CallFails, SeedsTyped, Seeds!Slips
  <2>3. CASE Seeds!RecordFails
    BY <1>1, <1>3, <2>3 DEF Seeds!RecordFails, SeedsTyped, Seeds!Slips
  <2> QED BY <2>1, <2>2, <2>3
<1>5. SeedsTyped'
  BY <1>1, <1>3, <1>4 DEF SeedsTyped
<1>6. Baselined' /\ EditsSeen'
  BY <1>1, <1>3, <1>4, SettlesKeep DEF SeedsTyped
<1>7. Followed'
  BY <1>1, <1>4 DEF SeedsInv, Followed, Clean, Within, Seeds!At
<1> QED BY <1>5, <1>6, <1>7 DEF SeedsInv

LEMMA UnreadKeeps == ASSUME SeedsInv, Seeds!BaselineUnread PROVE SeedsInv'
<1>1. SeedsTyped /\ Seeds!At("read")
  BY DEF SeedsInv, Seeds!BaselineUnread
<1>2. seedsRun \in Seedings /\ Seeds!Now.app = AppA
  BY <1>1, SeedingAt
<1>3. UNCHANGED <<seedsKind, seedsCapable, seedsWanted, seedsMem, seedsPending, seedsBoot,
                  seedsLive, seedsLocal, seedsRemote, seedsLate, seedsUndone>>
  BY DEF Seeds!BaselineUnread, Seeds!registry, Seeds!objects
<1>4. seedsRun' \in Seedings /\ seedsRun'.step = "record"
  BY <1>2, GoesOn DEF Seeds!BaselineUnread
<1>5. /\ seedsSlips' \in [{AppA} -> SUBSET Seeds!Slips]
      /\ seedsSlips[AppA] \subseteq seedsSlips'[AppA] /\ seedsSlips'[AppA] # {}
  BY <1>1, <1>2 DEF SeedsTyped, Seeds!Slips, Seeds!BaselineUnread
<1>6. SeedsTyped'
  BY <1>1, <1>3, <1>4, <1>5 DEF SeedsTyped
<1>7. ~Clean' /\ ~Within({"write"})' /\ (Seeds!Remote' <=> Seeds!Remote)
      /\ (There' <=> There) /\ (Ours' <=> Ours) /\ Says' = Says
  BY <1>3, <1>4, <1>5 DEF Clean, Within, Seeds!Remote, There, Ours, Says
<1>8. Baselined' /\ Followed'
  BY <1>3, <1>7 DEF SeedsInv, Baselined, Followed
<1>9. EditsSeen'
  BY <1>3, <1>5, <1>7 DEF SeedsInv, EditsSeen, Seeds!EditsHold
<1> QED BY <1>6, <1>8, <1>9 DEF SeedsInv

LEMMA RecordedKeeps == ASSUME SeedsInv, Seeds!Record PROVE SeedsInv'
<1>1. SeedsTyped /\ Seeds!At("record") /\ Seeds!Done
  BY DEF SeedsInv, Seeds!Record
<1>2. /\ seedsRun \in Seedings /\ Seeds!Now.app = AppA /\ Seeds!Now.rel \in Shipped
      /\ Within({"record"}) /\ ~Within({"create"}) /\ seedsRun # None
  BY <1>1, SeedingAt, SeedValues
<1>3. UNCHANGED <<seedsKind, seedsCapable, seedsWanted, seedsMem, seedsPending, seedsBoot,
                  seedsLive, seedsLate, seedsSlips, seedsUndone>>
  BY DEF Seeds!Record, Seeds!registry
<1>4. PICK r \in Shipped : r = Seeds!Now.rel
  BY <1>2
<1>5. /\ seedsRun' \in Seedings \cup {None}
      /\ seedsRun' # None => seedsRun'.step = "create"
  BY <1>1, <1>2, NextIs
<1>6. \/ /\ Seeds!Remote /\ UNCHANGED seedsLocal
         /\ seedsRemote' = [seedsRemote EXCEPT ![AppA] = r]
      \/ /\ ~Seeds!Remote /\ UNCHANGED seedsRemote
         /\ seedsLocal' = [seedsLocal EXCEPT ![AppA] = r]
  BY <1>2, <1>4 DEF Seeds!Record, Seeds!Remember
<1>7. seedsLocal' \in Loads /\ seedsRemote' \in Loads
  BY <1>1, <1>6 DEF SeedsTyped, Loads
<1>8. SeedsTyped'
  BY <1>1, <1>3, <1>5, <1>7 DEF SeedsTyped
<1>9. /\ (Seeds!Remote' <=> Seeds!Remote) /\ (Clean' <=> Clean)
      /\ (There' <=> There) /\ (Ours' <=> Ours) /\ Says' = Says
      /\ ~Within({"read", "record"})' /\ ~Within({"record"})' /\ ~Within({"write"})'
  BY <1>3, <1>5, SeedValues DEF Seeds!Remote, Clean, There, Ours, Says, Within
<1>10. Seeds!Baseline(AppA)' = r
  <2>1. CASE Seeds!Remote
    <3>1. seedsRemote'[AppA] = r /\ r # Seeds!Absent
      BY <1>1, <1>6, <2>1, SeedValues DEF SeedsTyped, Loads
    <3> QED BY <1>9, <2>1, <3>1 DEF Seeds!Baseline
  <2>2. CASE ~Seeds!Remote
    <3>1. seedsLocal'[AppA] = r
      BY <1>1, <1>6, <2>2 DEF SeedsTyped, Loads
    <3> QED BY <1>9, <2>2, <3>1 DEF Seeds!Baseline
  <2> QED BY <2>1, <2>2
<1>11. Clean /\ Ours => Says = r
  BY <1>2, <1>4 DEF SeedsInv, Baselined
<1>12. Baselined'
  BY <1>6, <1>9, <1>10, <1>11 DEF SeedsInv, Baselined
<1>13. EditsSeen'
  BY <1>3, <1>9 DEF SeedsInv, EditsSeen, Seeds!EditsHold
<1>14. Followed'
  BY <1>2, <1>3, <1>4, <1>5, <1>9, <1>11 DEF SeedsInv, Followed, Within
<1> QED BY <1>8, <1>12, <1>13, <1>14 DEF SeedsInv

\* The user edits the object, or deletes it, at any time.
LEMMA UsersKeep ==
  ASSUME SeedsInv, Seeds!Edit(AppA) \/ Seeds!Delete(AppA)
  PROVE  SeedsInv'
<1>1. /\ SeedsTyped /\ There
      /\ UNCHANGED <<seedsKind, seedsCapable, seedsWanted, seedsMem, seedsPending, seedsBoot,
                     seedsRun, seedsLocal, seedsRemote, seedsUndone>>
  BY DEF SeedsInv, There, Seeds!Edit, Seeds!Delete, Seeds!registry
<1>2. Seeds!Remote' <=> Seeds!Remote
  BY <1>1 DEF Seeds!Remote
<1>3. CASE Seeds!Edit(AppA)
  <2>1. PICK content \in Shipped \cup {Seeds!Own} :
          /\ seedsLive' = [seedsLive EXCEPT ![AppA] = [content |-> content, by |-> "user"]]
          /\ seedsSlips' = IF content = Seeds!Own THEN seedsSlips
                           ELSE [seedsSlips EXCEPT ![AppA] = @ \cup {"agreed"}]
    BY <1>3 DEF Seeds!Edit, Shipped
  <2>2. UNCHANGED seedsLate
    BY <1>3 DEF Seeds!Edit
  <2>3. /\ seedsLive' \in [{AppA} -> Contents \cup {None}] /\ There' /\ ~Ours'
        /\ Says' = content
    BY <1>1, <2>1, SeedValues DEF SeedsTyped, Contents, There, Ours, Says
  <2>4. /\ seedsSlips' \in [{AppA} -> SUBSET Seeds!Slips]
        /\ seedsSlips[AppA] \subseteq seedsSlips'[AppA]
        /\ content # Seeds!Own => "agreed" \in seedsSlips'[AppA]
    BY <1>1, <2>1 DEF SeedsTyped, Seeds!Slips
  <2>5. SeedsTyped'
    BY <1>1, <2>3, <2>4 DEF SeedsTyped
  <2>6. Baselined'
    BY <1>1, <1>2, <2>3 DEF SeedsInv, Baselined
  <2>7. EditsSeen'
    BY <1>1, <2>3, <2>4 DEF SeedsInv, EditsSeen, Seeds!EditsHold, Within
  <2>8. Followed'
    BY <1>1, <2>2, <2>3, <2>4 DEF SeedsInv, Followed, Within, Clean, Seeds!Now
  <2> QED BY <2>5, <2>6, <2>7, <2>8 DEF SeedsInv
<1>4. CASE Seeds!Delete(AppA)
  <2>1. /\ seedsLive' = [seedsLive EXCEPT ![AppA] = None] /\ UNCHANGED seedsSlips
        /\ AppA \in seedsLate'
    BY <1>4 DEF Seeds!Delete
  <2>2. /\ seedsLive' \in [{AppA} -> Contents \cup {None}] /\ ~There' /\ ~Ours'
    BY <1>1, <2>1 DEF SeedsTyped, There, Ours
  <2>3. SeedsTyped'
    BY <1>1, <2>1, <2>2 DEF SeedsTyped
  <2>4. Baselined' /\ Followed'
    BY <1>1, <1>2, <2>1, <2>2 DEF SeedsInv, Baselined, Followed
  <2>5. EditsSeen'
    BY <1>1, <2>2 DEF SeedsInv, EditsSeen, Seeds!EditsHold, Within
  <2> QED BY <2>3, <2>4, <2>5 DEF SeedsInv
<1> QED BY <1>3, <1>4

LEMMA InitSeeds == Seeds!Init => SeedsInv
<1> SUFFICES ASSUME Seeds!Init PROVE SeedsInv
  OBVIOUS
<1>1. SeedsTyped
  <2>1. Seeds!Nothing \in Loads /\ seedsCapable \in BOOLEAN
    BY DEF Seeds!Nothing, Loads, Seeds!Init, Seeds!Provides
  <2>2. seedsLive \in [{AppA} -> Contents \cup {None}]
    BY SeedValues DEF Seeds!Init, Contents
  <2> QED BY <2>1, <2>2 DEF SeedsTyped, Seeds!Init
<1>2. /\ seedsRemote[AppA] = Seeds!Absent /\ seedsWanted[AppA] = Seeds!Absent
      /\ ~Ours /\ (There => Says = Seeds!Own)
  BY DEF Seeds!Init, Seeds!Nothing, Ours, There, Says
<1>3. ~Within({"write"})
  BY SeedValues DEF Seeds!Init, Within
<1> QED BY <1>1, <1>2, <1>3
        DEF SeedsInv, Baselined, EditsSeen, Followed, Seeds!EditsHold, Seeds!Init

LEMMA StepSeeds == SeedsInv /\ [Seeds!Next]_(Seeds!seedVars) => SeedsInv'
<1> SUFFICES ASSUME SeedsInv, [Seeds!Next]_(Seeds!seedVars) PROVE SeedsInv'
  OBVIOUS
<1>1. CASE UNCHANGED Seeds!seedVars
  <2>1. UNCHANGED <<seedsKind, seedsCapable, seedsWanted, seedsMem, seedsPending, seedsBoot,
                    seedsRun, seedsLive, seedsLocal, seedsRemote, seedsLate, seedsSlips,
                    seedsUndone>>
    BY <1>1 DEF Seeds!seedVars
  <2>2. SeedsTyped' /\ EditsSeen' /\ Followed'
    BY <2>1 DEF SeedsInv, SeedsTyped, EditsSeen, Followed, Seeds!EditsHold, Within, Clean,
       There, Ours, Says, Seeds!Now
  <2>3. Baselined'
    BY <2>1 DEF SeedsInv, Baselined, Within, Clean, There, Ours, Says, Seeds!Now,
       Seeds!Remote, Seeds!Baseline
  <2> QED BY <2>2, <2>3 DEF SeedsInv
<1>2. CASE Seeds!Next
  BY <1>2, AsksSeed, ProviderComes, BootsKeep, RestartSeeds, CreatesKeep, ReadsKeep,
     WritesKeep, LeavesOff, UnreadKeeps, RecordedKeeps, UsersKeep DEF Seeds!Next
<1> QED BY <1>1, <1>2

LEMMA SeedsAreKept == SeedsInv => Seeds!EditsHold /\ Seeds!CorrectionsLand
BY SeedValues
   DEF SeedsInv, EditsSeen, Followed, Within, Clean, There, Ours, Says, Seeds!Quiet,
       Seeds!CorrectionsLand

LEMMA UpdatesAlone == [Next]_vars => [Settings!Next]_(Settings!settingVars)
<1>1. Next => SettingsMoves \/ UNCHANGED settingsVars
  BY SMT DEF Next, ConfigMoves, JobsMoves, MixedMoves, TwinsMoves, BoxesMoves, VpnMoves,
     TreesMoves, DepsMoves, ToolsMoves, SeedsMoves, Unmoved
<1>2. UNCHANGED vars => UNCHANGED settingsVars
  BY DEF vars
<1>3. UNCHANGED settingsVars => UNCHANGED Settings!settingVars
  BY DEF settingsVars, Settings!settingVars
<1> QED BY <1>1, <1>2, <1>3 DEF SettingsMoves

LEMMA SeedsAlone == [Next]_vars => [Seeds!Next]_(Seeds!seedVars)
<1>1. Next => SeedsMoves \/ UNCHANGED seedsVars
  BY SMT DEF Next, ConfigMoves, JobsMoves, MixedMoves, TwinsMoves, BoxesMoves, VpnMoves,
     TreesMoves, DepsMoves, ToolsMoves, SettingsMoves, Unmoved
<1>2. UNCHANGED vars => UNCHANGED seedsVars
  BY DEF vars
<1>3. UNCHANGED seedsVars => UNCHANGED Seeds!seedVars
  BY DEF seedsVars, Seeds!seedVars
<1> QED BY <1>1, <1>2, <1>3 DEF SeedsMoves

\* UpdatesKeepTheRules: a container has no more power over the host than host, release and
\* permissions agree on, runs with "public" on where its release locks it, and keeps its
\* generated secret through updates, rollbacks, failed starts and crashes; an app's release
\* corrects the task or agent it seeded as long as nobody has edited it, and undoes no edit
\* it has seen; for any releases and offers of a host, any workers, and any numbers of
\* operations and faults (hostpower.resolve, generated_config,
\* seeded_state.updatable_fields and its callers).
THEOREM UpdatesKeepTheRulesHolds == Spec => []UpdatesKeepTheRules
<1>1. Init => SettingsInv /\ SeedsInv
  BY InitUpdates, InitSeeds DEF Init
<1>2. SettingsInv /\ SeedsInv /\ [Next]_vars => SettingsInv' /\ SeedsInv'
  BY UpdatesAlone, SeedsAlone, StepSettings, StepSeeds
<1>3. SettingsInv /\ SeedsInv => UpdatesKeepTheRules
  BY UpdatesAreRuled, SeedsAreKept DEF UpdatesKeepTheRules
<1> QED BY <1>1, <1>2, <1>3, PTL DEF Spec

-----------------------------------------------------------------------------
(* The containers of an app and its sidecar.  As long as nothing disturbs     *)
(* them (a stop, a removal, a reverted load), an operation is one of a worker *)
(* that has the whole app (Backed), that worker's app is installed or being   *)
(* so (Held), and a container that does not run is one that an operation      *)
(* under way has yet to start (Owing).                                        *)

Starts(k) == Boxes!Call("start", k)

\* The calls that are left of an operation, as long as nothing is stopped for good.
Plans ==
  LET updates(k) == Boxes!Call("update_env", k)
  IN  {<<>>, <<Starts("db")>>, <<Starts("app")>>, <<Starts("db"), Starts("app")>>,
       <<Boxes!Call("stop", "db"), Starts("db")>>,
       <<Boxes!Call("stop", "app"), Starts("app")>>,
       <<updates("db"), updates("app")>>, <<Starts("db"), updates("app")>>,
       <<updates("app")>>}

\* The containers that are still to be started by them.
Left(plan) == {k \in Boxes!Keys : \E i \in 1..Len(plan) : plan[i] = Starts(k)}

Works ==
  [kind : {"none", "failed", "load", "ui", "save", "heal"}, by : Workers \cup {None},
   todo : Plans, step : {"next", "found", "cleared", "prepared"}, env : Nat \cup {None}]

Undisturbed == ~boxesRemoval /\ boxesFaults = 0

Whole(w) == w \in Workers /\ \A k \in Boxes!Keys : boxesSpec[w][k] # None

BoxesTyped ==
  /\ boxesTask \in [Tasks -> Works]
  /\ boxesSpec \in [Workers -> [Boxes!Keys -> Nat \cup {None}]]
  /\ boxesEngine \in [Boxes!Keys -> [env : Nat, host : Nat, by : Workers] \cup {None}]
  /\ boxesEnv \in Nat /\ boxesHost \in Nat /\ boxesAuto

\* An operation under way is one of a worker that has the app, all of it, and past its
\* look-up it has an environment; only loads and heals start both containers.
Backed ==
  \A t \in Tasks :
    /\ boxesTask[t].todo # <<>> \/ boxesTask[t].kind = "load" => Whole(boxesTask[t].by)
    /\ boxesTask[t].step # "next" => boxesTask[t].env \in Nat
    /\ boxesTask[t].todo = <<Starts("db"), Starts("app")>> =>
         boxesTask[t].kind \in {"load", "heal"}

\* A worker that has the app has all of it, and it is installed, or being so.
Held ==
  \A w \in Workers :
    Boxes!Loaded(w) =>
      /\ Whole(w)
      /\ boxesInstalled \/ \E t \in Tasks : boxesTask[t].kind = "load" /\ boxesTask[t].by = w

\* What does not run is still to be started.
Owing ==
  (\E w \in Workers : Boxes!Loaded(w)) =>
    \A k \in Boxes!Keys :
      boxesEngine[k] # None \/ \E t \in Tasks : k \in Left(boxesTask[t].todo)

Steady == BoxesTyped /\ Backed /\ Held /\ Owing

StartsInv == boxesFaults \in Nat /\ (Undisturbed => Steady)

LEMMA BoxesNone ==
  /\ None \notin Nat /\ None \notin Workers
  /\ None \notin [env : Nat, host : Nat, by : Workers]
BY ContainersAssumption, ProfilesAssumption

LEMMA CallsDiffer ==
  /\ "db" # "app" /\ Boxes!Keys = {"db", "app"}
  /\ \A n, m, k, l : Boxes!Call(n, k) = Boxes!Call(m, l) <=> n = m /\ k = l
  /\ \A n, k : Boxes!Call(n, k).call = n /\ Boxes!Call(n, k).key = k
BY DEF Boxes!Call, Boxes!Keys

\* What a plan of one call, or of two, starts.
LEMMA LeftOf ==
  /\ Left(<<>>) = {}
  /\ \A c : Left(<<c>>) = {k \in Boxes!Keys : c = Starts(k)}
  /\ \A c, d : Left(<<c, d>>) = {k \in Boxes!Keys : c = Starts(k) \/ d = Starts(k)}
<1>1. Left(<<>>) = {}
  BY DEF Left
<1>2. ASSUME NEW c PROVE Left(<<c>>) = {k \in Boxes!Keys : c = Starts(k)}
  <2>1. 1..Len(<<c>>) = {1} /\ <<c>>[1] = c
    OBVIOUS
  <2> QED BY <2>1 DEF Left
<1>3. ASSUME NEW c, NEW d
      PROVE  Left(<<c, d>>) = {k \in Boxes!Keys : c = Starts(k) \/ d = Starts(k)}
  <2>1. 1..Len(<<c, d>>) = {1, 2} /\ <<c, d>>[1] = c /\ <<c, d>>[2] = d
    OBVIOUS
  <2> QED BY <2>1 DEF Left
<1> QED BY <1>1, <1>2, <1>3

LEMMA ShortPlans ==
  /\ \A c : Head(<<c>>) = c /\ Tail(<<c>>) = <<>>
  /\ \A c, d : Head(<<c, d>>) = c /\ Tail(<<c, d>>) = <<d>>
  /\ \A c : <<c>> \o <<>> = <<c>>
  /\ \A c, d : <<c>> \o <<d>> = <<c, d>>
  /\ \A c, d, e : <<c>> # <<d, e>> /\ <<c>> # <<>> /\ <<>> # <<d, e>>
  /\ \A c, d, e, f : <<c, d>> = <<e, f>> <=> c = e /\ d = f
<1>1. \A c : Head(<<c>>) = c /\ Tail(<<c>>) = <<>>
  OBVIOUS
<1>2. \A c, d : Head(<<c, d>>) = c
  OBVIOUS
<1>3. \A c, d : Tail(<<c, d>>) = <<d>>
  OBVIOUS
<1>4. \A c : <<c>> \o <<>> = <<c>>
  OBVIOUS
<1>5. ASSUME NEW c, NEW d PROVE <<c>> \o <<d>> = <<c, d>>
  <2> DEFINE s == <<c>> \o <<d>>
  <2>1. <<c>> \in Seq({c, d}) /\ <<d>> \in Seq({c, d})
    OBVIOUS
  <2>2. s \in Seq({c, d}) /\ Len(s) = 2 /\ s[1] = c /\ s[2] = d
    BY <2>1
  <2> HIDE DEF s
  <2>3. s = <<c, d>>
    BY <2>2
  <2> QED BY <2>3 DEF s
<1>6. \A c, d, e : <<c>> # <<d, e>> /\ <<c>> # <<>> /\ <<>> # <<d, e>>
  OBVIOUS
<1>7. ASSUME NEW c, NEW d, NEW e, NEW f, <<c, d>> = <<e, f>> PROVE c = e /\ d = f
  <2>1. <<c, d>>[1] = <<e, f>>[1] /\ <<c, d>>[2] = <<e, f>>[2]
    BY <1>7
  <2> QED BY <2>1
<1> QED BY <1>1, <1>2, <1>3, <1>4, <1>5, <1>6, <1>7

\* A plan goes on: a start that was next is the only one its rest may miss, a stop is
\* followed by the start of the same, and an update may be followed by one.
LEMMA PlanGoesOn ==
  ASSUME NEW plan \in Plans, plan # <<>>
  PROVE  /\ Head(plan).call \in {"start", "stop", "update_env"}
         /\ Head(plan).key \in Boxes!Keys /\ Tail(plan) \in Plans
         /\ Tail(plan) # <<Starts("db"), Starts("app")>>
         /\ Left(plan) \subseteq Left(Tail(plan)) \cup {Head(plan).key}
         /\ Head(plan).call # "start" => Left(plan) \subseteq Left(Tail(plan))
         /\ Head(plan).call = "stop" => Head(plan).key \in Left(Tail(plan))
         /\ Head(plan).call = "update_env" =>
              LET next == <<Starts(Head(plan).key)>> \o Tail(plan)
              IN  /\ next \in Plans /\ Left(plan) \subseteq Left(next)
                  /\ next # <<Starts("db"), Starts("app")>>
         /\ Head(plan).call = "start" =>
              /\ Head(plan).key \in Left(plan)
              /\ Left(Tail(plan)) = {} \/ plan = <<Starts("db"), Starts("app")>>
<1> DEFINE sdb == Starts("db")
           sapp == Starts("app")
           udb == Boxes!Call("update_env", "db")
           uapp == Boxes!Call("update_env", "app")
           tdb == Boxes!Call("stop", "db")
           tapp == Boxes!Call("stop", "app")
<1>1. /\ sdb.call = "start" /\ sdb.key = "db" /\ sapp.call = "start" /\ sapp.key = "app"
      /\ udb.call = "update_env" /\ udb.key = "db"
      /\ uapp.call = "update_env" /\ uapp.key = "app"
      /\ tdb.call = "stop" /\ tdb.key = "db" /\ tapp.call = "stop" /\ tapp.key = "app"
      /\ Starts("db") = sdb /\ Starts("app") = sapp /\ Boxes!Keys = {"db", "app"}
  BY CallsDiffer DEF Starts
<1>2. plan \in {<<sdb>>, <<sapp>>, <<sdb, sapp>>, <<tdb, sdb>>, <<tapp, sapp>>,
                <<udb, uapp>>, <<sdb, uapp>>, <<uapp>>}
  BY Zenon DEF Plans
<1>3. \A p : p \in {<<>>, <<sdb>>, <<sapp>>, <<sdb, uapp>>, <<uapp>>} => p \in Plans
  BY DEF Plans
<1>4. /\ \A c : Head(<<c>>) = c /\ Tail(<<c>>) = <<>>
      /\ \A c, d : Head(<<c, d>>) = c /\ Tail(<<c, d>>) = <<d>>
      /\ \A c : <<c>> \o <<>> = <<c>>
      /\ \A c, d : <<c>> \o <<d>> = <<c, d>>
      /\ \A c, d, e : <<c>> # <<d, e>> /\ <<c>> # <<>> /\ <<>> # <<d, e>>
      /\ \A c, d, e, f : <<c, d>> = <<e, f>> <=> c = e /\ d = f
  BY ShortPlans
<1> HIDE DEF sdb, sapp, udb, uapp, tdb, tapp
<1>5. /\ Left(<<>>) = {} /\ Left(<<sdb>>) = {"db"} /\ Left(<<sapp>>) = {"app"}
      /\ Left(<<sdb, sapp>>) = {"db", "app"} /\ Left(<<tdb, sdb>>) = {"db"}
      /\ Left(<<tapp, sapp>>) = {"app"} /\ Left(<<udb, uapp>>) = {}
      /\ Left(<<sdb, uapp>>) = {"db"} /\ Left(<<uapp>>) = {}
  <2>1. /\ sdb # sapp /\ udb # sdb /\ udb # sapp /\ uapp # sdb /\ uapp # sapp
        /\ tdb # sdb /\ tdb # sapp /\ tapp # sdb /\ tapp # sapp
    BY <1>1
  <2>2. \A p : Left(p) \subseteq {"db", "app"}
    BY <1>1 DEF Left
  <2>3. \A c : /\ "db" \in Left(<<c>>) <=> c = sdb
               /\ "app" \in Left(<<c>>) <=> c = sapp
    BY <1>1, LeftOf
  <2>4. \A c, d : /\ "db" \in Left(<<c, d>>) <=> c = sdb \/ d = sdb
                  /\ "app" \in Left(<<c, d>>) <=> c = sapp \/ d = sapp
    BY <1>1, LeftOf
  <2>5. /\ Left(<<sdb>>) = {"db"} /\ Left(<<sapp>>) = {"app"} /\ Left(<<uapp>>) = {}
    BY <2>1, <2>2, <2>3
  <2>6. /\ Left(<<sdb, sapp>>) = {"db", "app"} /\ Left(<<tdb, sdb>>) = {"db"}
        /\ Left(<<tapp, sapp>>) = {"app"}
    BY <2>1, <2>2, <2>4
  <2>7. /\ Left(<<udb, uapp>>) = {} /\ Left(<<sdb, uapp>>) = {"db"}
    BY <2>1, <2>2, <2>4
  <2> QED BY <2>5, <2>6, <2>7, LeftOf
<1>6. /\ <<>> # <<sdb, sapp>> /\ <<sapp>> # <<sdb, sapp>> /\ <<sdb>> # <<sdb, sapp>>
      /\ <<uapp>> # <<sdb, sapp>> /\ <<sdb, uapp>> # <<sdb, sapp>>
  <2>1. sapp # uapp
    BY <1>1
  <2> QED BY <1>4, <2>1
<1>7. /\ <<sdb>> \o <<uapp>> = <<sdb, uapp>> /\ <<sapp>> \o <<>> = <<sapp>>
  BY <1>4
<1>8. \/ /\ Head(plan) = sdb /\ Tail(plan) = <<>> /\ plan = <<sdb>>
      \/ /\ Head(plan) = sapp /\ Tail(plan) = <<>> /\ plan = <<sapp>>
      \/ /\ Head(plan) = sdb /\ Tail(plan) = <<sapp>> /\ plan = <<sdb, sapp>>
      \/ /\ Head(plan) = tdb /\ Tail(plan) = <<sdb>> /\ plan = <<tdb, sdb>>
      \/ /\ Head(plan) = tapp /\ Tail(plan) = <<sapp>> /\ plan = <<tapp, sapp>>
      \/ /\ Head(plan) = udb /\ Tail(plan) = <<uapp>> /\ plan = <<udb, uapp>>
      \/ /\ Head(plan) = sdb /\ Tail(plan) = <<uapp>> /\ plan = <<sdb, uapp>>
      \/ /\ Head(plan) = uapp /\ Tail(plan) = <<>> /\ plan = <<uapp>>
  <2>1. ASSUME NEW c, plan = <<c>> PROVE Head(plan) = c /\ Tail(plan) = <<>>
    <3>1. Head(<<c>>) = c /\ Tail(<<c>>) = <<>>
      BY ShortPlans
    <3> QED BY <2>1, <3>1, Zenon
  <2>2. ASSUME NEW c, NEW d, plan = <<c, d>> PROVE Head(plan) = c /\ Tail(plan) = <<d>>
    <3>1. Head(<<c, d>>) = c
      OBVIOUS
    <3>2. Tail(<<c, d>>) = <<d>>
      BY ShortPlans
    <3> QED BY <2>2, <3>1, <3>2, Zenon
  <2>3. CASE plan \in {<<sdb>>, <<sapp>>, <<uapp>>}
    BY <2>1, <2>3
  <2>4. CASE plan \in {<<sdb, sapp>>, <<tdb, sdb>>, <<tapp, sapp>>}
    BY <2>2, <2>4
  <2>5. CASE plan \in {<<udb, uapp>>, <<sdb, uapp>>}
    BY <2>2, <2>5
  <2> QED BY <1>2, <2>3, <2>4, <2>5, Zenon
<1> DEFINE h == Head(plan)
           r == Tail(plan)
<1> HIDE DEF h, r
<1>9. h.call \in {"start", "stop", "update_env"} /\ h.key \in Boxes!Keys
  BY <1>1, <1>8 DEF h
<1>10. r \in Plans
  BY <1>3, <1>8 DEF r
<1>11. r # <<Starts("db"), Starts("app")>>
  BY <1>1, <1>6, <1>8 DEF r
<1>12. /\ Left(plan) \subseteq Left(r) \cup {h.key}
       /\ h.call # "start" => Left(plan) \subseteq Left(r)
       /\ h.call = "stop" => h.key \in Left(r)
       /\ h.call = "start" => h.key \in Left(plan) /\ (Left(r) = {} \/ plan = <<sdb, sapp>>)
  BY <1>1, <1>5, <1>8 DEF h, r
<1>13. h.call = "update_env" =>
         \/ <<Starts(h.key)>> \o r = <<sdb, uapp>> /\ Left(plan) = {}
         \/ <<Starts(h.key)>> \o r = <<sapp>> /\ Left(plan) = {}
  BY <1>1, <1>5, <1>7, <1>8 DEF h, r
<1> QED BY <1>1, <1>3, <1>6, <1>9, <1>10, <1>11, <1>12, <1>13 DEF h, r

LEMMA WholeIsLoaded ==
  ASSUME NEW w
  PROVE  /\ Whole(w) => Boxes!Loaded(w)
         /\ BoxesTyped /\ w \in Workers /\ ~Boxes!Loaded(w) =>
              \A k \in Boxes!Keys : boxesSpec[w][k] = None
<1>1. Whole(w) => Boxes!Loaded(w)
  <2>1. "db" \in Boxes!Keys
    BY CallsDiffer
  <2> QED BY <2>1 DEF Whole, Boxes!Loaded, Boxes!Unregistered
<1>2. ASSUME BoxesTyped, w \in Workers, ~Boxes!Loaded(w)
      PROVE  \A k \in Boxes!Keys : boxesSpec[w][k] = None
  BY <1>2 DEF Boxes!Loaded, Boxes!Unregistered
<1> QED BY <1>1, <1>2

\* Nothing undoes what disturbs.
LEMMA Disturbs ==
  ASSUME boxesFaults \in Nat, Boxes!Next
  PROVE  boxesFaults' \in Nat /\ (Undisturbed' => Undisturbed)
<1>1. \/ UNCHANGED boxesFaults /\ (boxesRemoval => boxesRemoval')
      \/ \E t \in Tasks : Boxes!CallFails(t)
  <2> DEFINE Same == UNCHANGED boxesFaults /\ (boxesRemoval => boxesRemoval')
  <2>1. ASSUME NEW t \in Tasks, Boxes!Step(t) PROVE Same
    <3>1. CASE Boxes!UpdateEnv(t)
      BY <3>1 DEF Boxes!UpdateEnv, Boxes!history
    <3>2. CASE Boxes!LookUp(t)
      BY <3>2 DEF Boxes!LookUp, Boxes!history
    <3>3. CASE Boxes!Discard(t)
      BY <3>3 DEF Boxes!Discard, Boxes!history
    <3>4. CASE Boxes!Prepare(t)
      BY <3>4 DEF Boxes!Prepare, Boxes!history
    <3>5. CASE Boxes!Create(t)
      BY <3>5 DEF Boxes!Create, Boxes!history
    <3>6. CASE Boxes!NameTaken(t)
      BY <3>6 DEF Boxes!NameTaken, Boxes!history
    <3>7. CASE Boxes!StopContainer(t)
      BY <3>7 DEF Boxes!StopContainer, Boxes!history
    <3>8. CASE Boxes!Remove(t)
      BY <3>8 DEF Boxes!Remove, Boxes!history
    <3>9. CASE Boxes!Ends(t)
      BY <3>9 DEF Boxes!Ends, Boxes!history
    <3> QED BY <2>1, <3>1, <3>2, <3>3, <3>4, <3>5, <3>6, <3>7, <3>8, <3>9 DEF Boxes!Step
  <2>2. ASSUME NEW t \in Tasks, NEW w \in Workers,
               \/ Boxes!Load(t, w) \/ Boxes!SaveSettings(t, w) \/ Boxes!FlipAutoStart(t, w)
               \/ Boxes!Uninstall(t, w) \/ Boxes!Heal(t, w)
        PROVE  Same
    <3>1. CASE Boxes!Load(t, w)
      BY <3>1 DEF Boxes!Load, Boxes!Asked
    <3>2. CASE Boxes!SaveSettings(t, w)
      BY <3>2 DEF Boxes!SaveSettings, Boxes!Asked
    <3>3. CASE Boxes!FlipAutoStart(t, w)
      BY <3>3 DEF Boxes!FlipAutoStart, Boxes!Asked
    <3>4. CASE Boxes!Uninstall(t, w)
      BY <3>4 DEF Boxes!Uninstall, Boxes!Asked
    <3>5. CASE Boxes!Heal(t, w)
      BY <3>5 DEF Boxes!Heal, Boxes!history
    <3> QED BY <2>2, <3>1, <3>2, <3>3, <3>4, <3>5
  <2>3. ASSUME NEW t \in Tasks, NEW w \in Workers, NEW k \in Boxes!Keys,
               Boxes!Start(t, w, k) \/ Boxes!Stop(t, w, k) \/ Boxes!Restart(t, w, k)
        PROVE  Same
    BY <2>3 DEF Boxes!Start, Boxes!Stop, Boxes!Restart, Boxes!Asked
  <2>4. ASSUME NEW w \in Workers, Boxes!Attach(w) \/ Boxes!Forget(w) PROVE Same
    BY <2>4 DEF Boxes!Attach, Boxes!Forget, Boxes!history
  <2>5. ASSUME Boxes!Redeploy PROVE Same
    BY <2>5 DEF Boxes!Redeploy, Boxes!Asked
  <2>6. ASSUME \E t \in Tasks, w \in Workers :
                 \/ Boxes!Load(t, w)
                 \/ \E k \in Boxes!Keys :
                      Boxes!Start(t, w, k) \/ Boxes!Stop(t, w, k) \/ Boxes!Restart(t, w, k)
                 \/ Boxes!SaveSettings(t, w) \/ Boxes!FlipAutoStart(t, w)
                 \/ Boxes!Uninstall(t, w) \/ Boxes!Heal(t, w)
        PROVE  Same
    <3> HIDE DEF Same
    <3>1. PICK t \in Tasks, w \in Workers :
                 \/ Boxes!Load(t, w)
                 \/ \E k \in Boxes!Keys :
                      Boxes!Start(t, w, k) \/ Boxes!Stop(t, w, k) \/ Boxes!Restart(t, w, k)
                 \/ Boxes!SaveSettings(t, w) \/ Boxes!FlipAutoStart(t, w)
                 \/ Boxes!Uninstall(t, w) \/ Boxes!Heal(t, w)
      BY <2>6
    <3> QED BY <2>2, <2>3, <3>1
  <2>7. ASSUME \E w \in Workers : Boxes!Attach(w) \/ Boxes!Forget(w) PROVE Same
    BY <2>4, <2>7
  <2>8. ASSUME \E t \in Tasks : Boxes!Step(t) \/ Boxes!CallFails(t)
        PROVE  Same \/ \E t \in Tasks : Boxes!CallFails(t)
    <3> HIDE DEF Same
    <3> QED BY <2>1, <2>8
  <2>9. Same \/ \E t \in Tasks : Boxes!CallFails(t)
    <3> HIDE DEF Same
    <3> QED BY <2>5, <2>6, <2>7, <2>8 DEF Boxes!Next
  <2> QED BY <2>9 DEF Same
<1>2. ~ \E t \in Tasks : Boxes!CallFails(t)
  BY DEF Boxes!CallFails, Boxes!Fault
<1> QED BY <1>1, <1>2 DEF Undisturbed

\* A call of a task: on a worker that has the app, by a plan.
LEMMA AtCall ==
  ASSUME Steady, NEW t \in Tasks, boxesTask[t].todo # <<>>
  PROVE  /\ Boxes!By(t) \in Workers /\ Boxes!By(t) = boxesTask[t].by
         /\ Boxes!First(t).key \in Boxes!Keys /\ Boxes!First(t) = Head(boxesTask[t].todo)
         /\ boxesSpec[Boxes!By(t)][Boxes!First(t).key] \in Nat
         /\ boxesSpec[Boxes!By(t)][Boxes!First(t).key] # None
         /\ Boxes!First(t).call \in {"start", "stop", "update_env"}
         /\ boxesTask[t] \in Works /\ boxesTask[t].todo \in Plans
<1>1. boxesTask[t] \in Works /\ boxesTask[t].todo \in Plans
  BY DEF Steady, BoxesTyped, Works
<1>2. Whole(boxesTask[t].by)
  BY DEF Steady, Backed
<1>3. Head(boxesTask[t].todo).call \in {"start", "stop", "update_env"}
      /\ Head(boxesTask[t].todo).key \in Boxes!Keys
  BY <1>1, PlanGoesOn
<1> QED BY <1>1, <1>2, <1>3 DEF Boxes!By, Boxes!First, Whole, Steady, BoxesTyped

\* One task goes on, or fails, and owes no less than what does not run.
LEMMA TaskMoves ==
  ASSUME Steady, NEW t \in Tasks, boxesTask' \in [Tasks -> Works], UNCHANGED boxesInstalled,
         boxesTask[t].todo # <<>>,
         \A u \in Tasks \ {t} :
           /\ boxesTask'[u].kind = boxesTask[u].kind /\ boxesTask'[u].by = boxesTask[u].by
           /\ boxesTask'[u].todo = boxesTask[u].todo /\ boxesTask'[u].env = boxesTask[u].env
           /\ boxesTask'[u].step # "next" => boxesTask[u].step # "next",
         \/ boxesTask'[t].kind = boxesTask[t].kind /\ boxesTask'[t].by = boxesTask[t].by
         \/ /\ boxesTask[t].kind # "load" /\ boxesTask'[t].kind = "failed"
            /\ boxesTask'[t].todo = <<>>,
         boxesTask'[t].step # "next" => boxesTask'[t].env \in Nat,
         boxesTask'[t].todo = <<Starts("db"), Starts("app")>> =>
           boxesTask[t].todo = <<Starts("db"), Starts("app")>>,
         \A w \in Workers : Boxes!Loaded(w)' => Boxes!Loaded(w),
         \A w \in Workers, k \in Boxes!Keys : boxesSpec[w][k] # None => boxesSpec'[w][k] # None,
         \A k \in Boxes!Keys :
           \/ boxesEngine'[k] # None
           \/ k \in Left(boxesTask'[t].todo)
           \/ boxesEngine[k] = None /\ k \notin Left(boxesTask[t].todo)
  PROVE  Backed' /\ Held' /\ Owing'
<1>1. <<>> # <<Starts("db"), Starts("app")>>
  BY ShortPlans
<1>2. ASSUME NEW u \in Tasks
      PROVE  /\ boxesTask'[u].todo # <<>> \/ boxesTask'[u].kind = "load" =>
                  (Whole(boxesTask[u].by))'
             /\ boxesTask'[u].step # "next" => boxesTask'[u].env \in Nat
             /\ boxesTask'[u].todo = <<Starts("db"), Starts("app")>> =>
                  boxesTask'[u].kind \in {"load", "heal"}
  <2>1. /\ boxesTask[u].todo # <<>> \/ boxesTask[u].kind = "load" => Whole(boxesTask[u].by)
        /\ boxesTask[u].step # "next" => boxesTask[u].env \in Nat
        /\ boxesTask[u].todo = <<Starts("db"), Starts("app")>> =>
             boxesTask[u].kind \in {"load", "heal"}
    BY DEF Steady, Backed
  <2>2. CASE u = t
    BY <1>1, <2>1, <2>2 DEF Whole
  <2>3. CASE u # t
    BY <2>1, <2>3 DEF Whole
  <2> QED BY <2>2, <2>3
<1>3. Backed'
  BY <1>2 DEF Backed
<1>4. Held'
  <2>1. ASSUME NEW w \in Workers, Boxes!Loaded(w)'
        PROVE  /\ Whole(w)'
               /\ boxesInstalled' \/ \E u \in Tasks : boxesTask'[u].kind = "load"
                                                       /\ boxesTask'[u].by = w
    <3>1. Boxes!Loaded(w)
      BY <2>1
    <3>2. /\ Whole(w)
          /\ boxesInstalled \/ \E u \in Tasks : boxesTask[u].kind = "load"
                                                 /\ boxesTask[u].by = w
      BY <3>1 DEF Steady, Held
    <3>3. Whole(w)'
      BY <3>2 DEF Whole
    <3>4. ASSUME NEW u \in Tasks, boxesTask[u].kind = "load", boxesTask[u].by = w
          PROVE  boxesTask'[u].kind = "load" /\ boxesTask'[u].by = w
      BY <3>4
    <3> QED BY <3>2, <3>3, <3>4
  <2> QED BY <2>1 DEF Held
<1>5. Owing'
  <2>1. ASSUME NEW w \in Workers, Boxes!Loaded(w)', NEW k \in Boxes!Keys, boxesEngine'[k] = None
        PROVE  \E u \in Tasks : k \in Left(boxesTask'[u].todo)
    <3>1. boxesEngine[k] # None \/ \E u \in Tasks : k \in Left(boxesTask[u].todo)
      BY <2>1 DEF Steady, Owing
    <3> QED BY <2>1, <3>1
  <2> QED BY <2>1 DEF Owing
<1> QED BY <1>3, <1>4, <1>5

\* A task that is idle begins one.
LEMMA TaskBegins ==
  ASSUME Steady, NEW t \in Tasks, NEW w \in Workers, NEW plan \in Plans,
         NEW kind \in {"load", "ui", "save", "heal"}, Boxes!Begins(t, kind, w, plan)
  PROVE  /\ boxesTask' \in [Tasks -> Works]
         /\ boxesTask[t].kind = "none" /\ Left(boxesTask[t].todo) = {}
         /\ boxesTask'[t].kind = kind /\ boxesTask'[t].by = w /\ boxesTask'[t].todo = plan
         /\ boxesTask'[t].step = "next"
         /\ \A u \in Tasks \ {t} : boxesTask'[u] = boxesTask[u]
<1> DEFINE o == [Boxes!NoTask EXCEPT !.kind = kind, !.by = w, !.todo = plan]
<1>1. boxesTask' = [boxesTask EXCEPT ![t] = o] /\ boxesTask[t] = Boxes!NoTask
  BY Zenon DEF Boxes!Begins, Boxes!Idle
<1>2. o \in Works /\ o.kind = kind /\ o.by = w /\ o.todo = plan /\ o.step = "next"
  BY DEF Works, Boxes!NoTask
<1>3. boxesTask[t].kind = "none" /\ boxesTask[t].todo = <<>>
  BY <1>1 DEF Boxes!NoTask
<1> HIDE DEF o
<1>4. boxesTask' \in [Tasks -> Works] /\ boxesTask'[t] = o
  BY <1>1, <1>2 DEF Steady, BoxesTyped
<1>5. \A u \in Tasks \ {t} : boxesTask'[u] = boxesTask[u]
  BY <1>1 DEF Steady, BoxesTyped
<1> QED BY <1>2, <1>3, <1>4, <1>5, LeftOf

\* On a worker that has the app, and when no plan of two starts but a heal.
LEMMA BegunKeeps ==
  ASSUME Steady, NEW t \in Tasks, NEW w \in Workers, NEW plan \in Plans,
         NEW kind \in {"ui", "save", "heal"}, Boxes!Begins(t, kind, w, plan),
         Boxes!Loaded(w), plan = <<Starts("db"), Starts("app")>> => kind = "heal",
         UNCHANGED <<boxesInstalled, boxesSpec, boxesEngine, boxesHost>>,
         boxesAuto', boxesEnv' \in Nat
  PROVE  Steady'
<1>1. /\ boxesTask' \in [Tasks -> Works]
      /\ boxesTask[t].kind = "none" /\ Left(boxesTask[t].todo) = {}
      /\ boxesTask'[t].kind = kind /\ boxesTask'[t].by = w /\ boxesTask'[t].todo = plan
      /\ boxesTask'[t].step = "next"
      /\ \A u \in Tasks \ {t} : boxesTask'[u] = boxesTask[u]
  BY TaskBegins
<1>2. Whole(w)
  BY DEF Steady, Held
<1>3. BoxesTyped'
  BY <1>1 DEF Steady, BoxesTyped
<1>4. Backed'
  BY <1>1, <1>2 DEF Steady, Backed, Whole
<1>5. Held'
  <2>1. ASSUME NEW v \in Workers, Boxes!Loaded(v)'
        PROVE  /\ Whole(v)'
               /\ boxesInstalled' \/ \E u \in Tasks : boxesTask'[u].kind = "load"
                                                       /\ boxesTask'[u].by = v
    <3>1. Boxes!Loaded(v)
      BY <2>1 DEF Boxes!Loaded, Boxes!Unregistered
    <3>2. /\ Whole(v)
          /\ boxesInstalled \/ \E u \in Tasks : boxesTask[u].kind = "load"
                                                 /\ boxesTask[u].by = v
      BY <3>1 DEF Steady, Held
    <3>3. ASSUME NEW u \in Tasks, boxesTask[u].kind = "load" PROVE u # t
      BY <1>1, <3>3
    <3> QED BY <1>1, <3>2, <3>3 DEF Whole
  <2> QED BY <2>1 DEF Held
<1>6. Owing'
  <2>1. ASSUME NEW k \in Boxes!Keys, boxesEngine'[k] = None
        PROVE  \E u \in Tasks : k \in Left(boxesTask'[u].todo)
    <3>1. \E u \in Tasks : k \in Left(boxesTask[u].todo)
      BY <2>1 DEF Steady, Owing
    <3> QED BY <1>1, <3>1
  <2> QED BY <2>1 DEF Owing
<1> QED BY <1>3, <1>4, <1>5, <1>6 DEF Steady

\* The plans that are begun.
LEMMA PlansBegun ==
  /\ Boxes!SidecarsFirst("start") = <<Starts("db"), Starts("app")>>
  /\ Boxes!SidecarsFirst("start") \in Plans
  /\ Boxes!SidecarsFirst("update_env") \in Plans
  /\ Boxes!SidecarsFirst("update_env") # <<Starts("db"), Starts("app")>>
  /\ \A k \in Boxes!Keys :
       /\ <<Starts(k)>> \in Plans /\ <<Starts(k)>> # <<Starts("db"), Starts("app")>>
       /\ <<Boxes!Call("stop", k), Starts(k)>> \in Plans
       /\ <<Boxes!Call("stop", k), Starts(k)>> # <<Starts("db"), Starts("app")>>
  /\ Left(<<Starts("db"), Starts("app")>>) = Boxes!Keys
<1>1. Boxes!SidecarsFirst("start") = <<Starts("db"), Starts("app")>>
  BY DEF Boxes!SidecarsFirst, Starts
<1>2. Boxes!SidecarsFirst("update_env") =
        <<Boxes!Call("update_env", "db"), Boxes!Call("update_env", "app")>>
  BY DEF Boxes!SidecarsFirst
<1>3. /\ Boxes!Call("update_env", "db") # Starts("db")
      /\ \A k, l : Boxes!Call("stop", k) # Starts(l)
  BY CallsDiffer DEF Starts
<1>4. Left(<<Starts("db"), Starts("app")>>) = Boxes!Keys
  BY LeftOf, CallsDiffer
<1>5. ASSUME NEW k \in Boxes!Keys
      PROVE  <<Starts(k)>> \in Plans /\ <<Boxes!Call("stop", k), Starts(k)>> \in Plans
  BY CallsDiffer DEF Plans
<1>6. /\ Boxes!SidecarsFirst("start") \in Plans /\ Boxes!SidecarsFirst("update_env") \in Plans
  BY <1>1, <1>2 DEF Plans
<1>7. /\ Boxes!SidecarsFirst("update_env") # <<Starts("db"), Starts("app")>>
      /\ \A k : <<Starts(k)>> # <<Starts("db"), Starts("app")>>
      /\ \A k : <<Boxes!Call("stop", k), Starts(k)>> # <<Starts("db"), Starts("app")>>
  BY <1>2, <1>3, ShortPlans
<1> QED BY <1>1, <1>4, <1>5, <1>6, <1>7

\* What is asked for, while nothing is to be stopped for good.
LEMMA AsksKeepRunning ==
  ASSUME Steady, Undisturbed', NEW t \in Tasks, NEW w \in Workers,
         \/ \E k \in Boxes!Keys :
              Boxes!Start(t, w, k) \/ Boxes!Stop(t, w, k) \/ Boxes!Restart(t, w, k)
         \/ Boxes!SaveSettings(t, w) \/ Boxes!FlipAutoStart(t, w) \/ Boxes!Uninstall(t, w)
         \/ Boxes!Heal(t, w)
  PROVE  Steady'
<1>1. ASSUME NEW k \in Boxes!Keys, boxesSpec[w][k] # None PROVE Boxes!Loaded(w)
  BY <1>1 DEF Boxes!Loaded, Boxes!Unregistered
<1>2. boxesEnv \in Nat /\ boxesAuto
  BY DEF Steady, BoxesTyped
<1>3. CASE \E k \in Boxes!Keys :
             Boxes!Start(t, w, k) \/ Boxes!Stop(t, w, k) \/ Boxes!Restart(t, w, k)
  <2>1. PICK k \in Boxes!Keys : Boxes!Start(t, w, k) \/ Boxes!Restart(t, w, k)
    BY <1>3 DEF Boxes!Stop, Undisturbed
  <2>2. /\ boxesSpec[w][k] # None
        /\ UNCHANGED <<boxesInstalled, boxesSpec, boxesEngine, boxesHost, boxesAuto, boxesEnv>>
        /\ \/ Boxes!Begins(t, "ui", w, <<Starts(k)>>)
           \/ Boxes!Begins(t, "ui", w, <<Boxes!Call("stop", k), Starts(k)>>)
    BY <2>1 DEF Boxes!Start, Boxes!Restart, Boxes!settings, Starts
  <2>3. /\ <<Starts(k)>> \in Plans /\ <<Starts(k)>> # <<Starts("db"), Starts("app")>>
        /\ <<Boxes!Call("stop", k), Starts(k)>> \in Plans
        /\ <<Boxes!Call("stop", k), Starts(k)>> # <<Starts("db"), Starts("app")>>
    BY PlansBegun
  <2>4. Boxes!Loaded(w)
    BY <1>1, <2>2
  <2> QED BY <1>2, <2>2, <2>3, <2>4, BegunKeeps
<1>4. CASE Boxes!SaveSettings(t, w)
  <2>1. /\ Boxes!Loaded(w) /\ Boxes!Begins(t, "save", w, Boxes!SidecarsFirst("update_env"))
        /\ UNCHANGED <<boxesInstalled, boxesSpec, boxesEngine, boxesHost>>
        /\ boxesEnv' = boxesEnv + 1 /\ boxesAuto' \in BOOLEAN
        /\ boxesRemoval' = (boxesRemoval \/ (boxesAuto /\ ~boxesAuto'))
    BY <1>4 DEF Boxes!SaveSettings, Boxes!Serves
  <2>2. boxesAuto'
    BY <1>2, <2>1 DEF Undisturbed
  <2> QED BY <1>2, <2>1, <2>2, BegunKeeps, PlansBegun
<1>5. CASE Boxes!FlipAutoStart(t, w) \/ Boxes!Uninstall(t, w)
  BY <1>2, <1>5 DEF Boxes!FlipAutoStart, Boxes!Uninstall, Undisturbed
<1>6. CASE Boxes!Heal(t, w)
  <2> DEFINE a == Boxes!RestartOf(w, "db")
             b == Boxes!RestartOf(w, "app")
  <2>1. /\ Boxes!Begins(t, "heal", w, a \o b)
        /\ UNCHANGED <<boxesInstalled, boxesSpec, boxesEngine, boxesHost, boxesAuto, boxesEnv>>
        /\ Boxes!Drifted(w) # {}
    BY <1>6 DEF Boxes!Heal, Boxes!settings
  <2>2. Boxes!Loaded(w)
    BY <1>1, <2>1 DEF Boxes!Drifted
  <2>3. a \in {<<>>, <<Starts("db")>>} /\ b \in {<<>>, <<Starts("app")>>}
    BY DEF Boxes!RestartOf, Starts
  <2> HIDE DEF a, b
  <2>4. a \o b \in {<<>>, <<Starts("db")>>, <<Starts("app")>>, <<Starts("db"), Starts("app")>>}
    <3>1. /\ <<>> \o <<>> = <<>>
          /\ \A c : <<>> \o <<c>> = <<c>> /\ <<c>> \o <<>> = <<c>>
      BY ShortPlans
    <3>2. <<Starts("db")>> \o <<Starts("app")>> = <<Starts("db"), Starts("app")>>
      BY ShortPlans
    <3> QED BY <2>3, <3>1, <3>2
  <2>5. PICK plan \in Plans : plan = a \o b
    BY <2>4 DEF Plans
  <2> QED BY <1>2, <2>1, <2>2, <2>5, BegunKeeps
<1> QED BY <1>3, <1>4, <1>5, <1>6

\* The first load, when no worker has the app.
LEMMA LoadKeeps ==
  ASSUME Steady, NEW t \in Tasks, NEW w \in Workers, Boxes!Load(t, w)
  PROVE  Steady'
<1> DEFINE plan == Boxes!SidecarsFirst("start")
<1>1. /\ \A v \in Workers : ~Boxes!Loaded(v)
      /\ \A u \in Tasks : boxesTask[u].kind # "load"
      /\ Boxes!Begins(t, "load", w, plan)
      /\ boxesSpec' = [boxesSpec EXCEPT ![w] = [k \in Boxes!Keys |-> boxesEnv]]
      /\ UNCHANGED <<boxesInstalled, boxesEnv, boxesAuto, boxesEngine, boxesHost>>
  BY DEF Boxes!Load, Boxes!settings, Steady, BoxesTyped
<1>2. plan \in Plans /\ Left(plan) = Boxes!Keys /\ boxesEnv \in Nat
  BY PlansBegun DEF Steady, BoxesTyped
<1> HIDE DEF plan
<1>3. /\ boxesTask' \in [Tasks -> Works]
      /\ boxesTask'[t].kind = "load" /\ boxesTask'[t].by = w /\ boxesTask'[t].todo = plan
      /\ boxesTask'[t].step = "next"
      /\ \A u \in Tasks \ {t} : boxesTask'[u] = boxesTask[u]
  BY <1>1, <1>2, TaskBegins
<1>4. \A u \in Tasks \ {t} : boxesTask[u].todo = <<>>
  <2>1. \A u \in Tasks : boxesTask[u].by \in Workers \cup {None}
    BY DEF Steady, BoxesTyped, Works
  <2> QED BY <1>1, <2>1, WholeIsLoaded DEF Steady, Backed, Whole
<1>5. /\ boxesSpec' \in [Workers -> [Boxes!Keys -> Nat \cup {None}]]
      /\ \A k \in Boxes!Keys : boxesSpec'[w][k] = boxesEnv
      /\ \A v \in Workers \ {w} : boxesSpec'[v] = boxesSpec[v]
  BY <1>1, <1>2 DEF Steady, BoxesTyped
<1>6. Whole(w)'
  BY <1>2, <1>5, BoxesNone DEF Whole
<1>7. BoxesTyped'
  BY <1>1, <1>3, <1>5 DEF Steady, BoxesTyped
<1>8. Backed'
  <2>1. ASSUME NEW u \in Tasks \ {t}
        PROVE  /\ boxesTask'[u].todo = <<>> /\ boxesTask'[u].kind # "load"
               /\ boxesTask'[u].step # "next" => boxesTask'[u].env \in Nat
    BY <1>1, <1>3, <1>4 DEF Steady, Backed
  <2>2. <<>> # <<Starts("db"), Starts("app")>>
    BY ShortPlans
  <2>3. ASSUME NEW u \in Tasks
        PROVE  /\ boxesTask'[u].todo # <<>> \/ boxesTask'[u].kind = "load" =>
                    (Whole(boxesTask[u].by))'
               /\ boxesTask'[u].step # "next" => boxesTask'[u].env \in Nat
               /\ boxesTask'[u].todo = <<Starts("db"), Starts("app")>> =>
                    boxesTask'[u].kind \in {"load", "heal"}
    <3>1. CASE u = t
      BY <1>3, <1>6, <3>1 DEF Whole
    <3>2. CASE u # t
      BY <2>1, <2>2, <3>2
    <3> QED BY <3>1, <3>2
  <2> QED BY <2>3 DEF Backed
<1>9. Held'
  <2>1. ASSUME NEW v \in Workers \ {w} PROVE ~Boxes!Loaded(v)'
    BY <1>1, <1>5 DEF Boxes!Loaded, Boxes!Unregistered
  <2> QED BY <1>3, <1>6, <2>1 DEF Held
<1>10. Owing'
  BY <1>2, <1>3 DEF Owing
<1> QED BY <1>7, <1>8, <1>9, <1>10 DEF Steady

\* The others, and a redeploy.
LEMMA WorkersKeep ==
  ASSUME Steady,
         (\E w \in Workers : Boxes!Attach(w) \/ Boxes!Forget(w)) \/ Boxes!Redeploy
  PROVE  Steady'
<1>1. ASSUME NEW w \in Workers, Boxes!Attach(w) PROVE Steady'
  <2>1. /\ boxesInstalled /\ \E v \in Workers : Boxes!Loaded(v)
        /\ boxesSpec' = [boxesSpec EXCEPT ![w] = [k \in Boxes!Keys |-> boxesEnv]]
        /\ UNCHANGED <<boxesInstalled, boxesEnv, boxesAuto, boxesEngine, boxesHost, boxesTask>>
    BY <1>1 DEF Boxes!Attach, Boxes!settings
  <2>2. /\ boxesSpec' \in [Workers -> [Boxes!Keys -> Nat \cup {None}]]
        /\ \A k \in Boxes!Keys : boxesSpec'[w][k] = boxesEnv
        /\ \A v \in Workers \ {w} : boxesSpec'[v] = boxesSpec[v]
    BY <2>1 DEF Steady, BoxesTyped
  <2>3. \A v : Whole(v) \/ v = w => (Whole(v))'
    BY <2>2, BoxesNone DEF Whole, Steady, BoxesTyped
  <2>4. BoxesTyped'
    BY <2>1, <2>2 DEF Steady, BoxesTyped
  <2>5. Backed'
    <3>1. ASSUME NEW u \in Tasks
          PROVE  /\ boxesTask'[u].todo # <<>> \/ boxesTask'[u].kind = "load" =>
                      (Whole(boxesTask[u].by))'
                 /\ boxesTask'[u].step # "next" => boxesTask'[u].env \in Nat
                 /\ boxesTask'[u].todo = <<Starts("db"), Starts("app")>> =>
                      boxesTask'[u].kind \in {"load", "heal"}
      <4>1. boxesTask'[u] = boxesTask[u]
        BY <2>1
      <4>2. Whole(boxesTask[u].by) => (Whole(boxesTask[u].by))'
        BY <2>3, <4>1 DEF Whole
      <4> QED BY <4>1, <4>2 DEF Steady, Backed
    <3> QED BY <3>1 DEF Backed
  <2>6. Held'
    <3>1. ASSUME NEW v \in Workers, Boxes!Loaded(v)' PROVE (Whole(v))'
      <4>1. CASE v = w
        BY <2>3, <4>1
      <4>2. CASE v # w
        <5>1. Boxes!Loaded(v)
          BY <2>2, <3>1, <4>2 DEF Boxes!Loaded, Boxes!Unregistered
        <5> QED BY <2>3, <5>1 DEF Steady, Held
      <4> QED BY <4>1, <4>2
    <3> QED BY <2>1, <3>1 DEF Held
  <2>7. Owing'
    BY <2>1 DEF Steady, Owing
  <2> QED BY <2>4, <2>5, <2>6, <2>7 DEF Steady
<1>2. ASSUME NEW w \in Workers, Boxes!Forget(w) PROVE FALSE
  <2>1. /\ ~boxesInstalled /\ Boxes!Loaded(w)
        /\ \A t \in Tasks : boxesTask[t].kind = "load" => boxesTask[t].by # w
    BY <1>2 DEF Boxes!Forget, Boxes!By
  <2> QED BY <2>1 DEF Steady, Held
<1>3. ASSUME Boxes!Redeploy PROVE Steady'
  <2> DEFINE none == Boxes!NoTask
  <2>1. /\ boxesHost' = boxesHost + 1
        /\ boxesSpec' = [w \in Workers |-> Boxes!Unregistered]
        /\ boxesTask' = [t \in Tasks |-> none]
        /\ UNCHANGED <<boxesInstalled, boxesEnv, boxesAuto, boxesEngine>>
    BY <1>3 DEF Boxes!Redeploy, Boxes!settings
  <2>2. none \in Works /\ none.kind = "none" /\ none.todo = <<>> /\ none.step = "next"
    BY DEF Boxes!NoTask, Works, Plans
  <2> HIDE DEF none
  <2>3. \A w \in Workers : ~Boxes!Loaded(w)'
    BY <2>1 DEF Boxes!Loaded
  <2>4. BoxesTyped'
    BY <2>1, <2>2 DEF Steady, BoxesTyped, Boxes!Unregistered
  <2>5. Backed'
    BY <2>1, <2>2, ShortPlans DEF Backed
  <2>6. Held' /\ Owing'
    BY <2>3 DEF Held, Owing
  <2> QED BY <2>4, <2>5, <2>6 DEF Steady
<1> QED BY <1>1, <1>2, <1>3

\* One task changes to x.
LEMMA OneTask ==
  ASSUME BoxesTyped, NEW t \in Tasks, NEW x \in Works, boxesTask' = [boxesTask EXCEPT ![t] = x]
  PROVE  /\ boxesTask' \in [Tasks -> Works] /\ boxesTask'[t] = x
         /\ \A u \in Tasks \ {t} : boxesTask'[u] = boxesTask[u]
BY DEF BoxesTyped

\* A container goes, and one task changes to x, which has looked nothing up.
LEMMA ContainerGoes ==
  ASSUME BoxesTyped, NEW t \in Tasks, NEW x \in Works, NEW tasks, NEW k \in Boxes!Keys,
         tasks = [boxesTask EXCEPT ![t] = x], Boxes!Gone(k, tasks)
  PROVE  /\ boxesTask' \in [Tasks -> Works]
         /\ boxesTask'[t].kind = x.kind /\ boxesTask'[t].by = x.by
         /\ boxesTask'[t].todo = x.todo /\ boxesTask'[t].env = x.env
         /\ boxesTask'[t].step # "next" => x.step # "next"
         /\ \A u \in Tasks \ {t} :
              /\ boxesTask'[u].kind = boxesTask[u].kind /\ boxesTask'[u].by = boxesTask[u].by
              /\ boxesTask'[u].todo = boxesTask[u].todo /\ boxesTask'[u].env = boxesTask[u].env
              /\ boxesTask'[u].step # "next" => boxesTask[u].step # "next"
         /\ boxesEngine' \in [Boxes!Keys -> [env : Nat, host : Nat, by : Workers] \cup {None}]
         /\ \A l \in Boxes!Keys \ {k} : boxesEngine'[l] = boxesEngine[l]
<1>1. tasks \in [Tasks -> Works] /\ tasks[t] = x
      /\ \A u \in Tasks \ {t} : tasks[u] = boxesTask[u]
  BY DEF BoxesTyped
<1>2. ASSUME NEW u \in Tasks
      PROVE  /\ boxesTask'[u] \in Works
             /\ boxesTask'[u].kind = tasks[u].kind /\ boxesTask'[u].by = tasks[u].by
             /\ boxesTask'[u].todo = tasks[u].todo /\ boxesTask'[u].env = tasks[u].env
             /\ boxesTask'[u].step # "next" => tasks[u].step # "next"
  <2>1. tasks[u] \in Works
    BY <1>1
  <2>2. \/ boxesTask'[u] = tasks[u]
        \/ tasks[u].step = "found" /\ boxesTask'[u] = [tasks[u] EXCEPT !.step = "cleared"]
    BY DEF Boxes!Gone
  <2> QED BY <2>1, <2>2 DEF Works
<1>3. boxesTask' \in [Tasks -> Works]
  <2>1. DOMAIN boxesTask' = Tasks /\ boxesTask' = [u \in Tasks |-> boxesTask'[u]]
    BY DEF Boxes!Gone
  <2> QED BY <1>2, <2>1
<1>4. /\ boxesEngine' \in [Boxes!Keys -> [env : Nat, host : Nat, by : Workers] \cup {None}]
      /\ \A l \in Boxes!Keys \ {k} : boxesEngine'[l] = boxesEngine[l]
  BY DEF Boxes!Gone, BoxesTyped
<1> QED BY <1>1, <1>2, <1>3, <1>4

\* A call goes on, and one task alone changes: what TaskMoves asks for, when the containers
\* and the registrations are as before.
LEMMA TaskGoesOn ==
  ASSUME Steady, NEW t \in Tasks, boxesTask[t].todo # <<>>, NEW x \in Works,
         boxesTask' = [boxesTask EXCEPT ![t] = x],
         UNCHANGED <<boxesInstalled, boxesEnv, boxesAuto, boxesSpec, boxesHost>>,
         boxesEngine' \in [Boxes!Keys -> [env : Nat, host : Nat, by : Workers] \cup {None}],
         \/ x.kind = boxesTask[t].kind /\ x.by = boxesTask[t].by
         \/ boxesTask[t].kind # "load" /\ x.kind = "failed" /\ x.todo = <<>>,
         x.step # "next" => x.env \in Nat,
         x.todo = <<Starts("db"), Starts("app")>> =>
           boxesTask[t].todo = <<Starts("db"), Starts("app")>>,
         \A k \in Boxes!Keys :
           \/ boxesEngine'[k] # None
           \/ k \in Left(x.todo)
           \/ boxesEngine[k] = None /\ k \notin Left(boxesTask[t].todo)
  PROVE  Steady'
<1>1. /\ boxesTask' \in [Tasks -> Works] /\ boxesTask'[t] = x
      /\ \A u \in Tasks \ {t} : boxesTask'[u] = boxesTask[u]
  BY OneTask DEF Steady
<1>2. \A w \in Workers : Boxes!Loaded(w)' => Boxes!Loaded(w)
  BY DEF Boxes!Loaded
<1>3. Backed' /\ Held' /\ Owing'
  BY <1>1, <1>2, TaskMoves
<1>4. BoxesTyped'
  BY <1>1 DEF Steady, BoxesTyped
<1> QED BY <1>3, <1>4 DEF Steady

\* The look-up, and the preparation of what is to be created.
LEMMA LookUpsKeep ==
  ASSUME Steady, NEW t \in Tasks, Boxes!LookUp(t) \/ Boxes!Prepare(t)
  PROVE  Steady'
<1>1. boxesTask[t].todo # <<>>
  BY DEF Boxes!LookUp, Boxes!Prepare, Boxes!Doing
<1>2. /\ Boxes!By(t) = boxesTask[t].by /\ Boxes!First(t).key \in Boxes!Keys
      /\ boxesSpec[Boxes!By(t)][Boxes!First(t).key] \in Nat
      /\ boxesSpec[Boxes!By(t)][Boxes!First(t).key] # None
      /\ boxesTask[t] \in Works
  BY <1>1, AtCall
<1>3. PICK e \in Nat : e = boxesSpec[Boxes!By(t)][Boxes!First(t).key]
  BY <1>2
<1>4. PICK x \in Works :
        /\ boxesTask' = [boxesTask EXCEPT ![t] = x]
        /\ x.kind = boxesTask[t].kind /\ x.by = boxesTask[t].by /\ x.todo = boxesTask[t].todo
        /\ x.env = e
  <2>1. CASE Boxes!LookUp(t)
    <3>1. PICK step \in {"found", "cleared"} :
            boxesTask' = [boxesTask EXCEPT ![t] = [boxesTask[t] EXCEPT !.step = step, !.env = e]]
      BY <1>2, <1>3, <2>1 DEF Boxes!LookUp, Steady, BoxesTyped
    <3> DEFINE x == [boxesTask[t] EXCEPT !.step = step, !.env = e]
    <3>2. /\ x \in Works /\ x.kind = boxesTask[t].kind /\ x.by = boxesTask[t].by
          /\ x.todo = boxesTask[t].todo /\ x.env = e
      BY <1>2 DEF Works
    <3> QED BY <3>1, <3>2
  <2>2. CASE Boxes!Prepare(t)
    <3> DEFINE x == [boxesTask[t] EXCEPT !.step = "prepared", !.env = e]
    <3>1. boxesTask' = [boxesTask EXCEPT ![t] = x]
      BY <1>2, <1>3, <2>2 DEF Boxes!Prepare, Steady, BoxesTyped
    <3>2. /\ x \in Works /\ x.kind = boxesTask[t].kind /\ x.by = boxesTask[t].by
          /\ x.todo = boxesTask[t].todo /\ x.env = e
      BY <1>2 DEF Works
    <3> QED BY <3>1, <3>2
  <2> QED BY <2>1, <2>2
<1>5. UNCHANGED <<boxesInstalled, boxesEnv, boxesAuto, boxesSpec, boxesHost, boxesEngine>>
  BY DEF Boxes!LookUp, Boxes!Prepare, Boxes!settings
<1>6. boxesEngine' \in [Boxes!Keys -> [env : Nat, host : Nat, by : Workers] \cup {None}]
  BY <1>5 DEF Steady, BoxesTyped
<1>7. \A k \in Boxes!Keys :
        \/ boxesEngine'[k] # None
        \/ k \in Left(x.todo)
        \/ boxesEngine[k] = None /\ k \notin Left(boxesTask[t].todo)
  BY <1>4, <1>5
<1> QED BY <1>1, <1>4, <1>5, <1>6, <1>7, TaskGoesOn

\* The rest of an operation.
LEMMA RestOf ==
  ASSUME Steady, NEW t \in Tasks, boxesTask[t].todo # <<>>
  PROVE  /\ Boxes!Next1(t) \in Works
         /\ Boxes!Next1(t).kind = boxesTask[t].kind /\ Boxes!Next1(t).by = boxesTask[t].by
         /\ Boxes!Next1(t).todo = Tail(boxesTask[t].todo) /\ Boxes!Next1(t).step = "next"
<1>1. boxesTask[t] \in Works /\ Tail(boxesTask[t].todo) \in Plans
  BY AtCall, PlanGoesOn
<1> QED BY <1>1 DEF Boxes!Next1, Works

\* The creation, and the creation that finds the name taken.
LEMMA CreatesBox ==
  ASSUME Steady, NEW t \in Tasks, Boxes!Create(t)
  PROVE  Steady'
<1>1. boxesTask[t].todo # <<>> /\ Boxes!First(t).call = "start" /\ boxesTask[t].step = "prepared"
  BY DEF Boxes!Create, Boxes!Doing
<1>2. PICK k \in Boxes!Keys : k = Boxes!First(t).key
  BY <1>1, AtCall
<1>3. /\ Boxes!By(t) \in Workers /\ boxesTask[t].env \in Nat /\ boxesHost \in Nat
      /\ boxesTask[t].todo \in Plans /\ Boxes!First(t) = Head(boxesTask[t].todo)
  BY <1>1, AtCall DEF Steady, Backed, BoxesTyped
<1> DEFINE x == Boxes!Next1(t)
           box == [env |-> boxesTask[t].env, host |-> boxesHost, by |-> Boxes!By(t)]
<1>4. /\ boxesTask' = [boxesTask EXCEPT ![t] = x]
      /\ boxesEngine' = [boxesEngine EXCEPT ![k] = box]
      /\ UNCHANGED <<boxesInstalled, boxesEnv, boxesAuto, boxesSpec, boxesHost>>
  BY <1>2 DEF Boxes!Create, Boxes!Advance, Boxes!settings
<1>5. box \in [env : Nat, host : Nat, by : Workers] /\ box # None
  BY <1>3, BoxesNone
<1>6. /\ x \in Works /\ x.kind = boxesTask[t].kind /\ x.by = boxesTask[t].by
      /\ x.todo = Tail(boxesTask[t].todo) /\ x.step = "next"
  BY <1>1, RestOf
<1>7. /\ Left(boxesTask[t].todo) \subseteq Left(x.todo) \cup {k}
      /\ x.todo # <<Starts("db"), Starts("app")>>
  BY <1>1, <1>2, <1>3, <1>6, PlanGoesOn
<1> HIDE DEF x, box
<1>8. /\ boxesEngine' \in [Boxes!Keys -> [env : Nat, host : Nat, by : Workers] \cup {None}]
      /\ boxesEngine'[k] # None
      /\ \A l \in Boxes!Keys \ {k} : boxesEngine'[l] = boxesEngine[l]
  BY <1>4, <1>5 DEF Steady, BoxesTyped
<1>9. \A l \in Boxes!Keys :
        \/ boxesEngine'[l] # None
        \/ l \in Left(x.todo)
        \/ boxesEngine[l] = None /\ l \notin Left(boxesTask[t].todo)
  BY <1>7, <1>8
<1> QED BY <1>1, <1>4, <1>6, <1>7, <1>8, <1>9, TaskGoesOn

LEMMA NameTakenKeeps ==
  ASSUME Steady, NEW t \in Tasks, Boxes!NameTaken(t), ~boxesRemoval'
  PROVE  Steady'
<1>1. /\ boxesTask[t].todo # <<>> /\ Boxes!First(t).call = "start"
      /\ boxesTask[t].kind # "load" /\ boxesEngine[Boxes!First(t).key] # None
      /\ boxesTask' = [boxesTask EXCEPT ![t] = Boxes!Raises(t)]
      /\ UNCHANGED <<boxesInstalled, boxesEnv, boxesAuto, boxesSpec, boxesHost, boxesEngine>>
  BY DEF Boxes!NameTaken, Boxes!Doing, Boxes!settings
<1>2. PICK k \in Boxes!Keys : k = Boxes!First(t).key
  BY <1>1, AtCall
<1>3. /\ boxesTask[t].todo \in Plans /\ Boxes!First(t) = Head(boxesTask[t].todo)
      /\ boxesTask[t] \in Works
  BY <1>1, AtCall
<1>4. boxesEngine' \in [Boxes!Keys -> [env : Nat, host : Nat, by : Workers] \cup {None}]
  BY <1>1 DEF Steady, BoxesTyped
<1>5. CASE boxesTask[t].kind = "heal"
  <2> DEFINE x == Boxes!Next1(t)
  <2>1. /\ x \in Works /\ x.kind = boxesTask[t].kind /\ x.by = boxesTask[t].by
        /\ x.todo = Tail(boxesTask[t].todo) /\ x.step = "next"
    BY <1>1, RestOf
  <2>2. boxesTask' = [boxesTask EXCEPT ![t] = x]
    BY <1>1, <1>5 DEF Boxes!Raises
  <2>3. /\ Left(boxesTask[t].todo) \subseteq Left(x.todo) \cup {k}
        /\ x.todo # <<Starts("db"), Starts("app")>>
    BY <1>1, <1>2, <1>3, <2>1, PlanGoesOn
  <2> HIDE DEF x
  <2>4. \A l \in Boxes!Keys :
          \/ boxesEngine'[l] # None
          \/ l \in Left(x.todo)
          \/ boxesEngine[l] = None /\ l \notin Left(boxesTask[t].todo)
    BY <1>1, <1>2, <2>3
  <2> QED BY <1>1, <1>4, <2>1, <2>2, <2>3, <2>4, TaskGoesOn
<1>6. CASE boxesTask[t].kind # "heal"
  <2> DEFINE x == [Boxes!NoTask EXCEPT !.kind = "failed"]
  <2>1. boxesTask' = [boxesTask EXCEPT ![t] = x]
    <3>1. boxesTask[t].kind # "uninstall"
      BY <1>3 DEF Works
    <3> QED BY <1>1, <1>6, <3>1 DEF Boxes!Raises
  <2>2. x \in Works /\ x.kind = "failed" /\ x.todo = <<>> /\ x.step = "next"
    BY DEF Boxes!NoTask, Works, Plans
  <2>3. Left(boxesTask[t].todo) \subseteq {k}
    <3>1. boxesTask[t].todo # <<Starts("db"), Starts("app")>>
      BY <1>1, <1>6 DEF Steady, Backed
    <3>2. /\ Left(boxesTask[t].todo) \subseteq Left(Tail(boxesTask[t].todo)) \cup {k}
          /\ Left(Tail(boxesTask[t].todo)) = {}
      BY <1>1, <1>2, <1>3, <3>1, PlanGoesOn
    <3> QED BY <3>2
  <2> HIDE DEF x
  <2>4. \A l \in Boxes!Keys :
          \/ boxesEngine'[l] # None
          \/ l \in Left(x.todo)
          \/ boxesEngine[l] = None /\ l \notin Left(boxesTask[t].todo)
    BY <1>1, <1>2, <2>3
  <2>5. x.todo # <<Starts("db"), Starts("app")>>
    BY <2>2, ShortPlans
  <2> QED BY <1>1, <1>4, <2>1, <2>2, <2>4, <2>5, TaskGoesOn
<1> QED BY <1>5, <1>6

\* The two calls that take a container away are followed by its start.
LEMMA GoesAndComesBack ==
  ASSUME Steady, NEW t \in Tasks, Boxes!Discard(t) \/ Boxes!StopContainer(t)
  PROVE  Steady'
<1>1. boxesTask[t].todo # <<>>
  BY DEF Boxes!Discard, Boxes!StopContainer, Boxes!Doing
<1>2. PICK k \in Boxes!Keys : k = Boxes!First(t).key
  BY <1>1, AtCall
<1>3. /\ boxesTask[t].todo \in Plans /\ Boxes!First(t) = Head(boxesTask[t].todo)
      /\ boxesTask[t] \in Works /\ boxesSpec[Boxes!By(t)][k] # None
  BY <1>1, <1>2, AtCall
<1>4. PICK x \in Works :
        /\ x.kind = boxesTask[t].kind /\ x.by = boxesTask[t].by
        /\ x.step # "next" => x.env \in Nat
        /\ x.todo # boxesTask[t].todo => x.todo # <<Starts("db"), Starts("app")>>
        /\ Left(boxesTask[t].todo) \subseteq Left(x.todo) /\ k \in Left(x.todo)
        /\ Boxes!Gone(k, [boxesTask EXCEPT ![t] = x])
  <2>1. CASE Boxes!Discard(t)
    <3>1. Boxes!First(t).call = "start" /\ Boxes!Gone(k, boxesTask)
      BY <1>2, <2>1 DEF Boxes!Discard, Boxes!Doing
    <3>2. boxesTask = [boxesTask EXCEPT ![t] = boxesTask[t]]
      BY DEF Steady, BoxesTyped
    <3>3. Boxes!Gone(k, [boxesTask EXCEPT ![t] = boxesTask[t]])
      BY <3>1, <3>2, Zenon
    <3>4. k \in Left(boxesTask[t].todo)
      BY <1>1, <1>2, <1>3, <3>1, PlanGoesOn
    <3>5. boxesTask[t].step # "next" => boxesTask[t].env \in Nat
      BY DEF Steady, Backed
    <3> QED BY <1>3, <3>3, <3>4, <3>5
  <2>2. CASE Boxes!StopContainer(t)
    <3> DEFINE x == Boxes!Next1(t)
    <3>1. Boxes!First(t).call = "stop" /\ Boxes!Gone(k, [boxesTask EXCEPT ![t] = x])
      BY <1>2, <1>3, <2>2 DEF Boxes!StopContainer, Boxes!Doing
    <3>2. /\ x \in Works /\ x.kind = boxesTask[t].kind /\ x.by = boxesTask[t].by
          /\ x.todo = Tail(boxesTask[t].todo) /\ x.step = "next"
      BY <1>1, RestOf
    <3>3. /\ Left(boxesTask[t].todo) \subseteq Left(x.todo) /\ k \in Left(x.todo)
          /\ x.todo # <<Starts("db"), Starts("app")>>
      BY <1>1, <1>2, <1>3, <3>1, <3>2, PlanGoesOn
    <3> HIDE DEF x
    <3> QED BY <3>1, <3>2, <3>3
  <2> QED BY <2>1, <2>2
<1>5. UNCHANGED <<boxesInstalled, boxesEnv, boxesAuto, boxesSpec, boxesHost>>
  BY DEF Boxes!Discard, Boxes!StopContainer, Boxes!settings
<1>6. PICK tasks : tasks = [boxesTask EXCEPT ![t] = x] /\ Boxes!Gone(k, tasks)
  BY <1>4
<1>7. /\ boxesTask' \in [Tasks -> Works]
      /\ boxesTask'[t].kind = x.kind /\ boxesTask'[t].by = x.by
      /\ boxesTask'[t].todo = x.todo /\ boxesTask'[t].env = x.env
      /\ boxesTask'[t].step # "next" => x.step # "next"
      /\ \A u \in Tasks \ {t} :
           /\ boxesTask'[u].kind = boxesTask[u].kind /\ boxesTask'[u].by = boxesTask[u].by
           /\ boxesTask'[u].todo = boxesTask[u].todo /\ boxesTask'[u].env = boxesTask[u].env
           /\ boxesTask'[u].step # "next" => boxesTask[u].step # "next"
      /\ boxesEngine' \in [Boxes!Keys -> [env : Nat, host : Nat, by : Workers] \cup {None}]
      /\ \A l \in Boxes!Keys \ {k} : boxesEngine'[l] = boxesEngine[l]
  BY <1>6, ContainerGoes DEF Steady
<1>8. \A w \in Workers : Boxes!Loaded(w)' => Boxes!Loaded(w)
  BY <1>5 DEF Boxes!Loaded
<1>9. \A l \in Boxes!Keys :
        \/ boxesEngine'[l] # None
        \/ l \in Left(boxesTask'[t].todo)
        \/ boxesEngine[l] = None /\ l \notin Left(boxesTask[t].todo)
  BY <1>4, <1>7
<1>10. Backed' /\ Held' /\ Owing'
  BY <1>1, <1>4, <1>5, <1>7, <1>8, <1>9, TaskMoves
<1>11. BoxesTyped'
  BY <1>5, <1>7 DEF Steady, BoxesTyped
<1> QED BY <1>10, <1>11 DEF Steady

\* An update of the environment, which may be followed by a start.
LEMMA UpdatesKeep ==
  ASSUME Steady, NEW t \in Tasks, Boxes!UpdateEnv(t)
  PROVE  Steady'
<1>1. boxesTask[t].todo # <<>> /\ Boxes!First(t).call = "update_env"
  BY DEF Boxes!UpdateEnv, Boxes!Doing
<1>2. PICK k \in Boxes!Keys, w \in Workers : k = Boxes!First(t).key /\ w = Boxes!By(t)
  BY <1>1, AtCall
<1>3. /\ boxesTask[t].todo \in Plans /\ Boxes!First(t) = Head(boxesTask[t].todo)
      /\ boxesTask[t] \in Works /\ boxesSpec[w][k] # None /\ w = boxesTask[t].by
      /\ boxesEnv \in Nat
  BY <1>1, <1>2, AtCall DEF Steady, BoxesTyped
<1>4. /\ boxesSpec' = [boxesSpec EXCEPT ![w][k] = boxesEnv]
      /\ UNCHANGED <<boxesInstalled, boxesEnv, boxesAuto, boxesHost, boxesEngine>>
  BY <1>2, <1>3 DEF Boxes!UpdateEnv, Boxes!settings
<1>5. PICK x \in Works :
        /\ boxesTask' = [boxesTask EXCEPT ![t] = x]
        /\ x.kind = boxesTask[t].kind /\ x.by = boxesTask[t].by
        /\ x.step # "next" => x.env \in Nat
        /\ x.todo # <<Starts("db"), Starts("app")>>
        /\ Left(boxesTask[t].todo) \subseteq Left(x.todo)
  <2> DEFINE next == <<Starts(k)>> \o Tail(boxesTask[t].todo)
             a == [boxesTask[t] EXCEPT !.todo = next]
             b == Boxes!Next1(t)
  <2>1. /\ next \in Plans /\ Left(boxesTask[t].todo) \subseteq Left(next)
        /\ next # <<Starts("db"), Starts("app")>>
        /\ Left(boxesTask[t].todo) \subseteq Left(Tail(boxesTask[t].todo))
        /\ Tail(boxesTask[t].todo) # <<Starts("db"), Starts("app")>>
    BY <1>1, <1>2, <1>3, PlanGoesOn
  <2>2. \/ boxesTask' = [boxesTask EXCEPT ![t] = a]
        \/ boxesTask' = [boxesTask EXCEPT ![t] = b]
    <3>1. boxesTask' = [boxesTask EXCEPT ![t] = a] \/ boxesTask' = [boxesTask EXCEPT ![t] = b]
      BY <1>2, <1>3 DEF Boxes!UpdateEnv, Starts
    <3> QED BY <3>1
  <2> HIDE DEF next
  <2>3. /\ a \in Works /\ a.kind = boxesTask[t].kind /\ a.by = boxesTask[t].by
        /\ a.todo = next /\ a.step = boxesTask[t].step /\ a.env = boxesTask[t].env
    BY <1>3, <2>1 DEF Works
  <2>4. a.step # "next" => a.env \in Nat
    BY <2>3 DEF Steady, Backed
  <2>5. /\ b \in Works /\ b.kind = boxesTask[t].kind /\ b.by = boxesTask[t].by
        /\ b.todo = Tail(boxesTask[t].todo) /\ b.step = "next"
    BY <1>1, RestOf
  <2> HIDE DEF a, b
  <2> QED BY <2>1, <2>2, <2>3, <2>4, <2>5
<1>6. /\ boxesTask' \in [Tasks -> Works] /\ boxesTask'[t] = x
      /\ \A u \in Tasks \ {t} : boxesTask'[u] = boxesTask[u]
  BY <1>5, OneTask DEF Steady
<1>7. /\ boxesSpec' \in [Workers -> [Boxes!Keys -> Nat \cup {None}]]
      /\ boxesSpec'[w][k] = boxesEnv
      /\ \A v \in Workers, l \in Boxes!Keys :
           (v # w \/ l # k) => boxesSpec'[v][l] = boxesSpec[v][l]
      /\ \A v \in Workers \ {w} : boxesSpec'[v] = boxesSpec[v]
  BY <1>3, <1>4 DEF Steady, BoxesTyped
<1>8. Boxes!Loaded(w)
  <2>1. Whole(w)
    BY <1>1, <1>3 DEF Steady, Backed
  <2> QED BY <2>1, WholeIsLoaded
<1>9. \A v \in Workers : Boxes!Loaded(v)' => Boxes!Loaded(v)
  <2>1. ASSUME NEW v \in Workers, v # w, Boxes!Loaded(v)' PROVE Boxes!Loaded(v)
    BY <1>7, <2>1 DEF Boxes!Loaded
  <2> QED BY <1>8, <2>1
<1>10. \A v \in Workers, l \in Boxes!Keys : boxesSpec[v][l] # None => boxesSpec'[v][l] # None
  BY <1>3, <1>7, BoxesNone
<1>11. \A l \in Boxes!Keys :
         \/ boxesEngine'[l] # None
         \/ l \in Left(boxesTask'[t].todo)
         \/ boxesEngine[l] = None /\ l \notin Left(boxesTask[t].todo)
  BY <1>4, <1>5, <1>6
<1>12. Backed' /\ Held' /\ Owing'
  BY <1>1, <1>4, <1>5, <1>6, <1>9, <1>10, <1>11, TaskMoves
<1>13. BoxesTyped'
  BY <1>4, <1>6, <1>7 DEF Steady, BoxesTyped
<1> QED BY <1>12, <1>13 DEF Steady

\* The end of an operation, which puts a loaded app in the registry.
LEMMA EndsWell ==
  ASSUME Steady, NEW t \in Tasks, Boxes!Ends(t)
  PROVE  Steady'
<1> DEFINE none == Boxes!NoTask
<1>1. /\ boxesTask[t].todo = <<>> /\ boxesTask' = [boxesTask EXCEPT ![t] = none]
      /\ UNCHANGED <<boxesEnv, boxesAuto, boxesSpec, boxesHost, boxesEngine>>
  BY DEF Boxes!Ends
<1>2. none \in Works /\ none.kind = "none" /\ none.todo = <<>> /\ none.step = "next"
  BY DEF Boxes!NoTask, Works, Plans
<1> HIDE DEF none
<1>3. /\ boxesTask' \in [Tasks -> Works] /\ boxesTask'[t] = none
      /\ \A u \in Tasks \ {t} : boxesTask'[u] = boxesTask[u]
  BY <1>1, <1>2, OneTask DEF Steady
<1>4. /\ boxesTask[t].kind = "load" => boxesInstalled'
      /\ boxesInstalled => boxesInstalled'
  <2>1. boxesTask[t].kind = "load" => Boxes!Loaded(boxesTask[t].by)
    BY WholeIsLoaded DEF Steady, Backed
  <2>2. boxesTask[t].kind # "uninstall"
    BY DEF Steady, BoxesTyped, Works
  <2> QED BY <2>1, <2>2 DEF Boxes!Ends, Boxes!By
<1>5. BoxesTyped'
  BY <1>1, <1>3 DEF Steady, BoxesTyped
<1>6. Backed'
  <2>1. ASSUME NEW u \in Tasks
        PROVE  /\ boxesTask'[u].todo # <<>> \/ boxesTask'[u].kind = "load" =>
                    (Whole(boxesTask[u].by))' /\ boxesTask'[u].by = boxesTask[u].by
               /\ boxesTask'[u].step # "next" => boxesTask'[u].env \in Nat
               /\ boxesTask'[u].todo = <<Starts("db"), Starts("app")>> =>
                    boxesTask'[u].kind \in {"load", "heal"}
    <3>1. CASE u = t
      <4>1. <<>> # <<Starts("db"), Starts("app")>>
        BY ShortPlans
      <4> QED BY <1>2, <1>3, <3>1, <4>1
    <3>2. CASE u # t
      <4>1. boxesTask'[u] = boxesTask[u]
        BY <1>3, <3>2
      <4>2. Whole(boxesTask[u].by) => (Whole(boxesTask[u].by))'
        BY <1>1, <4>1 DEF Whole
      <4> QED BY <4>1, <4>2 DEF Steady, Backed
    <3> QED BY <3>1, <3>2
  <2> QED BY <2>1 DEF Backed, Whole
<1>7. Held'
  <2>1. ASSUME NEW v \in Workers, Boxes!Loaded(v)'
        PROVE  /\ Whole(v)'
               /\ boxesInstalled' \/ \E u \in Tasks : boxesTask'[u].kind = "load"
                                                       /\ boxesTask'[u].by = v
    <3>1. Boxes!Loaded(v)
      BY <1>1, <2>1 DEF Boxes!Loaded
    <3>2. /\ Whole(v)
          /\ boxesInstalled \/ \E u \in Tasks : boxesTask[u].kind = "load"
                                                 /\ boxesTask[u].by = v
      BY <3>1 DEF Steady, Held
    <3>3. Whole(v)'
      BY <1>1, <3>2 DEF Whole
    <3> QED BY <1>3, <1>4, <3>2, <3>3
  <2> QED BY <2>1 DEF Held
<1>8. Owing'
  <2>1. ASSUME NEW w \in Workers, Boxes!Loaded(w)', NEW k \in Boxes!Keys, boxesEngine'[k] = None
        PROVE  \E u \in Tasks : k \in Left(boxesTask'[u].todo)
    <3>1. Boxes!Loaded(w)
      BY <1>1, <2>1 DEF Boxes!Loaded
    <3>2. PICK u \in Tasks : k \in Left(boxesTask[u].todo)
      BY <1>1, <2>1, <3>1 DEF Steady, Owing
    <3>3. u # t
      BY <1>1, <3>2, LeftOf
    <3> QED BY <1>3, <3>2, <3>3
  <2> QED BY <2>1 DEF Owing
<1> QED BY <1>5, <1>6, <1>7, <1>8 DEF Steady

LEMMA InitStarts == Boxes!Init => StartsInv
<1> SUFFICES ASSUME Boxes!Init PROVE StartsInv
  OBVIOUS
<1> DEFINE none == Boxes!NoTask
<1>1. none \in Works /\ none.kind = "none" /\ none.todo = <<>> /\ none.step = "next"
  BY DEF Boxes!NoTask, Works, Plans
<1>2. /\ boxesTask = [t \in Tasks |-> none]
      /\ boxesSpec = [w \in Workers |-> Boxes!Unregistered] /\ boxesEngine = Boxes!Unregistered
      /\ boxesEnv = 0 /\ boxesHost = 0 /\ boxesAuto = TRUE /\ boxesFaults = 0
  BY DEF Boxes!Init
<1> HIDE DEF none
<1>3. BoxesTyped
  BY <1>1, <1>2 DEF BoxesTyped, Boxes!Unregistered
<1>4. Backed
  <2>1. <<>> # <<Starts("db"), Starts("app")>>
    BY ShortPlans
  <2> QED BY <1>1, <1>2, <2>1 DEF Backed
<1>5. \A w \in Workers : ~Boxes!Loaded(w)
  BY <1>2 DEF Boxes!Loaded
<1>6. Held /\ Owing
  BY <1>5 DEF Held, Owing
<1> QED BY <1>2, <1>3, <1>4, <1>6 DEF StartsInv, Steady

\* Every call keeps it, as long as nothing is stopped for good and no call fails.
LEMMA CallsKeep ==
  ASSUME Steady, Undisturbed', NEW t \in Tasks, Boxes!Step(t)
  PROVE  Steady'
<1>1. ASSUME Boxes!Remove(t) PROVE FALSE
  <2>1. boxesTask[t].todo # <<>> /\ Boxes!First(t).call = "remove"
    BY <1>1 DEF Boxes!Remove, Boxes!Doing
  <2> QED BY <2>1, AtCall
<1>2. ~boxesRemoval'
  BY DEF Undisturbed
<1>3. CASE Boxes!LookUp(t) \/ Boxes!Prepare(t)
  BY <1>3, LookUpsKeep
<1>4. CASE Boxes!Discard(t) \/ Boxes!StopContainer(t)
  BY <1>4, GoesAndComesBack
<1>5. CASE Boxes!UpdateEnv(t) \/ Boxes!Create(t) \/ Boxes!NameTaken(t) \/ Boxes!Ends(t)
  BY <1>2, <1>5, UpdatesKeep, CreatesBox, NameTakenKeeps, EndsWell
<1> QED BY <1>1, <1>3, <1>4, <1>5 DEF Boxes!Step

LEMMA StepStarts == StartsInv /\ [Boxes!Next]_(Boxes!containerVars) => StartsInv'
<1> SUFFICES ASSUME StartsInv, [Boxes!Next]_(Boxes!containerVars) PROVE StartsInv'
  OBVIOUS
<1>1. CASE UNCHANGED Boxes!containerVars
  <2>1. UNCHANGED <<boxesInstalled, boxesEnv, boxesAuto, boxesSpec, boxesEngine, boxesHost,
                    boxesTask, boxesRemoval, boxesFaults>>
    BY <1>1 DEF Boxes!containerVars
  <2>2. Steady => Steady'
    BY <2>1 DEF Steady, BoxesTyped, Backed, Held, Owing, Whole, Boxes!Loaded
  <2> QED BY <2>1, <2>2 DEF StartsInv, Undisturbed
<1>2. CASE Boxes!Next
  <2>1. boxesFaults \in Nat /\ boxesFaults' \in Nat /\ (Undisturbed' => Undisturbed)
    BY <1>2, Disturbs DEF StartsInv
  <2>2. ASSUME Undisturbed' PROVE Steady'
    <3>1. Steady
      BY <2>1, <2>2 DEF StartsInv
    <3>2. ASSUME NEW t \in Tasks PROVE ~Boxes!CallFails(t)
      BY DEF Boxes!CallFails, Boxes!Fault, StartsInv
    <3>3. ASSUME NEW t \in Tasks, NEW w \in Workers,
                 \/ \E k \in Boxes!Keys :
                      Boxes!Start(t, w, k) \/ Boxes!Stop(t, w, k) \/ Boxes!Restart(t, w, k)
                 \/ Boxes!SaveSettings(t, w) \/ Boxes!FlipAutoStart(t, w)
                 \/ Boxes!Uninstall(t, w) \/ Boxes!Heal(t, w)
          PROVE  Steady'
      BY <2>2, <3>1, <3>3, AsksKeepRunning
    <3>4. ASSUME NEW t \in Tasks, NEW w \in Workers, Boxes!Load(t, w) PROVE Steady'
      BY <3>1, <3>4, LoadKeeps
    <3>5. ASSUME NEW t \in Tasks, Boxes!Step(t) PROVE Steady'
      BY <2>2, <3>1, <3>5, CallsKeep
    <3>6. CASE (\E w \in Workers : Boxes!Attach(w) \/ Boxes!Forget(w)) \/ Boxes!Redeploy
      BY <3>1, <3>6, WorkersKeep
    <3> QED BY <1>2, <3>2, <3>3, <3>4, <3>5, <3>6 DEF Boxes!Next
  <2> QED BY <2>1, <2>2 DEF StartsInv
<1> QED BY <1>1, <1>2

LEMMA AllHaveStarted == StartsInv => Boxes!StartsLeaveItRunning
<1> SUFFICES ASSUME StartsInv, Boxes!Quiet, ~boxesRemoval, boxesFaults = 0,
                    \E w \in Workers : Boxes!Loaded(w), NEW k \in Boxes!Keys
             PROVE  boxesEngine[k] # None
  BY DEF Boxes!StartsLeaveItRunning
<1>1. Owing
  BY DEF StartsInv, Undisturbed, Steady
<1>2. \A t \in Tasks : boxesTask[t].todo = <<>>
  BY DEF Boxes!Quiet, Boxes!Idle, Boxes!NoTask
<1>3. \A t \in Tasks : k \notin Left(boxesTask[t].todo)
  BY <1>2, LeftOf
<1> QED BY <1>1, <1>3 DEF Owing

LEMMA BoxesAlone == [Next]_vars => [Boxes!Next]_(Boxes!containerVars)
<1>1. Next => BoxesMoves \/ UNCHANGED boxesVars
  BY SMT DEF Next, ConfigMoves, JobsMoves, MixedMoves, TwinsMoves, SettingsMoves, VpnMoves,
     TreesMoves, DepsMoves, ToolsMoves, SeedsMoves, Unmoved
<1>2. UNCHANGED vars => UNCHANGED boxesVars
  BY DEF vars
<1>3. UNCHANGED boxesVars => UNCHANGED Boxes!containerVars
  BY DEF boxesVars, Boxes!containerVars
<1> QED BY <1>1, <1>2, <1>3 DEF BoxesMoves

\* StartsLeaveItRunning: however the loads, starts, restarts, saved settings and repairs of
\* an app and its sidecar interleave, call by call of the engine, on any workers and in any
\* number of threads, with redeploys of the workspace between them, and whoever loses a
\* container's name to whom: when all have come to their end and nothing was stopped or
\* reverted, both run (start, _discard and update_env of containers.py).
THEOREM StartsLeaveItRunningHolds == Spec => []StartsLeaveItRunning
<1>1. Init => StartsInv
  BY InitStarts DEF Init
<1>2. StartsInv /\ [Next]_vars => StartsInv'
  BY BoxesAlone, StepStarts
<1>3. StartsInv => StartsLeaveItRunning
  BY AllHaveStarted DEF StartsLeaveItRunning
<1> QED BY <1>1, <1>2, <1>3, PTL DEF Spec

-----------------------------------------------------------------------------
(* What the gateway serves.  That it is what stands on disk holds as long as  *)
(* no post is on its way, skipped or lost (StandServed): what a pass has       *)
(* written is flagged until it is posted, and the post of a boot outlives the  *)
(* waiter that the boot ends (Booting).                                        *)

ToolShapes ==
  /\ toolsThere \subseteq {AppA, AppB}
  /\ toolsWants \in [{AppA, AppB} -> Tools!Surfaces]
  /\ toolsPackage \in [{AppA, AppB} -> Tools!Surfaces]
  /\ toolsCopy \in [{AppB} -> Tools!Surfaces]
  /\ toolsLoaded \in [Workers -> SUBSET {AppA, AppB, Gateway}]
  /\ toolsBoot \in [Workers -> {"provisions", "attaches", "up"}]
  /\ toolsPending \in [Workers -> {"unarmed", "no", "yes"}]
  /\ toolsPosts \in [Workers -> [Tools!Posters -> Nat]]

\* Only the worker with the pass gathers reloads.
Gathering == \A w \in Workers : toolsPending[w] # "unarmed" => toolsPass = w

\* The waiter belongs to the boot that provisions, and its gateway is loaded.
Booting ==
  \A w \in Workers :
    /\ toolsPosts[w]["starter"] > 0 => toolsBoot[w] = "provisions" /\ Gateway \in toolsLoaded[w]
    /\ toolsPosts[w]["boot"] > 0 => toolsBoot[w] = "up"

\* Only a checkout can drop the tools of its app.
DropsDeclared == \A a \in {AppA, AppB} : toolsWants[a] = 0 => a = AppB

StandServed ==
  \/ toolsGw # "serves" \/ toolsOwed \/ Tools!Posting
  \/ \E w \in Workers : toolsPending[w] = "yes"
  \/ toolsServed = Tools!Root

ToolsInv == ToolShapes /\ Gathering /\ Booting /\ DropsDeclared /\ StandServed

LEMMA InitTools == ASSUME Tools!Init PROVE ToolsInv
<1> USE DEF Tools!Init
<1>1. ToolShapes
  BY DEF ToolShapes, Tools!Surfaces, Tools!NoPosts
<1>2. Gathering /\ DropsDeclared /\ StandServed
  BY DEF Gathering, DropsDeclared, StandServed
<1>3. Booting
  BY DEF Booting, Tools!NoPosts, Tools!Posters
<1> QED BY <1>1, <1>2, <1>3 DEF ToolsInv

\* Files that no step of the gateway's or of a post's touches.
LEMMA RootKept ==
  ASSUME UNCHANGED <<toolsPackage, toolsCopy>>
  PROVE  Tools!Root' = Tools!Root
BY DEF Tools!Root

\* What is written is what stands on disk, unless it is a copy that the app has dropped.
LEMMA RootWritten ==
  ASSUME ToolShapes, NEW a \in {AppA, AppB}, NEW s \in Tools!Surfaces,
         Tools!Renders(a, s), Tools!Copies(a, s), s = 0, a = AppB
  PROVE  Tools!Root' = Tools!Root
<1>1. /\ toolsPackage' = [toolsPackage EXCEPT ![a] = s]
      /\ toolsCopy' = toolsCopy
  BY DEF Tools!Renders, Tools!Copies, Tools!Touches
<1>2. \A b \in {AppA, AppB} : b \notin {AppB} => toolsPackage'[b] = toolsPackage[b]
  BY <1>1 DEF ToolShapes
<1> QED BY <1>1, <1>2 DEF Tools!Root

\* One worker's post has n attempts left.
PostHas(w, p, n) == toolsPosts' = [toolsPosts EXCEPT ![w][p] = n]

LEMMA OnePost ==
  ASSUME ToolShapes, NEW w \in Workers, NEW p \in Tools!Posters, NEW n \in Nat,
         PostHas(w, p, n)
  PROVE  /\ toolsPosts' \in [Workers -> [Tools!Posters -> Nat]]
         /\ toolsPosts'[w][p] = n
         /\ \A v \in Workers, q \in Tools!Posters :
                v # w \/ q # p => toolsPosts'[v][q] = toolsPosts[v][q]
<1>1. toolsPosts \in [Workers -> [Tools!Posters -> Nat]]
  BY DEF ToolShapes
<1>2. toolsPosts[w] \in [Tools!Posters -> Nat]
  BY <1>1
<1>3. [toolsPosts[w] EXCEPT ![p] = n] \in [Tools!Posters -> Nat]
  BY <1>2
<1>4. toolsPosts' = [toolsPosts EXCEPT ![w] = [toolsPosts[w] EXCEPT ![p] = n]]
  BY DEF PostHas
<1> QED BY <1>1, <1>2, <1>3, <1>4

\* A post that is due is under way, or owed; and every other goes on.
LEMMA PostDue ==
  ASSUME ToolShapes, NEW w \in Workers, NEW p \in Tools!Posters, NEW n \in Nat \ {0},
         Tools!Post(w, p, n)
  PROVE  /\ toolsPosts' \in [Workers -> [Tools!Posters -> Nat]]
         /\ \A v \in Workers, q \in Tools!Posters :
                v # w \/ q # p => toolsPosts'[v][q] = toolsPosts[v][q]
         /\ toolsPosts'[w][p] > 0 => Gateway \in toolsLoaded[w] \/ toolsPosts[w][p] > 0
         /\ toolsOwed' \/ Tools!Posting'
<1>1. CASE Gateway \in toolsLoaded[w]
  <2>1. PostHas(w, p, n)
    BY <1>1 DEF Tools!Post, PostHas
  <2>2. /\ toolsPosts' \in [Workers -> [Tools!Posters -> Nat]]
        /\ toolsPosts'[w][p] = n
        /\ \A v \in Workers, q \in Tools!Posters :
               v # w \/ q # p => toolsPosts'[v][q] = toolsPosts[v][q]
    BY <2>1, OnePost
  <2>3. Tools!Posting'
    BY <2>2 DEF Tools!Posting
  <2> QED BY <1>1, <2>2, <2>3
<1>2. CASE Gateway \notin toolsLoaded[w]
  BY <1>2 DEF Tools!Post, ToolShapes
<1> QED BY <1>1, <1>2

\* So with a reload that is triggered: or it is gathered.
LEMMA TriggerDue ==
  ASSUME ToolShapes, Gathering, NEW w \in Workers, NEW p \in Tools!Posters,
         p # "starter", p # "boot", Tools!Trigger(w, p)
  PROVE  /\ toolsPosts' \in [Workers -> [Tools!Posters -> Nat]]
         /\ toolsPending' \in [Workers -> {"unarmed", "no", "yes"}]
         /\ \A v \in Workers : toolsPending'[v] # "unarmed" => toolsPending[v] # "unarmed"
         /\ \A v \in Workers : /\ toolsPosts'[v]["starter"] = toolsPosts[v]["starter"]
                               /\ toolsPosts'[v]["boot"] = toolsPosts[v]["boot"]
         /\ toolsOwed' \/ Tools!Posting' \/ \E v \in Workers : toolsPending'[v] = "yes"
<1>0. "starter" \in Tools!Posters /\ "boot" \in Tools!Posters
  BY DEF Tools!Posters
<1>1. CASE toolsPending[w] # "unarmed"
  BY <1>1 DEF Tools!Trigger, ToolShapes
<1>2. CASE toolsPending[w] = "unarmed"
  <2>1. Tools!Post(w, p, Tries) /\ toolsPending' = toolsPending
    BY <1>2 DEF Tools!Trigger
  <2>2. /\ toolsPosts' \in [Workers -> [Tools!Posters -> Nat]]
        /\ \A v \in Workers, q \in Tools!Posters :
               v # w \/ q # p => toolsPosts'[v][q] = toolsPosts[v][q]
        /\ toolsOwed' \/ Tools!Posting'
    BY <2>1, PostDue, PostsAssumption
  <2>3. \A v \in Workers : /\ toolsPosts'[v]["starter"] = toolsPosts[v]["starter"]
                           /\ toolsPosts'[v]["boot"] = toolsPosts[v]["boot"]
    BY <1>0, <2>2
  <2> QED BY <2>1, <2>2, <2>3 DEF ToolShapes
<1> QED BY <1>1, <1>2

LEMMA AnsweredKeeps ==
  ASSUME ToolsInv, NEW w \in Workers, NEW p \in Tools!Posters, Tools!Answered(w, p)
  PROVE  ToolsInv'
<1> USE DEF ToolsInv
<1>1. /\ toolsPosts' = [toolsPosts EXCEPT ![w][p] = 0] /\ toolsServed' = Tools!Root
      /\ UNCHANGED <<toolsThere, toolsWants, toolsPackage, toolsCopy, toolsLoaded, toolsBoot,
                     toolsPass, toolsPending, toolsGw>>
  BY DEF Tools!Answered, Tools!files
<1>2. PICK n \in Nat : n = 0
  OBVIOUS
<1>3. PostHas(w, p, n) /\ ToolShapes
  BY <1>1, <1>2 DEF PostHas
<1>4. /\ toolsPosts' \in [Workers -> [Tools!Posters -> Nat]] /\ toolsPosts'[w][p] = n
      /\ \A v \in Workers, q \in Tools!Posters :
             v # w \/ q # p => toolsPosts'[v][q] = toolsPosts[v][q]
  BY <1>3, OnePost
<1>5. ToolShapes'
  BY <1>1, <1>4 DEF ToolShapes
<1>6. Gathering' /\ DropsDeclared'
  BY <1>1 DEF Gathering, DropsDeclared
<1>7. Booting'
  <2>1. \A v \in Workers, q \in Tools!Posters : toolsPosts'[v][q] > 0 => toolsPosts[v][q] > 0
    BY <1>2, <1>4
  <2> QED BY <1>1, <2>1 DEF Booting, Tools!Posters
<1>8. StandServed'
  <2>1. toolsServed' = Tools!Root'
    BY <1>1, RootKept
  <2> QED BY <2>1 DEF StandServed
<1> QED BY <1>5, <1>6, <1>7, <1>8

LEMMA AttemptKeeps ==
  ASSUME ToolsInv, NEW w \in Workers, NEW p \in Tools!Posters, Tools!AttemptFails(w, p)
  PROVE  ToolsInv'
<1> USE DEF ToolsInv
<1>1. /\ toolsPosts[w][p] > 0 /\ toolsPosts[w][p] \in Nat
      /\ toolsPosts' = [toolsPosts EXCEPT ![w][p] = toolsPosts[w][p] - 1]
      /\ UNCHANGED <<toolsThere, toolsWants, toolsPackage, toolsCopy, toolsLoaded, toolsBoot,
                     toolsPass, toolsPending, toolsGw, toolsServed>>
  BY DEF Tools!AttemptFails, Tools!files, ToolShapes
<1>2. PICK n \in Nat : n = toolsPosts[w][p] - 1
  BY <1>1
<1>3. PostHas(w, p, n) /\ ToolShapes
  BY <1>1, <1>2 DEF PostHas
<1>4. /\ toolsPosts' \in [Workers -> [Tools!Posters -> Nat]]
      /\ toolsPosts'[w][p] = n
      /\ \A v \in Workers, q \in Tools!Posters :
             v # w \/ q # p => toolsPosts'[v][q] = toolsPosts[v][q]
  BY <1>3, OnePost
<1>5. ToolShapes'
  BY <1>1, <1>4 DEF ToolShapes
<1>6. Gathering' /\ DropsDeclared'
  BY <1>1 DEF Gathering, DropsDeclared
<1>7. Booting'
  <2>1. \A v \in Workers, q \in Tools!Posters : toolsPosts'[v][q] > 0 => toolsPosts[v][q] > 0
    BY <1>1, <1>2, <1>4
  <2> QED BY <1>1, <2>1 DEF Booting, Tools!Posters
<1>8. StandServed'
  <2>1. CASE toolsPosts[w][p] = 1
    <3>1. toolsOwed'
      BY <2>1 DEF Tools!AttemptFails
    <3> QED BY <3>1 DEF StandServed
  <2>2. CASE toolsPosts[w][p] # 1
    <3>1. toolsPosts'[w][p] > 0
      BY <1>1, <1>2, <1>4, <2>2
    <3> QED BY <3>1 DEF StandServed, Tools!Posting
  <2> QED BY <2>1, <2>2
<1> QED BY <1>5, <1>6, <1>7, <1>8

LEMMA TickKeeps ==
  ASSUME ToolsInv, NEW w \in Workers, Tools!Tick(w) \/ Tools!StarterPosts(w)
  PROVE  ToolsInv'
<1> USE DEF ToolsInv
<1>1. /\ Gateway \in toolsLoaded[w]
      /\ UNCHANGED <<toolsThere, toolsWants, toolsPackage, toolsCopy, toolsLoaded, toolsBoot,
                     toolsPass, toolsPending, toolsGw, toolsServed>>
  BY DEF Tools!Tick, Tools!StarterPosts, Tools!files
<1>2. PICK p \in {"tick", "starter"}, n \in Nat \ {0} :
        /\ Tools!Post(w, p, n)
        /\ p = "starter" => toolsBoot[w] = "provisions"
  BY PostsAssumption DEF Tools!Tick, Tools!StarterPosts
<1>3. p \in Tools!Posters /\ "boot" \in Tools!Posters /\ "starter" \in Tools!Posters
  BY DEF Tools!Posters
<1>4. /\ toolsPosts' \in [Workers -> [Tools!Posters -> Nat]]
      /\ \A v \in Workers, q \in Tools!Posters :
             v # w \/ q # p => toolsPosts'[v][q] = toolsPosts[v][q]
      /\ toolsOwed' \/ Tools!Posting'
  BY <1>2, <1>3, PostDue
<1>5. ToolShapes'
  BY <1>1, <1>4 DEF ToolShapes
<1>6. Gathering' /\ DropsDeclared'
  BY <1>1 DEF Gathering, DropsDeclared
<1>7. Booting'
  BY <1>1, <1>2, <1>3, <1>4 DEF Booting
<1>8. StandServed'
  BY <1>4 DEF StandServed
<1> QED BY <1>5, <1>6, <1>7, <1>8

LEMMA GatewayKeeps ==
  ASSUME ToolsInv, Tools!GatewayUp \/ Tools!GatewayDies PROVE ToolsInv'
<1> USE DEF ToolsInv
<1>1. /\ UNCHANGED <<toolsThere, toolsWants, toolsPackage, toolsCopy, toolsLoaded, toolsBoot,
                     toolsPass, toolsPending, toolsPosts>>
      /\ toolsGw' # "serves" \/ toolsServed' = Tools!Root
  BY DEF Tools!GatewayUp, Tools!GatewayDies, Tools!files, Tools!bounds
<1>2. ToolShapes' /\ Gathering' /\ DropsDeclared'
  BY <1>1 DEF ToolShapes, Gathering, DropsDeclared
<1>3. Booting'
  BY <1>1 DEF Booting
<1>4. StandServed'
  <2>1. toolsGw' # "serves" \/ toolsServed' = Tools!Root'
    BY <1>1, RootKept
  <2> QED BY <2>1 DEF StandServed
<1> QED BY <1>2, <1>3, <1>4

LEMMA BeginsKeeps ==
  ASSUME ToolsInv, NEW w \in Workers, Tools!BeginPass(w) PROVE ToolsInv'
<1> USE DEF ToolsInv
<1>1. /\ toolsPass = None
      /\ toolsPass' = w /\ toolsPending' = [toolsPending EXCEPT ![w] = "no"]
      /\ UNCHANGED <<toolsThere, toolsWants, toolsPackage, toolsCopy, toolsLoaded, toolsBoot,
                     toolsPosts, toolsGw, toolsServed, toolsOwed>>
  BY DEF Tools!BeginPass, Tools!Busy, Tools!files
<1>2. \A v \in Workers : toolsPending[v] = "unarmed"
  BY <1>1, PostsAssumption DEF Gathering
<1>3. /\ toolsPending' \in [Workers -> {"unarmed", "no", "yes"}]
      /\ \A v \in Workers : toolsPending'[v] # "unarmed" => v = w
  BY <1>1, <1>2 DEF ToolShapes
<1>4. ToolShapes' /\ Gathering' /\ DropsDeclared'
  BY <1>1, <1>3 DEF ToolShapes, Gathering, DropsDeclared
<1>5. Booting'
  BY <1>1 DEF Booting
<1>6. StandServed'
  BY <1>1, <1>2, RootKept DEF StandServed, Tools!Posting
<1> QED BY <1>4, <1>5, <1>6

LEMMA LoadsKeeps ==
  ASSUME ToolsInv, NEW w \in Workers, Tools!LoadGateway(w) \/ Tools!Attach(w)
  PROVE  ToolsInv'
<1> USE DEF ToolsInv
<1>1. /\ UNCHANGED <<toolsThere, toolsWants, toolsPackage, toolsCopy, toolsPass, toolsPending,
                     toolsPosts, toolsServed, toolsOwed>>
      /\ toolsGw' # "serves" \/ toolsGw' = toolsGw
  BY DEF Tools!LoadGateway, Tools!Attach, Tools!files, Tools!bounds
<1>2. PICK L : L = toolsLoaded'[w]
  OBVIOUS
<1>3. /\ toolsLoaded' = [toolsLoaded EXCEPT ![w] = L]
      /\ L \subseteq {AppA, AppB, Gateway} /\ Gateway \in L
  <2>1. CASE Tools!LoadGateway(w)
    BY <1>2, <2>1 DEF Tools!LoadGateway, ToolShapes
  <2>2. CASE Tools!Attach(w)
    BY <1>2, <2>2 DEF Tools!Attach, ToolShapes
  <2> QED BY <2>1, <2>2
<1>4. ToolShapes'
  <2>1. toolsLoaded' \in [Workers -> SUBSET {AppA, AppB, Gateway}]
    BY <1>3 DEF ToolShapes
  <2>2. toolsBoot' \in [Workers -> {"provisions", "attaches", "up"}]
    BY DEF Tools!LoadGateway, Tools!Attach, ToolShapes
  <2> QED BY <1>1, <2>1, <2>2 DEF ToolShapes
<1>5. Gathering' /\ DropsDeclared'
  BY <1>1 DEF Gathering, DropsDeclared
<1>6. Booting'
  <2> SUFFICES ASSUME NEW v \in Workers
               PROVE  /\ toolsPosts[v]["starter"] > 0 =>
                            toolsBoot'[v] = "provisions" /\ Gateway \in toolsLoaded'[v]
                      /\ toolsPosts[v]["boot"] > 0 => toolsBoot'[v] = "up"
    BY <1>1 DEF Booting
  <2>1. Gateway \in toolsLoaded[v] => Gateway \in toolsLoaded'[v]
    BY <1>3 DEF ToolShapes
  <2>2. CASE Tools!LoadGateway(w)
    BY <2>1, <2>2 DEF Booting, Tools!LoadGateway
  <2>3. CASE Tools!Attach(w)
    <3>1. /\ toolsBoot[w] # "provisions" /\ toolsBoot'[w] = "up"
          /\ v # w => toolsBoot'[v] = toolsBoot[v]
      BY <2>3 DEF Tools!Attach, ToolShapes
    <3> QED BY <2>1, <3>1 DEF Booting
  <2> QED BY <2>2, <2>3
<1>7. StandServed'
  BY <1>1, RootKept DEF StandServed, Tools!Posting
<1> QED BY <1>4, <1>5, <1>6, <1>7

LEMMA PassInstallsKeeps ==
  ASSUME ToolsInv, NEW w \in Workers, NEW a \in {AppA, AppB}, Tools!PassInstalls(w, a)
  PROVE  ToolsInv'
<1> USE DEF ToolsInv
<1>1. /\ toolsPass = w /\ toolsPending[w] # "unarmed" /\ Gateway \in toolsLoaded[w]
      /\ toolsLoaded' = [toolsLoaded EXCEPT ![w] = @ \cup {a}]
      /\ Tools!Renders(a, toolsWants[a]) /\ Tools!Copies(a, toolsWants[a])
      /\ Tools!TriggerIf(Tools!Touches(toolsWants[a]), w, "pass")
      /\ UNCHANGED <<toolsThere, toolsWants, toolsBoot, toolsPass, toolsGw, toolsServed>>
  BY DEF Tools!PassInstalls
<1>2. PICK s \in Tools!Surfaces : s = toolsWants[a]
  BY DEF ToolShapes
<1>3. /\ toolsPackage' \in [{AppA, AppB} -> Tools!Surfaces]
      /\ toolsCopy' \in [{AppB} -> Tools!Surfaces]
  BY <1>1, <1>2 DEF Tools!Renders, Tools!Copies, ToolShapes
<1>4. /\ toolsLoaded' \in [Workers -> SUBSET {AppA, AppB, Gateway}]
      /\ \A v \in Workers : toolsLoaded[v] \subseteq toolsLoaded'[v]
  BY <1>1 DEF ToolShapes
<1>5. /\ toolsPosts' = toolsPosts
      /\ toolsPending' \in [Workers -> {"unarmed", "no", "yes"}]
      /\ \A v \in Workers : toolsPending'[v] # "unarmed" => toolsPending[v] # "unarmed"
      /\ \/ toolsPending'[w] = "yes"
         \/ s = 0 /\ UNCHANGED <<toolsPending, toolsOwed>>
  BY <1>1, <1>2 DEF Tools!TriggerIf, Tools!Trigger, Tools!Touches, ToolShapes
<1>6. ToolShapes'
  BY <1>1, <1>3, <1>4, <1>5 DEF ToolShapes
<1>7. Gathering' /\ DropsDeclared'
  BY <1>1, <1>5 DEF Gathering, DropsDeclared
<1>8. Booting'
  BY <1>1, <1>4, <1>5 DEF Booting
<1>9. StandServed'
  <2>1. CASE toolsPending'[w] = "yes"
    BY <2>1 DEF StandServed
  <2>2. CASE s = 0 /\ UNCHANGED <<toolsPending, toolsOwed>>
    <3>1. a = AppB
      BY <1>2, <2>2 DEF DropsDeclared
    <3>2. Tools!Renders(a, s) /\ Tools!Copies(a, s)
      BY <1>1, <1>2
    <3>3. Tools!Root' = Tools!Root
      BY <2>2, <3>1, <3>2, RootWritten
    <3> QED BY <1>1, <1>5, <2>2, <3>3 DEF StandServed, Tools!Posting
  <2> QED BY <1>5, <2>1, <2>2
<1> QED BY <1>6, <1>7, <1>8, <1>9

LEMMA FlushKeeps ==
  ASSUME ToolsInv, NEW w \in Workers, Tools!Flush(w) PROVE ToolsInv'
<1> USE DEF ToolsInv
<1>1. /\ toolsPending' = [toolsPending EXCEPT ![w] = "unarmed"]
      /\ IF toolsPending[w] = "yes" THEN Tools!Post(w, "pass", Tries)
         ELSE UNCHANGED <<toolsPosts, toolsOwed>>
      /\ UNCHANGED <<toolsThere, toolsWants, toolsPackage, toolsCopy, toolsLoaded, toolsBoot,
                     toolsPass, toolsGw, toolsServed>>
  BY DEF Tools!Flush, Tools!files
<1>2. "pass" \in Tools!Posters /\ "starter" \in Tools!Posters /\ "boot" \in Tools!Posters
  BY DEF Tools!Posters
<1>3. /\ toolsPosts' \in [Workers -> [Tools!Posters -> Nat]]
      /\ \A v \in Workers : /\ toolsPosts'[v]["starter"] = toolsPosts[v]["starter"]
                            /\ toolsPosts'[v]["boot"] = toolsPosts[v]["boot"]
      /\ \/ toolsOwed' \/ Tools!Posting'
         \/ toolsPending[w] # "yes" /\ UNCHANGED <<toolsPosts, toolsOwed>>
  <2>1. CASE toolsPending[w] = "yes"
    <3>1. Tools!Post(w, "pass", Tries)
      BY <1>1, <2>1
    <3>2. /\ toolsPosts' \in [Workers -> [Tools!Posters -> Nat]]
          /\ \A v \in Workers, q \in Tools!Posters :
                 v # w \/ q # "pass" => toolsPosts'[v][q] = toolsPosts[v][q]
          /\ toolsOwed' \/ Tools!Posting'
      BY <1>2, <3>1, PostDue, PostsAssumption
    <3> QED BY <1>2, <3>2
  <2>2. CASE toolsPending[w] # "yes"
    BY <1>1, <2>2 DEF ToolShapes
  <2> QED BY <2>1, <2>2
<1>4. /\ toolsPending' \in [Workers -> {"unarmed", "no", "yes"}]
      /\ \A v \in Workers : toolsPending'[v] = IF v = w THEN "unarmed" ELSE toolsPending[v]
  BY <1>1 DEF ToolShapes
<1>5. ToolShapes'
  BY <1>1, <1>3, <1>4 DEF ToolShapes
<1>6. Gathering' /\ DropsDeclared'
  BY <1>1, <1>4 DEF Gathering, DropsDeclared
<1>7. Booting'
  BY <1>1, <1>3 DEF Booting
<1>8. StandServed'
  BY <1>1, <1>3, <1>4, RootKept DEF StandServed, Tools!Posting
<1> QED BY <1>5, <1>6, <1>7, <1>8

\* The end of a pass and of its boot: the boot's own post takes over from the waiter's, or
\* is owed, as the gateway is not loaded; what the pass gathered is posted, or owed.
LEMMA PassEndsKeeps ==
  ASSUME ToolsInv, NEW w \in Workers, Tools!EndPass(w) \/ Tools!CutPass(w)
  PROVE  ToolsInv'
<1> USE DEF ToolsInv
<1>1. PICK before :
        /\ before = IF Tools!EndPass(w) THEN toolsPosts[w]
                    ELSE [toolsPosts[w] EXCEPT !["pass"] = 0]
        /\ Tools!Returns(w, before)
  BY DEF Tools!EndPass, Tools!CutPass
<1>2. /\ toolsPass = w /\ toolsPass' = None
      /\ UNCHANGED <<toolsThere, toolsWants, toolsPackage, toolsCopy, toolsLoaded,
                     toolsGw, toolsServed>>
  BY <1>1 DEF Tools!EndPass, Tools!CutPass, Tools!Returns, Tools!files
<1>3. /\ {"pass", "starter", "boot"} \subseteq Tools!Posters
      /\ toolsPosts[w] \in [Tools!Posters -> Nat]
  BY DEF Tools!Posters, ToolShapes
<1>4. /\ before \in [Tools!Posters -> Nat]
      /\ \A q \in Tools!Posters : before[q] = toolsPosts[w][q] \/ (q = "pass" /\ before[q] = 0)
  BY <1>1, <1>3
<1>5. /\ \A v \in Workers : toolsPending'[v] = "unarmed"
      /\ toolsPending' \in [Workers -> {"unarmed", "no", "yes"}]
  BY <1>2 DEF Tools!EndPass, Tools!CutPass, Gathering, ToolShapes
<1>6. /\ toolsOwed => toolsOwed'
      /\ toolsPending[w] = "yes" => toolsOwed'
      /\ before["pass"] # toolsPosts[w]["pass"] => toolsOwed'
  <2>1. CASE Tools!EndPass(w)
    BY <1>1, <2>1 DEF Tools!EndPass, ToolShapes
  <2>2. CASE ~Tools!EndPass(w)
    <3>1. toolsOwed' = (toolsOwed \/ toolsPending[w] = "yes" \/ toolsPosts[w]["pass"] > 0)
      BY <2>2 DEF Tools!CutPass
    <3>2. before["pass"] = 0 /\ toolsPosts[w]["pass"] \in Nat
      BY <1>1, <1>3, <2>2
    <3>3. before["pass"] # toolsPosts[w]["pass"] => toolsPosts[w]["pass"] > 0
      BY <3>2
    <3> QED BY <3>1, <3>3
  <2> QED BY <2>1, <2>2
<1>7. PICK after : after = toolsPosts'[w]
  OBVIOUS
<1>8. /\ toolsPosts' = [toolsPosts EXCEPT ![w] = after]
      /\ after \in [Tools!Posters -> Nat]
      /\ toolsBoot[w] # "provisions" => after = before /\ toolsBoot' = toolsBoot
      /\ toolsBoot[w] = "provisions" =>
           /\ toolsBoot' = [toolsBoot EXCEPT ![w] = "up"]
           /\ after["starter"] = 0
           /\ after["boot"] > 0 \/ Gateway \notin toolsLoaded[w]
           /\ \A q \in Tools!Posters : q # "starter" /\ q # "boot" => after[q] = before[q]
  <2>1. CASE toolsBoot[w] = "provisions"
    <3>1. PICK n \in Nat : n = IF Gateway \in toolsLoaded[w] THEN BootTries ELSE 0
      BY PostsAssumption
    <3>2. PICK r : r = [before EXCEPT !["starter"] = 0, !["boot"] = n]
      OBVIOUS
    <3>3. /\ r \in [Tools!Posters -> Nat] /\ r["starter"] = 0 /\ r["boot"] = n
          /\ \A q \in Tools!Posters : q # "starter" /\ q # "boot" => r[q] = before[q]
      BY <1>3, <1>4, <3>2
    <3>4. /\ toolsPosts' = [toolsPosts EXCEPT ![w] = r]
          /\ toolsBoot' = [toolsBoot EXCEPT ![w] = "up"]
      BY <1>1, <2>1, <3>1, <3>2 DEF Tools!Returns
    <3>5. after = r
      BY <1>7, <3>4 DEF ToolShapes
    <3> QED BY <2>1, <3>1, <3>3, <3>4, <3>5, PostsAssumption
  <2>2. CASE toolsBoot[w] # "provisions"
    <3>1. toolsPosts' = [toolsPosts EXCEPT ![w] = before] /\ toolsBoot' = toolsBoot
      BY <1>1, <2>2 DEF Tools!Returns
    <3>2. after = before
      BY <1>7, <3>1 DEF ToolShapes
    <3> QED BY <1>4, <2>2, <3>1, <3>2
  <2> QED BY <2>1, <2>2
<1>9. ToolShapes'
  BY <1>2, <1>5, <1>8 DEF ToolShapes
<1>10. Gathering' /\ DropsDeclared'
  BY <1>2, <1>5 DEF Gathering, DropsDeclared
<1>11. \A v \in Workers : v # w => toolsPosts'[v] = toolsPosts[v] /\ toolsBoot'[v] = toolsBoot[v]
  BY <1>8 DEF ToolShapes
<1>12. Booting'
  <2>1. CASE toolsBoot[w] = "provisions"
    <3>1. toolsBoot'[w] = "up" /\ toolsPosts'[w]["starter"] = 0
      BY <1>7, <1>8, <2>1 DEF ToolShapes
    <3> QED BY <1>2, <1>11, <3>1 DEF Booting
  <2>2. CASE toolsBoot[w] # "provisions"
    <3>1. /\ toolsBoot'[w] = toolsBoot[w]
          /\ toolsPosts'[w]["starter"] = toolsPosts[w]["starter"]
          /\ toolsPosts'[w]["boot"] = toolsPosts[w]["boot"]
      BY <1>3, <1>4, <1>7, <1>8, <2>2
    <3> QED BY <1>2, <1>11, <3>1 DEF Booting
  <2> QED BY <2>1, <2>2
<1>13. StandServed'
  <2>1. ASSUME ~toolsOwed', Tools!Posting PROVE Tools!Posting'
    <3>1. PICK v \in Workers, q \in Tools!Posters : toolsPosts[v][q] > 0
      BY <2>1 DEF Tools!Posting
    <3>2. CASE v # w
      BY <1>11, <3>1, <3>2 DEF Tools!Posting
    <3>3. CASE v = w /\ (toolsBoot[w] # "provisions" \/ (q # "starter" /\ q # "boot"))
      <4>1. before[q] = toolsPosts[w][q]
        BY <1>4, <1>6, <2>1, <3>3
      <4>2. toolsPosts'[w][q] = before[q]
        BY <1>7, <1>8, <3>3
      <4> QED BY <3>1, <3>3, <4>1, <4>2 DEF Tools!Posting
    <3>4. CASE v = w /\ toolsBoot[w] = "provisions" /\ (q = "starter" \/ q = "boot")
      <4>1. Gateway \in toolsLoaded[w]
        BY <3>1, <3>4 DEF Booting
      <4>2. toolsPosts'[w]["boot"] > 0
        BY <1>7, <1>8, <3>4, <4>1
      <4> QED BY <1>3, <4>2 DEF Tools!Posting
    <3> QED BY <3>2, <3>3, <3>4
  <2>2. CASE \E v \in Workers : toolsPending[v] = "yes"
    <3>1. toolsPending[w] = "yes"
      BY <1>2, <2>2 DEF Gathering
    <3> QED BY <1>6, <3>1 DEF StandServed
  <2> QED BY <1>2, <1>6, <2>1, <2>2, RootKept DEF StandServed
<1> QED BY <1>9, <1>10, <1>12, <1>13

\* Requests.
LEMMA InstallKeeps ==
  ASSUME ToolsInv, NEW w \in Workers, NEW a \in {AppA, AppB}, Tools!Install(w, a)
  PROVE  ToolsInv'
<1> USE DEF ToolsInv
<1>1. /\ toolsThere' = toolsThere \cup {a}
      /\ toolsLoaded' = [toolsLoaded EXCEPT ![w] = @ \cup {a}]
      /\ Tools!Renders(a, toolsWants[a]) /\ Tools!Copies(a, toolsWants[a])
      /\ Tools!TriggerIf(Tools!Touches(toolsWants[a]), w, "request")
      /\ UNCHANGED <<toolsWants, toolsBoot, toolsPass, toolsGw, toolsServed>>
  BY DEF Tools!Install
<1>2. PICK s \in Tools!Surfaces : s = toolsWants[a]
  BY DEF ToolShapes
<1>3. /\ toolsPackage' \in [{AppA, AppB} -> Tools!Surfaces]
      /\ toolsCopy' \in [{AppB} -> Tools!Surfaces]
  BY <1>1, <1>2 DEF Tools!Renders, Tools!Copies, ToolShapes
<1>4. /\ toolsLoaded' \in [Workers -> SUBSET {AppA, AppB, Gateway}]
      /\ \A v \in Workers : toolsLoaded[v] \subseteq toolsLoaded'[v]
  BY <1>1 DEF ToolShapes
<1>5. /\ toolsPosts' \in [Workers -> [Tools!Posters -> Nat]]
      /\ toolsPending' \in [Workers -> {"unarmed", "no", "yes"}]
      /\ \A v \in Workers : toolsPending'[v] # "unarmed" => toolsPending[v] # "unarmed"
      /\ \A v \in Workers : /\ toolsPosts'[v]["starter"] = toolsPosts[v]["starter"]
                            /\ toolsPosts'[v]["boot"] = toolsPosts[v]["boot"]
      /\ \/ toolsOwed' \/ Tools!Posting' \/ \E v \in Workers : toolsPending'[v] = "yes"
         \/ s = 0 /\ UNCHANGED <<toolsPosts, toolsPending, toolsOwed>>
  <2>1. CASE s = 0
    BY <1>1, <1>2, <2>1 DEF Tools!TriggerIf, Tools!Touches, ToolShapes
  <2>2. CASE s # 0
    <3>1. Tools!Trigger(w, "request") /\ "request" \in Tools!Posters
      BY <1>1, <1>2, <2>2 DEF Tools!TriggerIf, Tools!Touches, Tools!Posters
    <3> QED BY <3>1, TriggerDue
  <2> QED BY <2>1, <2>2
<1>6. ToolShapes'
  BY <1>1, <1>3, <1>4, <1>5 DEF ToolShapes
<1>7. Gathering' /\ DropsDeclared'
  BY <1>1, <1>5 DEF Gathering, DropsDeclared
<1>8. Booting'
  BY <1>1, <1>4, <1>5 DEF Booting
<1>9. StandServed'
  <2>1. CASE s = 0 /\ UNCHANGED <<toolsPosts, toolsPending, toolsOwed>>
    <3>1. a = AppB
      BY <1>2, <2>1 DEF DropsDeclared
    <3>2. Tools!Renders(a, s) /\ Tools!Copies(a, s)
      BY <1>1, <1>2
    <3>3. Tools!Root' = Tools!Root
      BY <2>1, <3>1, <3>2, RootWritten
    <3> QED BY <1>1, <2>1, <3>3 DEF StandServed, Tools!Posting
  <2>2. CASE ~(s = 0 /\ UNCHANGED <<toolsPosts, toolsPending, toolsOwed>>)
    BY <1>5, <2>2 DEF StandServed
  <2> QED BY <2>1, <2>2
<1> QED BY <1>6, <1>7, <1>8, <1>9

LEMMA UninstallKeeps ==
  ASSUME ToolsInv, NEW w \in Workers, NEW a \in {AppA, AppB}, Tools!Uninstall(w, a)
  PROVE  ToolsInv'
<1> USE DEF ToolsInv
<1>1. /\ toolsBoot[w] = "up"
      /\ toolsThere' = toolsThere \ {a}
      /\ toolsLoaded' = [toolsLoaded EXCEPT ![w] = @ \ {a}]
      /\ IF a = AppB
         THEN toolsCopy' = [toolsCopy EXCEPT ![a] = 0] /\ UNCHANGED toolsPackage
         ELSE Tools!Renders(a, 0) /\ UNCHANGED toolsCopy
      /\ IF Tools!Touches(toolsPackage[a]) THEN Tools!Trigger(w, "request")
         ELSE /\ toolsOwed' = (toolsOwed \/ Tools!Touches(Tools!Root[a]))
              /\ UNCHANGED <<toolsPending, toolsPosts>>
      /\ UNCHANGED <<toolsWants, toolsBoot, toolsPass, toolsGw, toolsServed>>
  BY DEF Tools!Uninstall
<1>2. /\ toolsPackage' \in [{AppA, AppB} -> Tools!Surfaces]
      /\ toolsCopy' \in [{AppB} -> Tools!Surfaces]
  BY <1>1 DEF Tools!Renders, ToolShapes, Tools!Surfaces
<1>3. /\ toolsLoaded' \in [Workers -> SUBSET {AppA, AppB, Gateway}]
      /\ \A v \in Workers : v # w => toolsLoaded'[v] = toolsLoaded[v]
  BY <1>1 DEF ToolShapes
<1>4. /\ toolsPosts' \in [Workers -> [Tools!Posters -> Nat]]
      /\ toolsPending' \in [Workers -> {"unarmed", "no", "yes"}]
      /\ \A v \in Workers : toolsPending'[v] # "unarmed" => toolsPending[v] # "unarmed"
      /\ \A v \in Workers : /\ toolsPosts'[v]["starter"] = toolsPosts[v]["starter"]
                            /\ toolsPosts'[v]["boot"] = toolsPosts[v]["boot"]
      /\ \/ toolsOwed' \/ Tools!Posting' \/ \E v \in Workers : toolsPending'[v] = "yes"
         \/ toolsPackage[a] = 0
  <2>1. CASE Tools!Touches(toolsPackage[a])
    <3>1. Tools!Trigger(w, "request") /\ "request" \in Tools!Posters
      BY <1>1, <2>1 DEF Tools!Posters
    <3> QED BY <3>1, TriggerDue
  <2>2. CASE ~Tools!Touches(toolsPackage[a])
    BY <1>1, <2>2 DEF Tools!Touches, ToolShapes
  <2> QED BY <2>1, <2>2
<1>5. ToolShapes'
  BY <1>1, <1>2, <1>3, <1>4 DEF ToolShapes
<1>6. Gathering' /\ DropsDeclared'
  BY <1>1, <1>4 DEF Gathering, DropsDeclared
<1>7. Booting'
  BY <1>1, <1>3, <1>4 DEF Booting
\* With no file in the package, there was a copy, which is owed, or nothing.
<1>8. CASE toolsPackage[a] = 0
  <2>1. /\ toolsOwed' = (toolsOwed \/ Tools!Touches(Tools!Root[a]))
        /\ UNCHANGED <<toolsPending, toolsPosts>>
    BY <1>1, <1>8 DEF Tools!Touches
  <2>2. CASE Tools!Touches(Tools!Root[a])
    <3>1. toolsOwed'
      BY <2>1, <2>2
    <3> QED BY <1>5, <1>6, <1>7, <3>1 DEF StandServed
  <2>3. CASE ~Tools!Touches(Tools!Root[a])
    <3>1. Tools!Root[a] = 0
      BY <2>3 DEF Tools!Touches
    <3>2. Tools!Root' = Tools!Root
      <4>1. CASE a = AppB
        <5>1. toolsCopy[AppB] = 0
          BY <3>1, <4>1 DEF Tools!Root
        <5>2. toolsCopy' = toolsCopy
          BY <1>1, <4>1, <5>1 DEF ToolShapes
        <5> QED BY <1>1, <4>1, <5>2, RootKept
      <4>2. CASE a # AppB
        <5>1. toolsPackage' = toolsPackage
          BY <1>1, <1>8, <4>2 DEF Tools!Renders, ToolShapes
        <5> QED BY <1>1, <4>2, <5>1, RootKept
      <4> QED BY <4>1, <4>2
    <3>3. toolsOwed => toolsOwed'
      BY <2>1
    <3>4. StandServed'
      BY <1>1, <2>1, <3>2, <3>3 DEF StandServed, Tools!Posting
    <3> QED BY <1>5, <1>6, <1>7, <3>4
  <2> QED BY <2>2, <2>3
<1>9. CASE toolsPackage[a] # 0
  <2>1. StandServed'
    BY <1>4, <1>9 DEF StandServed
  <2> QED BY <1>5, <1>6, <1>7, <2>1
<1> QED BY <1>8, <1>9

LEMMA ToolSaveKeeps ==
  ASSUME ToolsInv, NEW w \in Workers, NEW a \in {AppA, AppB}, NEW s \in Tools!Surfaces,
         Tools!Save(w, a, s)
  PROVE  ToolsInv'
<1> USE DEF ToolsInv
<1>1. /\ s # 0
      /\ toolsWants' = [toolsWants EXCEPT ![a] = s]
      /\ toolsPackage' = [toolsPackage EXCEPT ![a] = s]
      /\ Tools!Trigger(w, "save") /\ "save" \in Tools!Posters
      /\ UNCHANGED <<toolsThere, toolsCopy, toolsLoaded, toolsBoot, toolsPass>>
  BY DEF Tools!Save, Tools!Renders, Tools!Posters
<1>2. /\ toolsPosts' \in [Workers -> [Tools!Posters -> Nat]]
      /\ toolsPending' \in [Workers -> {"unarmed", "no", "yes"}]
      /\ \A v \in Workers : toolsPending'[v] # "unarmed" => toolsPending[v] # "unarmed"
      /\ \A v \in Workers : /\ toolsPosts'[v]["starter"] = toolsPosts[v]["starter"]
                            /\ toolsPosts'[v]["boot"] = toolsPosts[v]["boot"]
      /\ toolsOwed' \/ Tools!Posting' \/ \E v \in Workers : toolsPending'[v] = "yes"
  BY <1>1, TriggerDue
<1>3. ToolShapes'
  BY <1>1, <1>2 DEF ToolShapes
<1>4. Gathering' /\ DropsDeclared'
  BY <1>1, <1>2 DEF Gathering, DropsDeclared, ToolShapes
<1>5. Booting'
  BY <1>1, <1>2 DEF Booting
<1>6. StandServed'
  BY <1>2 DEF StandServed
<1> QED BY <1>3, <1>4, <1>5, <1>6

LEMMA EditKeeps ==
  ASSUME ToolsInv, NEW a \in {AppA, AppB}, Tools!Edit(a) PROVE ToolsInv'
<1> USE DEF ToolsInv
<1>1. /\ a = AppB /\ toolsWants' = [toolsWants EXCEPT ![a] = 0]
      /\ UNCHANGED <<toolsThere, toolsPackage, toolsCopy, toolsLoaded, toolsBoot, toolsPass,
                     toolsPending, toolsPosts, toolsGw, toolsServed, toolsOwed>>
  BY DEF Tools!Edit
<1>2. ToolShapes' /\ Gathering' /\ DropsDeclared'
  BY <1>1 DEF ToolShapes, Gathering, DropsDeclared, Tools!Surfaces
<1>3. Booting'
  BY <1>1 DEF Booting
<1>4. StandServed'
  BY <1>1, RootKept DEF StandServed, Tools!Posting
<1> QED BY <1>2, <1>3, <1>4

LEMMA RestartKeeps == ASSUME ToolsInv, Tools!Restart PROVE ToolsInv'
<1> USE DEF ToolsInv
<1>1. /\ toolsLoaded' = [w \in Workers |-> {}]
      /\ toolsBoot' \in [Workers -> {"provisions", "attaches"}]
      /\ toolsPending' = [w \in Workers |-> "unarmed"]
      /\ toolsPosts' = [w \in Workers |-> Tools!NoPosts]
      /\ toolsOwed' = TRUE
      /\ UNCHANGED <<toolsThere, toolsWants, toolsPackage, toolsCopy>>
  BY DEF Tools!Restart, Tools!files
<1>2. ToolShapes'
  BY <1>1 DEF ToolShapes, Tools!NoPosts
<1>3. Gathering' /\ DropsDeclared' /\ StandServed'
  BY <1>1 DEF Gathering, DropsDeclared, StandServed
<1>4. Booting'
  BY <1>1 DEF Booting, Tools!NoPosts, Tools!Posters
<1> QED BY <1>2, <1>3, <1>4

LEMMA ToolsStutter == ASSUME ToolsInv, UNCHANGED Tools!gatewayVars PROVE ToolsInv'
<1>1. UNCHANGED <<toolsThere, toolsWants, toolsPackage, toolsCopy, toolsLoaded, toolsBoot,
                  toolsPass, toolsPending, toolsPosts, toolsGw, toolsServed, toolsOwed>>
  BY DEF Tools!gatewayVars
<1>2. StandServed'
  BY <1>1, RootKept DEF ToolsInv, StandServed, Tools!Posting
<1> QED BY <1>1, <1>2 DEF ToolsInv, ToolShapes, Gathering, Booting, DropsDeclared

LEMMA StepTools == ASSUME ToolsInv, [Tools!Next]_(Tools!gatewayVars) PROVE ToolsInv'
<1>1. CASE UNCHANGED Tools!gatewayVars \/ Tools!Rests
  <2>1. UNCHANGED Tools!gatewayVars
    BY <1>1 DEF Tools!Rests
  <2> QED BY <2>1, ToolsStutter
<1>2. ASSUME NEW w \in Workers,
             \/ Tools!BeginPass(w) \/ Tools!LoadGateway(w) \/ Tools!StarterPosts(w)
             \/ Tools!Tick(w) \/ Tools!Flush(w) \/ Tools!EndPass(w) \/ Tools!CutPass(w)
             \/ Tools!Attach(w)
      PROVE  ToolsInv'
  BY <1>2, BeginsKeeps, LoadsKeeps, TickKeeps, FlushKeeps, PassEndsKeeps
<1>3. ASSUME NEW w \in Workers, NEW p \in Tools!Posters,
             Tools!Answered(w, p) \/ Tools!AttemptFails(w, p)
      PROVE  ToolsInv'
  BY <1>3, AnsweredKeeps, AttemptKeeps
<1>4. ASSUME NEW w \in Workers, NEW a \in {AppA, AppB},
             \/ Tools!PassInstalls(w, a) \/ Tools!Install(w, a) \/ Tools!Uninstall(w, a)
             \/ \E s \in Tools!Surfaces : Tools!Save(w, a, s)
      PROVE  ToolsInv'
  BY <1>4, PassInstallsKeeps, InstallKeeps, UninstallKeeps, ToolSaveKeeps
<1>5. CASE \E a \in {AppA, AppB} : Tools!Edit(a)
  BY <1>5, EditKeeps
<1>6. CASE Tools!GatewayUp \/ Tools!GatewayDies \/ Tools!Restart
  BY <1>6, GatewayKeeps, RestartKeeps
<1> QED BY <1>1, <1>2, <1>3, <1>4, <1>5, <1>6 DEF Tools!Next

LEMMA ToolsServed == ToolsInv => Tools!ServedWhenQuiet
<1> SUFFICES ASSUME ToolsInv, toolsPass = None PROVE \A w \in Workers : toolsPending[w] # "yes"
  BY DEF Tools!ServedWhenQuiet, ToolsInv, StandServed
<1> QED BY PostsAssumption DEF ToolsInv, Gathering

\* Only the gateway's moves change its variables.
LEMMA ToolsAlone == [Next]_vars => [Tools!Next]_(Tools!gatewayVars)
<1>1. Next => ToolsMoves \/ UNCHANGED toolsVars
  BY SMT DEF Next, ConfigMoves, JobsMoves, MixedMoves, TwinsMoves, BoxesMoves, VpnMoves,
     SettingsMoves, TreesMoves, DepsMoves, SeedsMoves, Unmoved
<1>2. UNCHANGED vars => UNCHANGED toolsVars
  BY DEF vars
<1>3. UNCHANGED toolsVars => UNCHANGED Tools!gatewayVars
  BY DEF toolsVars, Tools!gatewayVars
<1> QED BY <1>1, <1>2, <1>3 DEF ToolsMoves

\* For every number of attempts of a post and of a boot, and any faults: a gateway that is
\* up serves what stands on disk when no pass and no post is under way and none is owed.
THEOREM GatewayServesHolds == Spec => []GatewayServes
<1>1. Init => ToolsInv
  BY InitTools DEF Init
<1>2. ToolsInv /\ [Next]_vars => ToolsInv'
  BY ToolsAlone, StepTools
<1>3. ToolsInv => GatewayServes
  BY ToolsServed DEF GatewayServes
<1> QED BY <1>1, <1>2, <1>3, PTL DEF Spec

=============================================================================

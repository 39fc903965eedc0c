------------------------ MODULE BootReconcileProofs ------------------------
(***************************************************************************)
(* Proofs about BootReconcile, for any number of workers, boots, crashes   *)
(* and faults.  BootInv is the inductive invariant: TypeOK, the agreement  *)
(* between the lock and the phases that hold it, and the ledger that says  *)
(* where every pass begun in this boot went.                               *)
(***************************************************************************)
EXTENDS BootReconcile, TLAPS

\* The lock file's holder is exactly the process that has its fd open.
LockMatchesPhase == \A w \in Workers : pc[w] \in Holding <=> lock = w

\* While a pass runs, this boot has no marker yet.
NoMarkerDuringPass == \A w \in Workers : pc[w] \in InPass => boot \notin markers

\* Markers are of this boot or an earlier one: boot ids are never reused.
NoFutureMarker == \A b \in markers : b <= boot

\* Every pass begun in this boot is recorded, unrecorded or still running.
PassLedger ==
  begun = unrecorded + (IF boot \in markers THEN 1 ELSE 0)
                     + (IF ActiveWorker # NoWorker THEN 1 ELSE 0)

BootInv ==
  /\ TypeOK
  /\ LockMatchesPhase
  /\ NoMarkerDuringPass
  /\ NoFutureMarker
  /\ PassLedger
  /\ AttachOnlyBehindAPass

LEMMA InitBootInv == Init => BootInv
  BY BootAssumption
  DEF Init, BootInv, TypeOK, Boots, Phases, LockMatchesPhase, Holding,
      NoMarkerDuringPass, InPass, NoFutureMarker, PassLedger, ActiveWorker,
      AttachOnlyBehindAPass

\* Every step of the program keeps the invariant, one case per action.
LEMMA NextBootInv == BootInv /\ [Next]_bootVars => BootInv'
<1> SUFFICES ASSUME BootInv, [Next]_bootVars
             PROVE  BootInv'
    OBVIOUS
<1> USE BootAssumption
    DEF BootInv, TypeOK, Boots, Phases, LockMatchesPhase, Holding,
        NoMarkerDuringPass, InPass, NoFutureMarker, PassLedger, ActiveWorker,
        AttachOnlyBehindAPass, Goto
<1>1. ASSUME NEW w \in Workers, Look(w)
       PROVE  BootInv'
    BY <1>1 DEF Look
<1>2. ASSUME NEW w \in Workers, Acquire(w)
       PROVE  BootInv'
    BY <1>2 DEF Acquire
<1>3. ASSUME NEW w \in Workers, Busy(w)
       PROVE  BootInv'
    BY <1>3 DEF Busy
<1>4. ASSUME NEW w \in Workers, Recheck(w)
       PROVE  BootInv'
    BY <1>4 DEF Recheck
<1>5. ASSUME NEW w \in Workers, PassEnds(w)
       PROVE  BootInv'
    BY <1>5 DEF PassEnds
<1>6. ASSUME NEW w \in Workers, WriteMarker(w)
       PROVE  BootInv'
    BY <1>6 DEF WriteMarker
<1>7. ASSUME NEW w \in Workers, Sweep(w)
       PROVE  BootInv'
    BY <1>7 DEF Sweep
<1>8. ASSUME NEW w \in Workers, Free(w)
       PROVE  BootInv'
    BY <1>8 DEF Free
<1>9. ASSUME NEW w \in Workers, Settle(w)
       PROVE  BootInv'
    BY <1>9 DEF Settle
<1>10. ASSUME NEW w \in Workers, LockDirFails(w)
       PROVE  BootInv'
    BY <1>10 DEF LockDirFails
<1>11. ASSUME NEW w \in Workers, MarkerLost(w)
       PROVE  BootInv'
    BY <1>11 DEF MarkerLost
<1>12. ASSUME NEW w \in Workers, Crash(w)
       PROVE  BootInv'
    BY <1>12 DEF Crash
<1>13. ASSUME NEW w \in Workers, Respawn(w)
       PROVE  BootInv'
    BY <1>13 DEF Respawn
<1>14. CASE NewBoot
    BY <1>14 DEF NewBoot
<1>15. CASE UNCHANGED bootVars
    BY <1>15 DEF bootVars
<1>16. QED
    BY <1>1, <1>2, <1>3, <1>4, <1>5, <1>6, <1>7, <1>8, <1>9, <1>10, <1>11, <1>12, <1>13, <1>14, <1>15 DEF Next, Step

-----------------------------------------------------------------------------
(* Safety theorems *)

\* The inductive invariant holds in every reachable state of the boot protocol.
THEOREM BootInvariant == Spec => []BootInv
<1>1. Init => BootInv
    BY InitBootInv
<1>2. BootInv /\ [Next]_bootVars => BootInv'
    BY NextBootInv
<1>3. QED
    BY <1>1, <1>2, PTL DEF Spec

\* Type correctness of BootReconcile.
THEOREM TypeCorrect == Spec => []TypeOK
<1>1. BootInv => TypeOK
    BY DEF BootInv
<1>2. QED
    BY <1>1, BootInvariant, PTL

\* coordinate()/finish(): two coordinated passes never overlap, however many
\* workers start, die and are respawned.
THEOREM PassesExclusive == Spec => []PassesNeverOverlap
<1>1. BootInv => PassesNeverOverlap
    BY DEF BootInv, LockMatchesPhase, PassesNeverOverlap
<1>2. QED
    BY <1>1, BootInvariant, PTL

\* One coordinated pass per boot beyond those that died or went unrecorded: the
\* promise of the done marker and of the re-check under the lock.
THEOREM OnePass == Spec => []OnePassPerBoot
<1>1. BootInv => OnePassPerBoot
  <2> SUFFICES ASSUME BootInv
               PROVE  OnePassPerBoot
      OBVIOUS
  <2>1. begun \in Nat /\ unrecorded \in Nat
      BY DEF BootInv, TypeOK
  <2>2. ActiveWorker # NoWorker => boot \notin markers
      BY DEF BootInv, TypeOK, NoMarkerDuringPass, ActiveWorker
  <2>3. QED
      BY <2>1, <2>2 DEF BootInv, PassLedger, OnePassPerBoot
<1>2. QED
    BY <1>1, BootInvariant, PTL

\* A follower attaches only in a boot whose pass is on record.
THEOREM AttachSafe == Spec => []AttachOnlyBehindAPass
<1>1. BootInv => AttachOnlyBehindAPass
    BY DEF BootInv
<1>2. QED
    BY <1>1, BootInvariant, PTL

-----------------------------------------------------------------------------
(* Refinement: the file protocol implements BootLeadership *)

\* The files of a fresh boot stand for an idle, unfinished boot.
LEMMA InitLeadership == Init => Leadership!Init
  BY BootAssumption DEF Init, Leadership!Init, ActiveWorker

\* Each step of the protocol is a step of the abstract leadership or invisible:
\* Recheck begins, WriteMarker completes, MarkerLost and the leader's death
\* abandon, NewBoot opens the next boot.
LEMMA StepLeadership ==
  BootInv /\ BootInv' /\ [Next]_bootVars => [Leadership!Next]_<<boot, ActiveWorker, boot \in markers>>
<1> SUFFICES ASSUME BootInv, BootInv', [Next]_bootVars
             PROVE  [Leadership!Next]_<<boot, ActiveWorker, boot \in markers>>
    OBVIOUS
<1> USE BootAssumption
    DEF BootInv, TypeOK, LockMatchesPhase, Holding, NoMarkerDuringPass, InPass,
        ActiveWorker, Goto
<1>1. ASSUME NEW w \in Workers,
             Look(w) \/ Acquire(w) \/ Busy(w) \/ PassEnds(w) \/ Sweep(w)
               \/ Free(w) \/ Settle(w) \/ LockDirFails(w) \/ Respawn(w)
      PROVE  UNCHANGED <<boot, ActiveWorker, boot \in markers>>
    BY <1>1 DEF Look, Acquire, Busy, PassEnds, Sweep, Free, Settle, LockDirFails,
                Respawn, Phases
<1>2. ASSUME NEW w \in Workers, Recheck(w)
      PROVE  Leadership!Begin(w) \/ UNCHANGED <<boot, ActiveWorker, boot \in markers>>
    BY <1>2 DEF Recheck, Leadership!Begin
<1>3. ASSUME NEW w \in Workers, WriteMarker(w)
      PROVE  Leadership!Complete
    BY <1>3 DEF WriteMarker, Leadership!Complete
<1>4. ASSUME NEW w \in Workers, MarkerLost(w)
      PROVE  Leadership!Abandon
    BY <1>4 DEF MarkerLost, Leadership!Abandon
<1>5. ASSUME NEW w \in Workers, Crash(w)
      PROVE  Leadership!Abandon \/ UNCHANGED <<boot, ActiveWorker, boot \in markers>>
    BY <1>5 DEF Crash, Leadership!Abandon
<1>6. ASSUME NewBoot
      PROVE  Leadership!NewBoot
  <2>1. (boot \in markers)' = FALSE
      BY <1>6 DEF NewBoot, NoFutureMarker, Boots
  <2>2. ActiveWorker' = NoWorker
      BY <1>6 DEF NewBoot
  <2>3. QED
      BY <1>6, <2>1, <2>2 DEF NewBoot, Leadership!NewBoot
<1>7. CASE UNCHANGED bootVars
    BY <1>7 DEF bootVars
<1>8. QED
    BY <1>1, <1>2, <1>3, <1>4, <1>5, <1>6, <1>7 DEF Next, Step, Leadership!Next

\* The lock file and the done marker together implement the abstract leadership.
THEOREM ImplementsBootLeadership == Spec => ImplementsLeadership
<1>1. Init => Leadership!Init
    BY InitLeadership
<1>2. BootInv /\ BootInv' /\ [Next]_bootVars
        => [Leadership!Next]_<<boot, ActiveWorker, boot \in markers>>
    BY StepLeadership
<1>3. QED
    BY <1>1, <1>2, BootInvariant, PTL
    DEF Spec, ImplementsLeadership, Leadership!Spec, Leadership!leadershipVars
=============================================================================

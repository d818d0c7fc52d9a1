---------------------- MODULE FilterPublicationProofs ----------------------
(***************************************************************************)
(* Proofs about FilterPublication, for any finite set of worker slots and  *)
(* any bounds.  The inductive invariant has five parts:                    *)
(*                                                                         *)
(*  SlotInv       what C and a worker know of the worker's own epoch       *)
(*  RecordInv     how the two records' owners relate to the active slot    *)
(*  HolderInv     whoever still owns a retired snapshot is an unfinished   *)
(*                member of that record's cohort                           *)
(*  ScanInv       whom B has already passed no longer owns the snapshot    *)
(*  PublisherInv  what A may conclude from where it stands                 *)
(***************************************************************************)
EXTENDS FilterPublication, TLAPS

SlotOK(w) ==
    /\ local_snapshot[w] # 0 <=> stage[w] \in Instantiated \cup {"registering"}
    /\ stage[w] \in Instantiated =>
          /\ registry[w]
          /\ registration_state[w] # "Unregistered"
          /\ observed_generation[w] <= local_snapshot[w]
    /\ stage[w] \in {"registering", "swapping"} => local_snapshot[w] = active_snapshot
    /\ stage[w] = "registering" =>
          /\ published_instance_id[w] < instance_id[w]
          /\ registration_state[w] = "Starting" /\ observed_generation[w] = 0
    /\ stage[w] \in {"offline", "registering", "quiesced"} => ~ registry[w]
    /\ registry[w] =>
          /\ published_instance_id[w] = instance_id[w]
          /\ quiesced_through_instance_id[w] < published_instance_id[w]
    /\ ~ registry[w] => quiesced_through_instance_id[w] = published_instance_id[w]
    /\ published_instance_id[w] <= instance_id[w]

SlotInv == \A w \in Workers : SlotOK(w)

RecordInv ==
    /\ current_generation >= 1
    /\ active_snapshot \in {0, current_generation}
    /\ active_snapshot = 0 => publication_sealed
    /\ retired.pending => retired.generation = current_generation
    /\ ~ retired.pending => retired = ClearedRecord
    /\ retired.owner = IF retired.pending /\ ~ retired.destroying
                       THEN current_generation - 1 ELSE 0
    /\ retired.pending => current_generation > 1
    /\ terminal.pending => active_snapshot = 0
    /\ ~ terminal.pending => terminal = ClearedRecord
    /\ terminal.owner = IF terminal.pending /\ ~ terminal.destroying
                        THEN current_generation ELSE 0
    /\ retired.destroying => reclaimer = "destroying" /\ ~ scan_terminal
    /\ terminal.destroying => reclaimer = "destroying" /\ scan_terminal

HolderOK(w) ==
    local_snapshot[w] # 0 =>
        /\ local_snapshot[w] \in {active_snapshot, retired.owner, terminal.owner}
        /\ local_snapshot[w] = retired.owner =>
              /\ retired.cohort[w] = instance_id[w]
              /\ observed_generation[w] < retired.generation
        /\ local_snapshot[w] = terminal.owner => terminal.cohort[w] = instance_id[w]

HolderInv == \A w \in Workers : HolderOK(w)

\* the cohort members B has found complete in the scan it is making
Passed ==
    Members(Scanned) \ (scan_left \cup IF reclaimer = "second" THEN {} ELSE scan_member)

ScanInv ==
    /\ reclaimer \in Scanning =>
          /\ Scanned.pending /\ ~ Scanned.destroying
          /\ scan_terminal = ~ retired.pending
          /\ \A w \in Passed : local_snapshot[w] # Scanned.owner
    /\ reclaimer = "destroying" => Scanned.destroying /\ scan_terminal = ~ retired.pending
    /\ reclaimer = "scan" => scan_member = {}
    /\ reclaimer \in {"first", "observed", "second"} =>
          ~ scan_terminal /\ \E w \in Workers : scan_member = {w}

PublisherInv ==
    /\ last_converged_generation <= current_generation
    /\ retired.owner # 0 => last_converged_generation < current_generation
    /\ publisher \in {"idle", "credit"} =>
          /\ retired.owner = 0
          /\ current_generation \in {1, last_converged_generation}
    /\ \A w \in Workers : stage[w] = "exited" => active_snapshot = 0

\* The inductive invariant: see the head of this module.
InductiveInvariant == SlotInv /\ RecordInv /\ HolderInv /\ ScanInv /\ PublisherInv

-----------------------------------------------------------------------------
\* The record that reclaim_record leaves is a record.
LEMMA ClearedType == ClearedRecord \in RetirementRecord
<1>1. FALSE \in BOOLEAN
  BY Zenon
<1> QED BY <1>1 DEF ClearedRecord, RetirementRecord

\* Every action keeps the type invariant.
LEMMA TypeStep == TypeOK /\ [Next]_vars => TypeOK'
<1> SUFFICES ASSUME TypeOK, [Next]_vars PROVE TypeOK'
  BY Zenon
<1> USE DEF TypeOK, vars, slotVars, epochVars, workVars, retVars, scanVars,
            recVars, pubVars, Stages, RegistrationStates, RetirementRecord,
            ReclaimerStages, Scanning, PublisherStages,
            kInitialFilterGeneration, kUnobservedFilterGeneration
<1>1. ASSUME NEW w \in Workers, SlotStep(w) PROVE TypeOK'
  <2>1. CASE RegisterWorker(w)
    BY <2>1 DEF RegisterWorker
  <2>2. CASE PublishInstance(w)
    BY <2>2 DEF PublishInstance
  <2>3. CASE RegisterRefused(w)
    BY <2>3 DEF RegisterRefused
  <2>4. CASE MarkWorkerRegistered(w)
    BY <2>4 DEF MarkWorkerRegistered
  <2>5. CASE ReleaseDataPlane(w)
    BY <2>5 DEF ReleaseDataPlane
  <2>6. CASE JoinAndReset(w)
    BY <2>6 DEF JoinAndReset
  <2>7. CASE QuiesceWorker(w)
    <3>1. registry' \in [Workers -> BOOLEAN]
      BY <2>7, Zenon DEF QuiesceWorker
    <3>2. /\ registration_state' \in [Workers -> RegistrationStates]
          /\ quiesced_through_instance_id' \in [Workers -> Nat]
      BY <2>7, Zenon DEF QuiesceWorker
    <3>3. /\ stage' = [stage EXCEPT ![w] = "quiesced"]
          /\ UNCHANGED <<slotVars, published_instance_id, observed_generation,
                         instance_id, local_snapshot, serving, refresh_event,
                         retVars, recVars, pubVars>>
      BY <2>7, Zenon DEF QuiesceWorker
    <3> QED BY <3>1, <3>2, <3>3
  <2>8. CASE RefreshSwap(w)
    BY <2>8 DEF RefreshSwap
  <2>9. CASE RefreshAcknowledge(w)
    BY <2>9 DEF RefreshAcknowledge
  <2>10. CASE RefreshRefused(w)
    BY <2>10 DEF RefreshRefused
  <2>11. CASE PublishProgress(w)
    BY <2>11, SMTT(30) DEF PublishProgress, Progressed
  <2> QED BY <1>1, <2>1, <2>2, <2>3, <2>4, <2>5, <2>6, <2>7, <2>8, <2>9, <2>10,
             <2>11, Zenon DEF SlotStep
<1>2. ASSUME PublisherStep PROVE TypeOK'
  <2>1. CASE AcquireRetirementCredit
    BY <2>1 DEF AcquireRetirementCredit
  <2>2. CASE ReleaseUncommittedCredit
    BY <2>2, SMTT(30) DEF ReleaseUncommittedCredit, Notified
  <2>3. CASE Commit
    BY <2>3 DEF Commit, Notified, NewRecord, Cohort
  <2>4. CASE SnapshotPublished
    BY <2>4 DEF SnapshotPublished
  <2>5. CASE WaitUntilConverged
    BY <2>5 DEF WaitUntilConverged
  <2>6. CASE LeaveCommitted
    BY <2>6, SMTT(30) DEF LeaveCommitted
  <2> QED BY <1>2, <2>1, <2>2, <2>3, <2>4, <2>5, <2>6, Zenon DEF PublisherStep
<1>3. ASSUME ReclaimerStep PROVE TypeOK'
  <2>1. CASE StartReclaimer
    BY <2>1, SMTT(30) DEF StartReclaimer
  <2>2. CASE BeginScan
    BY <2>2, SMTT(30) DEF BeginScan, Members
  <2>3. ASSUME NEW w \in Workers, LoadQuiesced(w) PROVE TypeOK'
    <3>1. scan_terminal' \in BOOLEAN /\ grace_expired' \in BOOLEAN
      BY <2>3, Zenon DEF LoadQuiesced, Proceed, Incomplete
    <3> QED BY <2>3, <3>1 DEF LoadQuiesced, Proceed, Incomplete
  <2>4. CASE LoadFirst
    <3>1. scan_terminal' \in BOOLEAN /\ grace_expired' \in BOOLEAN
      BY <2>4, Zenon DEF LoadFirst, LoadInstance, Proceed, Incomplete
    <3> QED BY <2>4, <3>1 DEF LoadFirst, LoadInstance, Proceed, Incomplete
  <2>5. CASE LoadObserved
    <3>1. scan_terminal' \in BOOLEAN /\ grace_expired' \in BOOLEAN
      BY <2>5, Zenon DEF LoadObserved, Proceed, Incomplete
    <3> QED BY <2>5, <3>1 DEF LoadObserved, Proceed, Incomplete
  <2>6. CASE LoadSecond
    <3>1. scan_terminal' \in BOOLEAN /\ grace_expired' \in BOOLEAN
      BY <2>6, Zenon DEF LoadSecond, LoadInstance, Proceed, Incomplete
    <3> QED BY <2>6, <3>1 DEF LoadSecond, LoadInstance, Proceed, Incomplete
  <2>7. CASE BeginDestroy
    <3>1. retired' \in RetirementRecord /\ terminal' \in RetirementRecord
      <4>1. /\ [retired EXCEPT !.destroying = TRUE, !.owner = 0] \in RetirementRecord
            /\ [terminal EXCEPT !.destroying = TRUE, !.owner = 0] \in RetirementRecord
        BY Zenon
      <4> HIDE DEF RetirementRecord
      <4> QED BY <2>7, <4>1 DEF BeginDestroy
    <3>2. last_converged_generation' \in Nat
      BY <2>7, Zenon DEF BeginDestroy, ConvergedWith
    <3> QED BY <2>7, <3>1, <3>2, SMTT(30) DEF BeginDestroy
  <2>8. CASE FinishDestroy
    <3>1. scan_terminal' \in BOOLEAN /\ grace_expired' \in BOOLEAN
      BY <2>8, Zenon DEF FinishDestroy
    <3>2. retirement_credit_held' \in BOOLEAN
      BY <2>8, Zenon DEF FinishDestroy
    <3> QED BY <2>8, <3>1, <3>2, ClearedType DEF FinishDestroy
  <2>9. CASE AwaitRecord
    BY <2>9, SMTT(30) DEF AwaitRecord
  <2> QED BY <1>3, <2>1, <2>2, <2>3, <2>4, <2>5, <2>6, <2>7, <2>8, <2>9, Zenon DEF
             ReclaimerStep
<1>4. CASE RequestFilterRefresh
  <2>1. /\ refresh_event' \in [Workers -> BOOLEAN]
        /\ snapshot_publication_pending' \in BOOLEAN
    BY <1>4, Zenon DEF RequestFilterRefresh
  <2> QED BY <1>4, <2>1 DEF RequestFilterRefresh
<1>5. CASE GraceDeadline
  BY <1>5, SMTT(30) DEF GraceDeadline
<1>6. CASE ReclaimerFails
  <2>1. grace_expired' \in BOOLEAN
    BY <1>6, Zenon DEF ReclaimerFails
  <2> QED BY <1>6, <2>1 DEF ReclaimerFails
<1>7. CASE SealPublication
  BY <1>7, SMTT(30) DEF SealPublication, Notified
<1>8. CASE DetachTerminalSnapshot
  BY <1>8, Zenon DEF DetachTerminalSnapshot, Notified, NewRecord, Cohort
<1>9. CASE RequestReclaimerShutdown
  BY <1>9, SMTT(30) DEF RequestReclaimerShutdown, Notified
<1>10. CASE EmergencyReclaim
  BY <1>10, SMTT(30) DEF EmergencyReclaim, ConvergedWith, ClearedRecord
<1>11. CASE Destroyed
  BY <1>11, SMTT(30) DEF Destroyed
<1>12. CASE UNCHANGED vars
  BY <1>12, SMTT(30)
<1> QED BY <1>1, <1>2, <1>3, <1>4, <1>5, <1>6, <1>7, <1>8, <1>9, <1>10, <1>11,
           <1>12, Zenon DEF Next


-----------------------------------------------------------------------------
(***************************************************************************)
(* Which variables a group of actions leaves alone.                        *)
(***************************************************************************)
\* B's steps touch no slot, no epoch and no worker.
LEMMA ReclaimerFrame ==
    ASSUME ReclaimerStep \/ GraceDeadline \/ ReclaimerFails
    PROVE  UNCHANGED <<slotVars, epochVars, workVars, pubVars,
                       reclaimer_shutdown_requested>>
BY DEF ReclaimerStep, GraceDeadline, ReclaimerFails, StartReclaimer, BeginScan,
   LoadQuiesced, LoadFirst, LoadObserved, LoadSecond, LoadInstance, BeginDestroy,
   FinishDestroy, AwaitRecord, retVars

\* A's steps other than commit touch only the credit and A itself.
LEMMA PublisherFrame ==
    ASSUME PublisherStep, ~ Commit
    PROVE  UNCHANGED <<slotVars, epochVars, workVars, retired, terminal,
                       last_converged_generation, scanVars>>
BY DEF PublisherStep, AcquireRetirementCredit, ReleaseUncommittedCredit,
   SnapshotPublished, WaitUntilConverged, LeaveCommitted, retVars, recVars

\* The teardown's calls touch no slot, no epoch and no worker.
LEMMA TeardownFrame ==
    ASSUME RequestReclaimerShutdown \/ EmergencyReclaim \/ Destroyed
    PROVE  UNCHANGED <<slotVars, epochVars, workVars, scanVars, pubVars>>
BY Zenon DEF RequestReclaimerShutdown, EmergencyReclaim, Destroyed, vars, recVars

\* A worker's and C's steps leave the records and A alone.
LEMMA SlotFrame ==
    ASSUME NEW w \in Workers, SlotStep(w)
    PROVE  UNCHANGED <<slotVars, retVars, scanVars, pubVars>>
BY ZenonT(40) DEF SlotStep, RegisterWorker, PublishInstance, RegisterRefused,
   MarkWorkerRegistered, ReleaseDataPlane, JoinAndReset, QuiesceWorker, RefreshSwap,
   RefreshAcknowledge, RefreshRefused, PublishProgress, recVars

-----------------------------------------------------------------------------
(***************************************************************************)
(* Each part of the inductive invariant is kept by every step.             *)
(***************************************************************************)
\* What C and a worker know of an epoch stays true: only they write it.
LEMMA SlotInvStep == TypeOK /\ SlotInv /\ [Next]_vars => SlotInv'
<1> SUFFICES ASSUME TypeOK, SlotInv, [Next]_vars, NEW v \in Workers
             PROVE  SlotOK(v)'
  BY DEF SlotInv
<1>0. SlotOK(v)
  BY Zenon DEF SlotInv
<1> USE DEF SlotOK, slotVars, epochVars, workVars, Instantiated
<1>1. ASSUME NEW w \in Workers, SlotStep(w) PROVE SlotOK(v)'
  <2>0. UNCHANGED slotVars
    BY <1>1, SlotFrame, Zenon
  <2>1. CASE RegisterWorker(w)
    BY <1>0, <2>0, <2>1, SMTT(30) DEF RegisterWorker, TypeOK,
       kUnobservedFilterGeneration
  <2>2. CASE PublishInstance(w)
    BY <1>0, <2>0, <2>2, SMTT(30) DEF PublishInstance, TypeOK
  <2>3. CASE RegisterRefused(w)
    BY <1>0, <2>0, <2>3 DEF RegisterRefused, TypeOK
  <2>4. CASE MarkWorkerRegistered(w)
    BY <1>0, <2>0, <2>4, Zenon DEF MarkWorkerRegistered, TypeOK
  <2>5. CASE ReleaseDataPlane(w)
    BY <1>0, <2>0, <2>5, Zenon DEF ReleaseDataPlane
  <2>6. CASE JoinAndReset(w)
    BY <1>0, <2>0, <2>6, Zenon DEF JoinAndReset, TypeOK
  <2>7. CASE QuiesceWorker(w)
    BY <1>0, <2>0, <2>7, Zenon DEF QuiesceWorker, TypeOK
  <2>8. CASE RefreshSwap(w)
    BY <1>0, <2>0, <2>8, SMTT(30) DEF RefreshSwap, RefreshDue, RefreshRefuses, TypeOK
  <2>9. CASE RefreshAcknowledge(w)
    BY <1>0, <2>0, <2>9, SMTT(30) DEF RefreshAcknowledge, TypeOK
  <2>10. CASE RefreshRefused(w)
    BY <1>0, <2>0, <2>10 DEF RefreshRefused, RefreshDue, TypeOK
  <2>11. CASE PublishProgress(w)
    BY <1>0, <2>0, <2>11, ZenonT(40) DEF PublishProgress, TypeOK
  <2> QED BY <1>1, <2>1, <2>2, <2>3, <2>4, <2>5, <2>6, <2>7, <2>8, <2>9, <2>10,
             <2>11, Zenon DEF SlotStep
<1>2. CASE Commit
  BY <1>0, <1>2 DEF Commit, PublicationFree
<1>3. CASE DetachTerminalSnapshot
  BY <1>0, <1>3, Zenon DEF DetachTerminalSnapshot, PublicationFree
<1>4. CASE UNCHANGED <<active_snapshot, epochVars, instance_id, local_snapshot, stage>>
  BY <1>0, <1>4
<1>5. CASE PublisherStep /\ ~ Commit
  BY <1>4, <1>5, PublisherFrame, Zenon
<1>6. CASE ReclaimerStep \/ GraceDeadline \/ ReclaimerFails
  BY <1>4, <1>6, ReclaimerFrame, Zenon
<1>7. CASE RequestReclaimerShutdown \/ EmergencyReclaim \/ Destroyed
  BY <1>4, <1>7, TeardownFrame, Zenon
<1>8. CASE RequestFilterRefresh \/ SealPublication
  BY <1>4, <1>8, Zenon DEF RequestFilterRefresh, SealPublication
<1>9. CASE UNCHANGED vars
  BY <1>4, <1>9, Zenon DEF vars
<1> QED BY <1>1, <1>2, <1>3, <1>5, <1>6, <1>7, <1>8, <1>9 DEF Next

\* The records' owners stay the one or two snapshots that are not active.
LEMMA RecordInvStep ==
    TypeOK /\ RecordInv /\ ScanInv /\ [Next]_vars => RecordInv'
<1> SUFFICES ASSUME TypeOK, RecordInv, ScanInv, [Next]_vars
             PROVE  RecordInv'
  OBVIOUS
<1> USE DEF RecordInv, slotVars, retVars, scanVars
<1>1. ASSUME NEW w \in Workers, SlotStep(w) PROVE RecordInv'
  <2>1. reclaimer' = reclaimer \/ reclaimer' = Progressed
    BY <1>1, Zenon DEF SlotStep, RegisterWorker, PublishInstance, RegisterRefused,
       MarkWorkerRegistered, ReleaseDataPlane, JoinAndReset, QuiesceWorker,
       RefreshSwap, RefreshAcknowledge, RefreshRefused, PublishProgress, recVars
  <2> QED BY <1>1, <2>1, SlotFrame, Zenon DEF Progressed
<1>2. CASE Commit
  <2>1. active_snapshot = current_generation /\ current_generation \in Nat
    BY <1>2, Zenon DEF Commit, TypeOK
  <2>2. /\ retired'.pending /\ ~ retired'.destroying
        /\ retired'.owner = current_generation
        /\ retired'.generation = current_generation + 1
    BY <1>2, <2>1, Zenon DEF Commit, NewRecord
  <2>3. ~ terminal.pending /\ terminal = ClearedRecord /\ terminal.owner = 0
    BY <2>1, SMTT(30) DEF ClearedRecord
  <2>4. ~ terminal.destroying
    BY <2>3, Zenon DEF ClearedRecord
  <2>5. terminal' = terminal
    BY <1>2, Zenon DEF Commit
  <2>6. /\ current_generation' = current_generation + 1
        /\ active_snapshot' = current_generation + 1
    BY <1>2, Zenon DEF Commit
  <2> HIDE DEF ClearedRecord
  <2> QED BY <2>1, <2>2, <2>3, <2>4, <2>5, <2>6, SMTT(30)
<1>3. CASE PublisherStep /\ ~ Commit
  <2>1. reclaimer' = reclaimer \/ reclaimer' = Notified
    BY <1>3 DEF PublisherStep, AcquireRetirementCredit, ReleaseUncommittedCredit,
       SnapshotPublished, WaitUntilConverged, LeaveCommitted, recVars
  <2> QED BY <1>3, <2>1, PublisherFrame, SMTT(30) DEF Notified
<1>4. CASE SealPublication
  BY <1>4, ZenonT(40) DEF SealPublication, Notified
<1>5. CASE DetachTerminalSnapshot
  BY <1>5, Zenon DEF DetachTerminalSnapshot, NewRecord, Notified, TypeOK,
     RetirementRecord, ClearedRecord
<1>6. CASE BeginDestroy
  <2>1. CASE retired' = retired /\ terminal' = terminal
    BY <1>6, <2>1, ReclaimerFrame, Zenon DEF BeginDestroy, CohortComplete,
       ReclaimerStep
  <2>2. CASE /\ ~ scan_terminal /\ UNCHANGED terminal
             /\ retired' = [retired EXCEPT !.destroying = TRUE, !.owner = 0]
             /\ reclaimer' = "destroying"
    BY <1>6, <2>2 DEF BeginDestroy, CohortComplete, ScanInv, Scanning, Scanned,
       TypeOK, RetirementRecord
  <2>3. CASE /\ scan_terminal /\ UNCHANGED retired
             /\ terminal' = [terminal EXCEPT !.destroying = TRUE, !.owner = 0]
             /\ reclaimer' = "destroying"
    BY <1>6, <2>3, Zenon DEF BeginDestroy, CohortComplete, ScanInv, Scanning,
       Scanned, TypeOK, RetirementRecord
  <2> QED BY <1>6, <2>1, <2>2, <2>3, Zenon DEF BeginDestroy
<1>7. CASE FinishDestroy
  BY <1>7 DEF FinishDestroy, ScanInv, Scanned, ClearedRecord
<1>8. CASE ReclaimerStep /\ ~ BeginDestroy /\ ~ FinishDestroy
  <2>1. /\ UNCHANGED <<retired, terminal, slotVars>>
        /\ reclaimer # "destroying"
    BY <1>8, Zenon DEF ReclaimerStep, StartReclaimer, BeginScan, LoadQuiesced,
       LoadFirst, LoadObserved, LoadSecond, LoadInstance, AwaitRecord, retVars
  <2> QED BY <2>1, Zenon
<1>9. CASE GraceDeadline \/ ReclaimerFails
  BY <1>9 DEF GraceDeadline, ReclaimerFails
<1>10. CASE RequestReclaimerShutdown
  BY <1>10, Zenon DEF RequestReclaimerShutdown, Notified
<1>11. CASE EmergencyReclaim
  BY <1>11, Zenon DEF EmergencyReclaim, ClearedRecord
<1>12. CASE RequestFilterRefresh
  BY <1>12, Zenon DEF RequestFilterRefresh, recVars
<1>13. CASE UNCHANGED vars \/ Destroyed
  BY <1>13, SMTT(30) DEF vars, Destroyed, recVars
<1> QED BY <1>1, <1>2, <1>3, <1>4, <1>5, <1>6, <1>7, <1>8, <1>9, <1>10, <1>11,
           <1>12, <1>13, Zenon DEF Next

\* The snapshots the two records own are never the one readers start from.
LEMMA OwnersAreOlder ==
    ASSUME TypeOK, RecordInv, active_snapshot # 0
    PROVE  retired.owner # active_snapshot /\ terminal.owner # active_snapshot
BY SMTT(30) DEF RecordInv, TypeOK

\* Whoever owns a retired snapshot stays an unfinished member of its cohort
\* until it lets go of it.
LEMMA HolderInvStep ==
    TypeOK /\ SlotInv /\ RecordInv /\ HolderInv /\ ScanInv /\ [Next]_vars => HolderInv'
<1> SUFFICES ASSUME TypeOK, SlotInv, RecordInv, HolderInv, ScanInv, [Next]_vars,
                    NEW v \in Workers
             PROVE  HolderOK(v)'
  BY DEF HolderInv
<1>0. SlotOK(v) /\ HolderOK(v)
  BY Zenon DEF SlotInv, HolderInv
<1> USE DEF HolderOK, slotVars, epochVars, workVars, retVars
<1>1. ASSUME NEW w \in Workers, SlotStep(w) PROVE HolderOK(v)'
  <2>0. UNCHANGED <<slotVars, retVars>>
    BY <1>1, SlotFrame
  <2>1. CASE RegisterWorker(w)
    <3>1. CASE v = w
      <4>1. local_snapshot'[v] = active_snapshot /\ active_snapshot # 0
        BY <2>1, <3>1 DEF RegisterWorker, TypeOK
      <4>2. retired.owner # active_snapshot /\ terminal.owner # active_snapshot
        BY <4>1, OwnersAreOlder, Zenon
      <4> QED BY <2>0, <4>1, <4>2, Zenon
    <3>2. CASE v # w
      <4>1. /\ local_snapshot'[v] = local_snapshot[v]
            /\ instance_id'[v] = instance_id[v]
            /\ observed_generation'[v] = observed_generation[v]
        BY <2>1, <3>2, Zenon DEF RegisterWorker, TypeOK
      <4> QED BY <1>0, <2>0, <4>1, Zenon
    <3> QED BY <3>1, <3>2, Zenon
  <2>2. CASE RegisterRefused(w)
    BY <1>0, <2>0, <2>2, Zenon DEF RegisterRefused, TypeOK, SlotOK, Instantiated
  <2>3. CASE JoinAndReset(w)
    BY <1>0, <2>0, <2>3, Zenon DEF JoinAndReset, TypeOK
  <2>4. CASE RefreshSwap(w)
    BY <1>0, <2>0, <2>4, ZenonT(40) DEF RefreshSwap, RefreshRefuses, TypeOK,
       RecordInv, ClearedRecord
  <2>5. CASE RefreshAcknowledge(w)
    <3>1. UNCHANGED <<local_snapshot, instance_id>>
      BY <2>5 DEF RefreshAcknowledge
    <3>2. CASE v = w /\ local_snapshot[v] # 0
      <4>1. local_snapshot[v] = active_snapshot
        BY <1>0, <2>5, <3>2 DEF RefreshAcknowledge, SlotOK
      <4>2. retired.owner # active_snapshot /\ terminal.owner # active_snapshot
        BY <3>2, <4>1, OwnersAreOlder, Zenon
      <4> QED BY <2>0, <3>1, <4>1, <4>2, Zenon
    <3>3. CASE v # w \/ local_snapshot[v] = 0
      <4>1. v # w => observed_generation'[v] = observed_generation[v]
        BY <2>5, Zenon DEF RefreshAcknowledge, TypeOK
      <4> QED BY <1>0, <2>0, <3>1, <3>3, <4>1, Zenon
    <3> QED BY <3>2, <3>3, Zenon
  <2>6. CASE \/ PublishInstance(w) \/ MarkWorkerRegistered(w) \/ ReleaseDataPlane(w)
             \/ QuiesceWorker(w) \/ RefreshRefused(w) \/ PublishProgress(w)
    <3>1. UNCHANGED <<local_snapshot, instance_id, observed_generation>>
      BY <2>6, Zenon DEF PublishInstance, MarkWorkerRegistered, ReleaseDataPlane,
         QuiesceWorker, RefreshRefused, PublishProgress
    <3> QED BY <1>0, <2>0, <3>1, Zenon
  <2> QED BY <1>1, <2>1, <2>2, <2>3, <2>4, <2>5, <2>6, Zenon DEF SlotStep
<1>2. CASE Commit
  <2>1. local_snapshot[v] # 0 => Cohort[v] = instance_id[v]
    BY <1>0, <1>2 DEF Commit, PublicationFree, Cohort, SlotOK, TypeOK,
       RegistrationStates, Instantiated
  <2>2. local_snapshot[v] # 0 => observed_generation[v] <= local_snapshot[v]
    BY <1>0, <1>2, Zenon DEF Commit, PublicationFree, SlotOK, Instantiated
  <2>3. /\ retired'.owner = active_snapshot /\ retired'.cohort = Cohort
        /\ retired'.generation = current_generation + 1
        /\ active_snapshot' = current_generation + 1
        /\ UNCHANGED <<epochVars, workVars, terminal>>
    BY <1>2, Zenon DEF Commit, NewRecord
  <2>4. active_snapshot = current_generation /\ active_snapshot # 0
    BY <1>2, Zenon DEF Commit, RecordInv, TypeOK
  <2>5. retired.owner = 0 /\ terminal.owner = 0
    BY <1>2, <2>4 DEF Commit, RecordInv
  <2>6. current_generation \in Nat /\ local_snapshot[v] \in Nat
        /\ observed_generation[v] \in Nat
    BY Zenon DEF TypeOK
  <2>7. local_snapshot[v] # 0 => local_snapshot[v] = active_snapshot
    BY <1>0, <2>5, Zenon
  <2>8. UNCHANGED <<local_snapshot, observed_generation, instance_id>>
    BY <2>3, Zenon
  <2>9. local_snapshot[v] # 0 => local_snapshot[v] = retired'.owner
    BY <2>3, <2>7
  <2>10. local_snapshot[v] # 0 => retired'.cohort[v] = instance_id[v]
    BY <2>1, <2>3, Zenon
  <2>11. local_snapshot[v] # 0 => observed_generation[v] < retired'.generation
    BY <2>2, <2>3, <2>4, <2>6, <2>7
  <2>12. terminal'.owner = 0
    BY <2>3, <2>5, Zenon
  <2> QED BY <2>8, <2>9, <2>10, <2>11, <2>12, ZenonT(40)
<1>3. CASE DetachTerminalSnapshot
  <2>1. local_snapshot[v] # 0 => Cohort[v] = instance_id[v]
    BY <1>0, <1>3, Zenon DEF DetachTerminalSnapshot, PublicationFree, Cohort,
       SlotOK, TypeOK, RegistrationStates, Instantiated
  <2> QED BY <1>0, <1>3, <2>1, ZenonT(40) DEF DetachTerminalSnapshot, NewRecord,
             RecordInv, ClearedRecord
<1>4. CASE BeginDestroy
  BY <1>0, <1>4, Zenon DEF BeginDestroy, SoleOwner, Scanned, TypeOK, RetirementRecord
<1>5. CASE FinishDestroy
  <2>0. UNCHANGED <<slotVars, epochVars, local_snapshot, instance_id>>
    BY <1>5, Zenon DEF FinishDestroy
  <2>1. CASE scan_terminal
    <3>1. terminal.owner = 0
      BY <1>5, <2>1, Zenon DEF FinishDestroy, ScanInv, RecordInv, Scanned
    <3>2. terminal'.owner = 0 /\ retired' = retired
      BY <1>5, <2>1, SMTT(30) DEF FinishDestroy, ClearedRecord
    <3> QED BY <1>0, <2>0, <3>1, <3>2, Zenon
  <2>2. CASE ~ scan_terminal
    <3>1. retired.owner = 0
      BY <1>5, <2>2, Zenon DEF FinishDestroy, ScanInv, RecordInv, Scanned
    <3>2. retired'.owner = 0 /\ terminal' = terminal
      BY <1>5, <2>2, SMTT(30) DEF FinishDestroy, ClearedRecord
    <3> QED BY <1>0, <2>0, <3>1, <3>2, SMTT(30)
  <2> QED BY <2>1, <2>2, Zenon
<1>6. CASE EmergencyReclaim
  BY <1>0, <1>6, Zenon DEF EmergencyReclaim, AllJoined, SlotOK, Instantiated
<1>7. CASE UNCHANGED <<slotVars, epochVars, local_snapshot, instance_id,
                       retired, terminal>>
  BY <1>0, <1>7, Zenon
<1>8. CASE ReclaimerStep /\ ~ BeginDestroy /\ ~ FinishDestroy
  BY <1>7, <1>8, Zenon DEF ReclaimerStep, StartReclaimer, BeginScan, LoadQuiesced,
     LoadFirst, LoadObserved, LoadSecond, LoadInstance, AwaitRecord
<1>9. CASE GraceDeadline \/ ReclaimerFails
  BY <1>7, <1>9, Zenon DEF GraceDeadline, ReclaimerFails
<1>10. CASE PublisherStep /\ ~ Commit
  BY <1>7, <1>10, PublisherFrame, Zenon
<1>11. CASE RequestReclaimerShutdown \/ Destroyed
  BY <1>7, <1>11, Zenon DEF RequestReclaimerShutdown, Destroyed, vars
<1>12. CASE SealPublication
  BY <1>0, <1>12, Zenon DEF SealPublication
<1>13. CASE RequestFilterRefresh
  BY <1>0, <1>13, Zenon DEF RequestFilterRefresh
<1>14. CASE UNCHANGED vars
  BY <1>7, <1>14, ZenonT(40) DEF vars
<1> QED BY <1>1, <1>2, <1>3, <1>4, <1>5, <1>6, <1>8, <1>9, <1>10, <1>11, <1>12,
           <1>13, <1>14, Zenon DEF Next

\* While B scans, the record's owner is the snapshot before the active one.
LEMMA ScannedOwner ==
    ASSUME TypeOK, RecordInv, ScanInv, reclaimer \in Scanning
    PROVE  Scanned.owner # 0 /\ Scanned.owner # active_snapshot
BY DEF RecordInv, ScanInv, Scanned, TypeOK, ClearedRecord

\* What B has read of a member stays true while it reads the others.
LEMMA ScanInvStep ==
    TypeOK /\ SlotInv /\ RecordInv /\ HolderInv /\ ScanInv /\ [Next]_vars => ScanInv'
<1> SUFFICES ASSUME TypeOK, SlotInv, RecordInv, HolderInv, ScanInv, [Next]_vars
             PROVE  ScanInv'
  OBVIOUS
<1> USE DEF slotVars, retVars, scanVars
<1>1. ASSUME NEW w \in Workers, SlotStep(w) PROVE ScanInv'
  <2>1. CASE PublishProgress(w)
    <3>1. /\ reclaimer' \notin Scanning
          /\ reclaimer' = "destroying" => reclaimer = "destroying"
      BY <2>1, Zenon DEF PublishProgress, RetirementFree, Progressed, Scanning
    <3> QED BY <1>1, <3>1, SlotFrame DEF ScanInv, Scanned, Scanning
  <2>2. CASE ~ PublishProgress(w)
    <3>1. UNCHANGED <<retVars, scanVars, reclaimer>>
      BY <1>1, <2>2, SlotFrame, Zenon DEF SlotStep, RegisterWorker, PublishInstance,
         RegisterRefused, MarkWorkerRegistered, ReleaseDataPlane, JoinAndReset,
         QuiesceWorker, RefreshSwap, RefreshAcknowledge, RefreshRefused, recVars
    <3>2. ASSUME reclaimer \in Scanning, NEW v \in Passed
          PROVE  local_snapshot'[v] # Scanned.owner
      <4>1. v \in Workers /\ local_snapshot[v] # Scanned.owner
        BY <3>2, Zenon DEF ScanInv, Passed, Members
      <4>2. local_snapshot'[v] \in {local_snapshot[v], active_snapshot, 0}
        BY <1>1, <2>2, <4>1, Zenon DEF SlotStep, RegisterWorker, PublishInstance,
           RegisterRefused, MarkWorkerRegistered, ReleaseDataPlane, JoinAndReset,
           QuiesceWorker, RefreshSwap, RefreshAcknowledge, RefreshRefused, workVars,
           TypeOK
      <4> QED BY <3>2, <4>1, <4>2, ScannedOwner, Zenon
    <3>3. Scanned' = Scanned /\ Passed' = Passed
      BY <3>1, Zenon DEF Scanned, Passed, Members
    <3> QED BY <3>1, <3>2, <3>3, Zenon DEF ScanInv
  <2> QED BY <2>1, <2>2, ZenonT(40)
<1>2. CASE BeginScan
  <2>1. /\ Scanned'.pending /\ ~ Scanned'.destroying
        /\ scan_terminal' = ~ retired'.pending
    BY <1>2, Zenon DEF BeginScan, RecordInv, Scanned, TypeOK
  <2>2. Passed' = {}
    BY <1>2, Zenon DEF BeginScan, Passed, Members, Scanned
  <2> QED BY <1>2, <2>1, <2>2, Zenon DEF BeginScan, ScanInv
<1>3. ASSUME NEW w \in Workers, LoadQuiesced(w) PROVE ScanInv'
  <2>1. CASE reclaimer' \in {"wait", "exited"}
    BY <2>1, Zenon DEF ScanInv, Scanning
  <2>2. CASE /\ quiesced_through_instance_id[w] >= Scanned.cohort[w]
             /\ reclaimer' = "scan" /\ scan_left' = scan_left \ {w}
             /\ UNCHANGED <<scan_terminal, scan_member>>
    <3>1. local_snapshot[w] # Scanned.owner
      <4>1. SlotOK(w) /\ HolderOK(w)
        BY DEF SlotInv, HolderInv
      <4>2. reclaimer \in Scanning
        BY <1>3, Zenon DEF LoadQuiesced, Scanning
      <4> QED BY <2>2, <4>1, <4>2, ScannedOwner, SMTT(30) DEF SlotOK, HolderOK,
                 Scanned, TypeOK
    <3>2. Scanned' = Scanned /\ Passed' \subseteq Passed \cup {w}
      BY <1>3, <2>2, Zenon DEF LoadQuiesced, Scanned, Passed, Members
    <3> QED BY <1>3, <2>2, <3>1, <3>2, ZenonT(40) DEF LoadQuiesced, ScanInv,
               workVars, Scanning
  <2>3. CASE /\ ~ scan_terminal /\ reclaimer' = "first" /\ scan_member' = {w}
             /\ scan_left' = scan_left \ {w} /\ UNCHANGED scan_terminal
    <3>1. Scanned' = Scanned /\ Passed' \subseteq Passed
      BY <1>3, <2>3, Zenon DEF LoadQuiesced, Scanned, Passed, Members, ScanInv
    <3> QED BY <1>3, <2>3, <3>1, Zenon DEF LoadQuiesced, ScanInv, workVars, Scanning
  <2> QED BY <1>3, <2>1, <2>2, <2>3 DEF LoadQuiesced, Incomplete, Proceed
<1>4. CASE LoadFirst \/ LoadObserved \/ LoadSecond
  <2>1. CASE reclaimer' \in {"wait", "exited"}
    BY <2>1, Zenon DEF ScanInv, Scanning
  <2>2. CASE reclaimer = "first" /\ reclaimer' = "observed" /\ UNCHANGED scanVars
    <3>1. Scanned' = Scanned /\ Passed' = Passed
      BY <1>4, <2>2, Zenon DEF LoadFirst, LoadInstance, LoadObserved, LoadSecond,
         Scanned, Passed, Members
    <3> QED BY <1>4, <2>2, <3>1, Zenon DEF LoadFirst, LoadInstance, LoadObserved,
               LoadSecond, ScanInv, workVars, Scanning
  <2>3. CASE /\ reclaimer = "observed" /\ reclaimer' = "second" /\ UNCHANGED scanVars
             /\ \E w \in scan_member : observed_generation[w] >= Scanned.generation
    <3>1. PICK w \in Workers : scan_member = {w}
      BY <2>3, Zenon DEF ScanInv
    <3>2. ~ scan_terminal /\ reclaimer \in Scanning
      BY <2>3, Zenon DEF ScanInv, Scanning
    <3>3. local_snapshot[w] # Scanned.owner
      <4>1. HolderOK(w)
        BY Zenon DEF HolderInv
      <4> QED BY <2>3, <3>1, <3>2, <4>1, ScannedOwner DEF HolderOK, Scanned, TypeOK,
                 RetirementRecord
    <3>4. Scanned' = Scanned /\ Passed' \subseteq Passed \cup {w}
      BY <1>4, <2>3, <3>1, Zenon DEF LoadFirst, LoadInstance, LoadObserved,
         LoadSecond, Scanned, Passed, Members
    <3> QED BY <1>4, <2>3, <3>2, <3>3, <3>4, ZenonT(40) DEF LoadFirst, LoadInstance,
               LoadObserved, LoadSecond, ScanInv, workVars, Scanning
  <2>4. CASE /\ reclaimer = "second" /\ reclaimer' = "scan" /\ scan_member' = {}
             /\ UNCHANGED <<scan_terminal, scan_left>>
    <3>1. Scanned' = Scanned /\ Passed' = Passed
      BY <1>4, <2>4, Zenon DEF LoadFirst, LoadInstance, LoadObserved, LoadSecond,
         Scanned, Passed, Members
    <3> QED BY <1>4, <2>4, <3>1, Zenon DEF LoadFirst, LoadInstance, LoadObserved,
               LoadSecond, ScanInv, workVars, Scanning
  <2> QED BY <1>4, <2>1, <2>2, <2>3, <2>4, Zenon DEF LoadFirst, LoadSecond,
             LoadInstance, LoadObserved, Incomplete, Proceed
<1>5. CASE BeginDestroy
  <2>1. CASE reclaimer' = "exited"
    BY <2>1, Zenon DEF ScanInv, Scanning
  <2>2. CASE reclaimer' = "destroying"
    BY <1>5, <2>2, ZenonT(40) DEF BeginDestroy, CohortComplete, ScanInv, Scanned,
       Scanning, TypeOK, RetirementRecord
  <2> QED BY <1>5, <2>1, <2>2, Zenon DEF BeginDestroy
<1>6. CASE Commit
  <2>1. reclaimer' \notin Scanning /\ reclaimer # "destroying"
    BY <1>6 DEF Commit, Notified, RetirementFree, Scanning, ScanInv, RecordInv,
       Scanned, ClearedRecord, TypeOK
  <2> QED BY <1>6, <2>1, Zenon DEF Commit, Notified, ScanInv, Scanning
<1>7. CASE DetachTerminalSnapshot
  <2>1. /\ reclaimer' \notin Scanning
        /\ reclaimer' = "destroying" => reclaimer = "destroying" /\ ~ scan_terminal
    BY <1>7, Zenon DEF DetachTerminalSnapshot, Notified, RetirementFree, Scanning,
       ScanInv, RecordInv, Scanned, ClearedRecord
  <2> QED BY <1>7, <2>1, Zenon DEF DetachTerminalSnapshot, ScanInv, Scanned, Scanning
<1>8. CASE \/ StartReclaimer \/ FinishDestroy \/ AwaitRecord \/ GraceDeadline
           \/ ReclaimerFails \/ EmergencyReclaim
  <2>1. reclaimer' \in {"loop", "idle", "none", "exited"}
    BY <1>8, Zenon DEF StartReclaimer, FinishDestroy, AwaitRecord, GraceDeadline,
       ReclaimerFails, EmergencyReclaim, recVars
  <2> QED BY <2>1, Zenon DEF ScanInv, Scanning
<1>9. CASE UNCHANGED <<slotVars, workVars, retired, terminal, scanVars, reclaimer>>
  BY <1>9, ZenonT(40) DEF ScanInv, Passed, Scanned, Members, workVars
<1>10. CASE /\ UNCHANGED <<retired, terminal, scanVars>>
            /\ RetirementFree /\ reclaimer' = Notified
  <2>1. /\ reclaimer' \notin Scanning
        /\ reclaimer' = "destroying" => reclaimer = "destroying"
    BY <1>10, ZenonT(40) DEF RetirementFree, Notified, Scanning
  <2> QED BY <1>10, <2>1 DEF ScanInv, Scanned, Scanning
<1>11. CASE PublisherStep /\ ~ Commit
  BY <1>9, <1>10, <1>11, PublisherFrame, Zenon DEF PublisherStep,
     AcquireRetirementCredit, ReleaseUncommittedCredit, SnapshotPublished,
     WaitUntilConverged, LeaveCommitted, recVars
<1>12. CASE RequestReclaimerShutdown \/ SealPublication
  BY <1>10, <1>12 DEF RequestReclaimerShutdown, SealPublication
<1>13. CASE UNCHANGED vars \/ Destroyed
  BY <1>9, <1>13, Zenon DEF vars, Destroyed, recVars
<1>14. CASE RequestFilterRefresh
  BY <1>14, ZenonT(40) DEF RequestFilterRefresh, ScanInv, Passed, Scanned, Members,
     recVars
<1> QED BY <1>1, <1>2, <1>3, <1>4, <1>5, <1>6, <1>7, <1>8, <1>11, <1>12, <1>13,
           <1>14, Zenon DEF Next, ReclaimerStep

\* What A concludes from its place stays true whatever B and C do.
LEMMA PublisherInvStep ==
    TypeOK /\ InductiveInvariant /\ [Next]_vars => PublisherInv'
<1> SUFFICES ASSUME TypeOK, InductiveInvariant, [Next]_vars
             PROVE  PublisherInv'
  OBVIOUS
<1> DEFINE Exited == \A w \in Workers : stage[w] = "exited" => active_snapshot = 0
           Main   == /\ last_converged_generation <= current_generation
                     /\ retired.owner # 0 =>
                           last_converged_generation < current_generation
                     /\ publisher \in {"idle", "credit"} =>
                           /\ retired.owner = 0
                           /\ current_generation \in {1, last_converged_generation}
<1> SUFFICES Main' /\ Exited'
  BY DEF PublisherInv
<1>0. Main /\ Exited /\ SlotInv /\ RecordInv /\ HolderInv /\ ScanInv
  BY Zenon DEF PublisherInv, InductiveInvariant
<1> USE DEF slotVars, epochVars, workVars, retVars, pubVars
<1>1. ASSUME NEW w \in Workers, SlotStep(w) PROVE Main' /\ Exited'
  <2>1. Main'
    BY <1>0, <1>1, SlotFrame, Zenon
  <2>2. CASE RefreshRefused(w)
    <3>1. active_snapshot = 0
      <4>1. SlotOK(w) /\ HolderOK(w)
        BY <1>0, Zenon DEF SlotInv, HolderInv
      <4>2. stage[w] = "running" /\ RefreshRefuses(w)
        BY <2>2, Zenon DEF RefreshRefused, RefreshDue
      <4>3. /\ published_instance_id[w] = instance_id[w]
            /\ registration_state[w] # "Unregistered" /\ local_snapshot[w] # 0
            /\ observed_generation[w] <= local_snapshot[w]
        BY <4>1, <4>2, Zenon DEF SlotOK, Instantiated
      <4>4. active_snapshot = 0 \/ local_snapshot[w] > active_snapshot
        BY <4>2, <4>3 DEF RefreshRefuses, TypeOK
      <4>5. active_snapshot # 0 => local_snapshot[w] <= active_snapshot
        <5>1. /\ active_snapshot \in Nat /\ current_generation \in Nat
              /\ local_snapshot[w] \in {active_snapshot, retired.owner, terminal.owner}
          BY <4>1, <4>3 DEF HolderOK, TypeOK
        <5>2. ASSUME active_snapshot # 0
              PROVE  /\ active_snapshot = current_generation
                     /\ retired.owner \in {0, current_generation - 1}
                     /\ terminal.owner = 0
          BY <1>0, <5>2, Zenon DEF RecordInv
        <5> QED BY <5>1, <5>2, SMTT(30)
      <4> QED BY <4>4, <4>5 DEF TypeOK
    <3> QED BY <1>1, <2>1, <3>1, SlotFrame, Zenon
  <2>3. CASE ~ RefreshRefused(w)
    <3>1. \A v \in Workers : stage'[v] = "exited" => stage[v] = "exited"
      BY <1>1, <2>3, ZenonT(40) DEF SlotStep, RegisterWorker, PublishInstance,
         RegisterRefused, MarkWorkerRegistered, ReleaseDataPlane, JoinAndReset,
         QuiesceWorker, RefreshSwap, RefreshAcknowledge, PublishProgress, TypeOK
    <3> QED BY <1>0, <1>1, <2>1, <3>1, SlotFrame, Zenon
  <2> QED BY <2>2, <2>3, Zenon
<1>2. CASE Commit
  <2>1. /\ publisher' = "published" /\ stage' = stage
        /\ current_generation' = current_generation + 1
        /\ last_converged_generation' = last_converged_generation
    BY <1>2 DEF Commit
  <2>2. Main'
    BY <1>0, <2>1 DEF TypeOK
  <2>3. active_snapshot # 0
    BY <1>0, <1>2, Zenon DEF Commit, RecordInv
  <2> QED BY <1>0, <2>1, <2>2, <2>3
<1>3. CASE PublisherStep /\ ~ Commit
  <2>1. UNCHANGED <<current_generation, last_converged_generation, retired>>
    BY <1>3, PublisherFrame, Zenon
  <2>2. \/ publisher' \notin {"idle", "credit"}
        \/ publisher \in {"idle", "credit"}
        \/ WaitUntilConverged
    BY <1>3 DEF PublisherStep, AcquireRetirementCredit, ReleaseUncommittedCredit,
       SnapshotPublished, LeaveCommitted
  <2>3. ASSUME WaitUntilConverged PROVE Main'
    <3>1. last_converged_generation = current_generation
      BY <1>0, <2>3, SMTT(30) DEF WaitUntilConverged, TypeOK
    <3>2. retired.owner = 0
      BY <1>0, <3>1 DEF TypeOK
    <3> QED BY <1>0, <2>1, <3>1, <3>2, Zenon
  <2>4. Main'
    BY <1>0, <2>1, <2>2, <2>3, Zenon
  <2> QED BY <1>0, <1>3, <2>4, PublisherFrame
<1>4. CASE DetachTerminalSnapshot
  BY <1>0, <1>4 DEF DetachTerminalSnapshot
<1>5. CASE BeginDestroy
  <2>1. CASE UNCHANGED <<retired, last_converged_generation>>
    BY <1>0, <1>5, <2>1, Zenon DEF BeginDestroy
  <2>2. CASE /\ ~ scan_terminal /\ last_converged_generation' = ConvergedWith(retired)
             /\ retired' = [retired EXCEPT !.destroying = TRUE, !.owner = 0]
    <3>1. retired.pending /\ ~ retired.destroying
      BY <1>0, <1>5, <2>2, Zenon DEF BeginDestroy, CohortComplete, ScanInv, Scanned,
         Scanning
    <3>2. retired.owner # 0 /\ last_converged_generation' = current_generation
      BY <1>0, <2>2, <3>1 DEF RecordInv, ConvergedWith, TypeOK
    <3>3. retired'.owner = 0
      BY <2>2, ZenonT(40) DEF TypeOK, RetirementRecord
    <3> QED BY <1>0, <1>5, <3>2, <3>3 DEF BeginDestroy, TypeOK
  <2> QED BY <1>5, <2>1, <2>2 DEF BeginDestroy
<1>6. CASE FinishDestroy
  <2>1. retired'.owner \in {0, retired.owner}
    BY <1>6 DEF FinishDestroy, ClearedRecord
  <2>2. UNCHANGED <<active_snapshot, current_generation, stage, publisher,
                    last_converged_generation>>
    BY <1>6, Zenon DEF FinishDestroy
  <2> QED BY <1>0, <2>1, <2>2, Zenon
<1>7. CASE EmergencyReclaim
  <2>1. retired'.owner = 0
    BY <1>7 DEF EmergencyReclaim, ClearedRecord
  <2>2. /\ UNCHANGED <<active_snapshot, current_generation, stage, publisher>>
        /\ last_converged_generation' = ConvergedWith(retired)
    BY <1>7, Zenon DEF EmergencyReclaim
  <2>3. retired.generation \in {0, current_generation}
    BY <1>0 DEF RecordInv, ClearedRecord
  <2>4. last_converged_generation' \in {last_converged_generation, current_generation}
    BY <2>2, <2>3 DEF ConvergedWith, TypeOK
  <2>5. last_converged_generation' <= current_generation
    BY <1>0, <2>4 DEF TypeOK
  <2> QED BY <1>0, <2>1, <2>2, <2>4, <2>5, Zenon
<1>8. CASE UNCHANGED <<active_snapshot, current_generation, stage, retired, publisher,
                       last_converged_generation>>
  BY <1>0, <1>8, Zenon
<1>9. CASE ReclaimerStep /\ ~ BeginDestroy /\ ~ FinishDestroy
  BY <1>8, <1>9, Zenon DEF ReclaimerStep, StartReclaimer, BeginScan, LoadQuiesced,
     LoadFirst, LoadObserved, LoadSecond, LoadInstance, AwaitRecord
<1>10. CASE GraceDeadline \/ ReclaimerFails
  BY <1>8, <1>10, Zenon DEF GraceDeadline, ReclaimerFails
<1>11. CASE RequestReclaimerShutdown \/ SealPublication \/ RequestFilterRefresh
  BY <1>8, <1>11, Zenon DEF RequestReclaimerShutdown, SealPublication,
     RequestFilterRefresh
<1>12. CASE UNCHANGED vars \/ Destroyed
  BY <1>8, <1>12 DEF vars, Destroyed
<1> QED BY <1>1, <1>2, <1>3, <1>4, <1>5, <1>6, <1>7, <1>9, <1>10, <1>11, <1>12,
           Zenon DEF Next

-----------------------------------------------------------------------------
\* A new FilterPublicationState satisfies the invariant.
LEMMA InitInvariant == Init => TypeOK /\ InductiveInvariant
<1> SUFFICES ASSUME Init PROVE TypeOK /\ InductiveInvariant
  BY Zenon
<1>1. TypeOK
  <2>1. FALSE \in BOOLEAN
    BY Zenon
  <2> QED BY <2>1, ClearedType, Zenon DEF Init, TypeOK, kInitialFilterGeneration,
             kUnobservedFilterGeneration, RegistrationStates, Stages,
             ReclaimerStages, PublisherStages
<1>2. SlotInv
  BY SMTT(30) DEF Init, SlotInv, SlotOK, Instantiated
<1>3. RecordInv /\ HolderInv
  BY SMTT(30) DEF Init, RecordInv, HolderInv, HolderOK, ClearedRecord,
     kInitialFilterGeneration
<1>4. ScanInv /\ PublisherInv
  BY DEF Init, ScanInv, PublisherInv, ClearedRecord, kInitialFilterGeneration,
     Scanning
<1> QED BY <1>1, <1>2, <1>3, <1>4 DEF InductiveInvariant

\* The invariant is inductive.
LEMMA InvariantStep ==
    TypeOK /\ InductiveInvariant /\ [Next]_vars => TypeOK' /\ InductiveInvariant'
BY TypeStep, SlotInvStep, RecordInvStep, HolderInvStep, ScanInvStep,
   PublisherInvStep DEF InductiveInvariant

\* Every reachable state of the publication protocol is well typed and
\* satisfies the inductive invariant, for any set of worker slots.
THEOREM Invariance == Spec => [](TypeOK /\ InductiveInvariant)
BY InitInvariant, InvariantStep, PTL DEF Spec

\* run_reclaimer's use_count() check never fails: once B found the cohort
\* complete, the record is the snapshot's only owner.
THEOREM ReclaimIsSafe == Spec => []SafeReclaim
<1>1. TypeOK /\ InductiveInvariant => SafeReclaim
  <2> SUFFICES ASSUME TypeOK, InductiveInvariant, CohortComplete
               PROVE  SoleOwner(Scanned.owner)
    BY Zenon DEF SafeReclaim
  <2>1. reclaimer \in Scanning /\ reclaimer # "second" /\ scan_left = {}
        /\ scan_member = {}
    BY DEF CohortComplete, Scanning, InductiveInvariant, ScanInv
  <2>2. Scanned.owner # 0 /\ Scanned.owner # active_snapshot
    BY <2>1, ScannedOwner, Zenon DEF InductiveInvariant
  <2>3. ~ (retired.owner = Scanned.owner /\ terminal.owner = Scanned.owner)
    BY <2>2 DEF InductiveInvariant, RecordInv, TypeOK
  <2>4. ASSUME NEW w \in Workers PROVE local_snapshot[w] # Scanned.owner
    <3>1. CASE w \in Members(Scanned)
      BY <2>1, <3>1, Zenon DEF InductiveInvariant, ScanInv, Passed
    <3>2. CASE w \notin Members(Scanned)
      <4>1. SlotOK(w) /\ HolderOK(w)
        BY Zenon DEF InductiveInvariant, SlotInv, HolderInv
      <4>2. local_snapshot[w] # 0 => instance_id[w] # 0
        BY <4>1 DEF SlotOK, TypeOK
      <4> QED BY <2>2, <3>2, <4>1, <4>2 DEF HolderOK, Members, Scanned
    <3> QED BY <3>1, <3>2, Zenon
  <2> QED BY <2>2, <2>3, <2>4 DEF SoleOwner
<1> QED BY <1>1, Invariance, PTL

\* No filter tree is ever destroyed on a worker thread: refresh_worker_snapshot
\* and the worker's own destruction never release the last owner.
THEOREM WorkersNeverDestroy == Spec => []WorkerNeverLastOwner
<1>1. InductiveInvariant => WorkerNeverLastOwner
  BY ZenonT(40) DEF InductiveInvariant, HolderInv, HolderOK, WorkerNeverLastOwner
<1> QED BY <1>1, Invariance, PTL

\* When wait_until_converged has returned Converged, no worker can still
\* evaluate a request with an older snapshot.
THEOREM UpdatesAreVisible == Spec => []SuccessMeansVisible
<1>1. TypeOK /\ InductiveInvariant => SuccessMeansVisible
  BY DEF InductiveInvariant, HolderInv, HolderOK, RecordInv, PublisherInv,
     SuccessMeansVisible, TypeOK
<1> QED BY <1>1, Invariance, PTL

\* refresh_worker_snapshot refuses no live worker before the terminal detach.
THEOREM RefusalsAreTerminal == Spec => []NoSpuriousRefusal
<1>1. InductiveInvariant => NoSpuriousRefusal
  BY DEF InductiveInvariant, PublisherInv, NoSpuriousRefusal
<1> QED BY <1>1, Invariance, PTL

\* Every step is a step of FilterVersions, or none.
LEMMA VersionsStep ==
    TypeOK /\ InductiveInvariant /\ [Next]_vars => [Versions!Next]_(Versions!vars)
<1> SUFFICES ASSUME TypeOK, InductiveInvariant, [Next]_vars
             PROVE  Versions!Next \/ UNCHANGED Versions!vars
  OBVIOUS
<1>0. SlotInv /\ RecordInv /\ HolderInv /\ ScanInv /\ PublisherInv
  BY DEF InductiveInvariant
<1> USE DEF slotVars, epochVars, workVars, retVars, pubVars
<1>1. ASSUME NEW w \in Workers, SlotStep(w) PROVE Versions!Next \/ UNCHANGED Versions!vars
  <2>0. UNCHANGED <<current_generation, last_converged_generation>>
    BY <1>1, SlotFrame
  <2>1. CASE RegisterWorker(w) \/ RefreshSwap(w)
    <3>1. local_snapshot' = [local_snapshot EXCEPT ![w] = current_generation]
      BY <1>0, <2>1, Zenon DEF RegisterWorker, RefreshSwap, RefreshRefuses, RecordInv
    <3> QED BY <2>0, <3>1, Zenon DEF Versions!Next, Versions!Observe
  <2>2. CASE JoinAndReset(w)
    BY <2>0, <2>2, Zenon DEF JoinAndReset, Versions!Next, Versions!Leave
  <2>3. CASE ~ (RegisterWorker(w) \/ RefreshSwap(w) \/ JoinAndReset(w))
    <3>1. UNCHANGED local_snapshot
      BY <1>1, <2>3, Zenon DEF SlotStep, PublishInstance, RegisterRefused,
         ReleaseDataPlane, MarkWorkerRegistered, QuiesceWorker, RefreshAcknowledge,
         RefreshRefused, PublishProgress
    <3> QED BY <2>0, <3>1 DEF Versions!vars
  <2> QED BY <2>1, <2>2, <2>3, Zenon
<1>2. CASE Commit
  <2>1. /\ current_generation' = current_generation + 1
        /\ UNCHANGED <<local_snapshot, last_converged_generation>>
    BY <1>2, ZenonT(40) DEF Commit
  <2>2. /\ current_generation \in {1, last_converged_generation}
        /\ last_converged_generation <= current_generation /\ current_generation >= 1
    BY <1>0, <1>2, Zenon DEF Commit, PublisherInv, RecordInv
  <2>3. current_generation = IF last_converged_generation = 0
                             THEN kInitialFilterGeneration ELSE last_converged_generation
    BY <2>2 DEF TypeOK, kInitialFilterGeneration
  <2> QED BY <2>1, <2>3, Zenon DEF Versions!Next, Versions!Publish
<1>3. CASE BeginDestroy
  <2>1. CASE UNCHANGED last_converged_generation
    BY <1>3, <2>1, Zenon DEF BeginDestroy, Versions!vars
  <2>2. CASE /\ ~ scan_terminal /\ last_converged_generation' = ConvergedWith(retired)
             /\ Scanned.owner = 0 \/ SoleOwner(Scanned.owner)
    <3>1. retired.pending /\ ~ retired.destroying /\ Scanned = retired
      BY <1>0, <1>3, <2>2, ZenonT(40) DEF BeginDestroy, CohortComplete, ScanInv,
         Scanned, Scanning
    <3>2. /\ retired.generation = current_generation /\ current_generation >= 1
          /\ last_converged_generation <= current_generation
      BY <1>0, <3>1, Zenon DEF RecordInv, PublisherInv
    <3>3. last_converged_generation' = current_generation
      BY <2>2, <3>2 DEF ConvergedWith, TypeOK
    <3>4. \A w \in Workers : local_snapshot[w] \in {0, current_generation}
      BY <1>0, <2>2, <3>1, Zenon DEF RecordInv, HolderInv, HolderOK, SoleOwner, TypeOK
    <3>5. (IF last_converged_generation = 0
           THEN kInitialFilterGeneration ELSE last_converged_generation)'
          = current_generation
      BY <3>2, <3>3 DEF TypeOK
    <3>6. UNCHANGED <<current_generation, local_snapshot>>
      BY <1>3, Zenon DEF BeginDestroy
    <3> QED BY <3>4, <3>5, <3>6, Zenon DEF Versions!Next, Versions!Converge
  <2> QED BY <1>3, <2>1, <2>2 DEF BeginDestroy
<1>4. CASE EmergencyReclaim
  <2>0. /\ last_converged_generation' = ConvergedWith(retired)
        /\ UNCHANGED <<current_generation, local_snapshot>>
    BY <1>4, Zenon DEF EmergencyReclaim
  <2>1. CASE ~ retired.pending
    <3>1. retired.generation = 0
      BY <1>0, <2>1 DEF RecordInv, ClearedRecord
    <3>2. last_converged_generation' = last_converged_generation
      BY <2>0, <3>1 DEF ConvergedWith, TypeOK
    <3> QED BY <2>0, <3>2, Zenon DEF Versions!vars
  <2>2. CASE retired.pending
    <3>1. /\ retired.generation = current_generation /\ current_generation >= 1
          /\ last_converged_generation <= current_generation
      BY <1>0, <2>2, Zenon DEF RecordInv, PublisherInv
    <3>2. last_converged_generation' = current_generation
      BY <2>0, <3>1 DEF ConvergedWith, TypeOK
    <3>3. \A w \in Workers : local_snapshot[w] = 0
      BY <1>0, <1>4, Zenon DEF EmergencyReclaim, AllJoined, SlotInv, SlotOK,
         Instantiated
    <3>4. (IF last_converged_generation = 0
           THEN kInitialFilterGeneration ELSE last_converged_generation)'
          = current_generation
      BY <3>1, <3>2 DEF TypeOK
    <3> QED BY <2>0, <3>3, <3>4, Zenon DEF Versions!Next, Versions!Converge
  <2> QED BY <2>1, <2>2
<1>5. CASE UNCHANGED <<current_generation, local_snapshot, last_converged_generation>>
  BY <1>5 DEF Versions!vars
<1>6. CASE PublisherStep /\ ~ Commit
  BY <1>5, <1>6, PublisherFrame, Zenon
<1>7. CASE ReclaimerStep /\ ~ BeginDestroy
  BY <1>5, <1>7, Zenon DEF ReclaimerStep, StartReclaimer, BeginScan, LoadQuiesced,
     LoadFirst, LoadObserved, LoadSecond, LoadInstance, FinishDestroy, AwaitRecord
<1>8. CASE GraceDeadline \/ ReclaimerFails \/ RequestReclaimerShutdown
           \/ SealPublication \/ DetachTerminalSnapshot \/ RequestFilterRefresh
  BY <1>5, <1>8, Zenon DEF GraceDeadline, ReclaimerFails, RequestReclaimerShutdown,
     SealPublication, DetachTerminalSnapshot, RequestFilterRefresh
<1>9. CASE UNCHANGED vars \/ Destroyed
  BY <1>5, <1>9 DEF vars, Destroyed
<1> QED BY <1>1, <1>2, <1>3, <1>4, <1>6, <1>7, <1>8, <1>9, Zenon DEF Next

\* The publication protocol implements FilterVersions: a commit publishes the
\* next version only after the last one converged, a worker only moves to the
\* newest one, and convergence is claimed only when it is true.
THEOREM PublicationImplementsVersions == Spec => ImplementsVersions
<1>1. Init => Versions!Init
  BY DEF Init, Versions!Init, kInitialFilterGeneration
<1> QED BY <1>1, Invariance, VersionsStep, PTL DEF Spec, ImplementsVersions,
           Versions!Spec

=============================================================================

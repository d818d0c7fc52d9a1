------------------------- MODULE FilterPublication -------------------------
(***************************************************************************)
(* FilterPublicationState (src/FilterPublication.cpp): how one immutable   *)
(* filter snapshot replaces another while worker threads keep reading.     *)
(*                                                                         *)
(*  A  the publisher thread (FilterUpdateController::run)                  *)
(*  B  the reclaimer thread (run_reclaimer)                                *)
(*  C  the supervisor thread, which registers and quiesces workers         *)
(*  w  one worker thread per slot, refreshing its own local snapshot       *)
(*                                                                         *)
(* A snapshot is named by its generation; 0 is a null shared_ptr or a null *)
(* instance.  A section that runs under publication_mutex_ and that B can  *)
(* see half done (B reads the epoch atomics without that mutex) is two     *)
(* steps; every other locked section is one step.  retirement_mutex_ is    *)
(* held by B between its steps exactly in the stages of Scanning.          *)
(***************************************************************************)
EXTENDS Naturals, FiniteSets

CONSTANTS
    Workers,        \* the worker slots
    MaxGeneration,  \* numeric_limits<FilterGeneration>::max()
    MaxInstance     \* numeric_limits<uint64_t>::max() for instance_id_

ASSUME WorkersAssumption == IsFiniteSet(Workers)
ASSUME BoundsAssumption  == MaxGeneration \in Nat /\ MaxInstance \in Nat

VARIABLES
    active_snapshot, current_generation, publication_sealed,
    \* the per-slot WorkerEpoch and its registry entry
    registry, published_instance_id, observed_generation,
    registration_state, quiesced_through_instance_id,
    \* the slot's current instance
    instance_id, local_snapshot, stage, serving, refresh_event,
    \* what retirement_mutex_ protects
    retired, terminal, retirement_credit_held, last_converged_generation,
    reclaimer_shutdown_requested,
    \* B: where it is, the scan it is making, its deadline
    reclaimer, scan_terminal, scan_left, scan_member, grace_expired,
    \* A and the sink it notifies
    publisher, snapshot_publication_pending

slotVars  == <<active_snapshot, current_generation, publication_sealed>>
epochVars == <<registry, published_instance_id, observed_generation,
               registration_state, quiesced_through_instance_id>>
workVars  == <<instance_id, local_snapshot, stage, serving, refresh_event>>
retVars   == <<retired, terminal, retirement_credit_held,
               last_converged_generation, reclaimer_shutdown_requested>>
scanVars  == <<scan_terminal, scan_left, scan_member>>
recVars   == <<reclaimer, scanVars, grace_expired>>
pubVars   == <<publisher, snapshot_publication_pending>>
vars      == <<slotVars, epochVars, workVars, retVars, recVars, pubVars>>

kInitialFilterGeneration == 1
kUnobservedFilterGeneration == 0

RegistrationStates == {"Unregistered", "Starting", "Registered"}

\* stage[w]: the slot as C and its worker thread see it.  "registering" and
\* "swapping" are the two half-done sections under publication_mutex_.
Stages == {"offline", "registering", "running", "swapping", "acked",
           "exited", "released", "quiesced"}

\* WorkerLoop objects that exist (record.current_instance_ is not null)
Instantiated == {"running", "swapping", "acked", "exited"}

\* B between two of its own steps: "none" no thread, "new" not entered yet,
\* "wait" and "idle" blocked on retirement_changed_, "destroying" unlocked.
Scanning == {"scan", "first", "observed", "second"}
ReclaimerStages ==
    Scanning \cup {"none", "new", "loop", "wait", "idle", "destroying", "exited"}

\* A inside FilterUpdateController::run, as this state sees it
PublisherStages == {"idle", "credit", "published", "waiting", "exited"}

RetirementRecord == [pending : BOOLEAN, destroying : BOOLEAN, owner : Nat,
                     generation : Nat, cohort : [Workers -> Nat]]
ClearedRecord == [pending |-> FALSE, destroying |-> FALSE, owner |-> 0,
                  generation |-> 0, cohort |-> [w \in Workers |-> 0]]

\* publication_mutex_ and retirement_mutex_ can be taken now
PublicationFree == \A w \in Workers : stage[w] \notin {"registering", "swapping"}
RetirementFree  == reclaimer \notin Scanning

\* Every field holds a value its C++ type allows, generations within MaxGeneration.
TypeOK ==
    /\ active_snapshot \in Nat
    /\ current_generation \in Nat
    /\ publication_sealed \in BOOLEAN
    /\ registry \in [Workers -> BOOLEAN]
    /\ published_instance_id \in [Workers -> Nat]
    /\ observed_generation \in [Workers -> Nat]
    /\ registration_state \in [Workers -> RegistrationStates]
    /\ quiesced_through_instance_id \in [Workers -> Nat]
    /\ instance_id \in [Workers -> Nat]
    /\ local_snapshot \in [Workers -> Nat]
    /\ stage \in [Workers -> Stages]
    /\ serving \in [Workers -> BOOLEAN]
    /\ refresh_event \in [Workers -> BOOLEAN]
    /\ retired \in RetirementRecord
    /\ terminal \in RetirementRecord
    /\ retirement_credit_held \in BOOLEAN
    /\ last_converged_generation \in Nat
    /\ reclaimer_shutdown_requested \in BOOLEAN
    /\ reclaimer \in ReclaimerStages
    /\ scan_terminal \in BOOLEAN
    /\ scan_left \in SUBSET Workers
    /\ scan_member \in SUBSET Workers
    /\ grace_expired \in BOOLEAN
    /\ publisher \in PublisherStages
    /\ snapshot_publication_pending \in BOOLEAN

\* B has a thread only when runtime updates are enabled.
Init ==
    /\ active_snapshot = kInitialFilterGeneration
    /\ current_generation = kInitialFilterGeneration
    /\ publication_sealed = FALSE
    /\ registry = [w \in Workers |-> FALSE]
    /\ published_instance_id = [w \in Workers |-> 0]
    /\ observed_generation = [w \in Workers |-> kUnobservedFilterGeneration]
    /\ registration_state = [w \in Workers |-> "Unregistered"]
    /\ quiesced_through_instance_id = [w \in Workers |-> 0]
    /\ instance_id = [w \in Workers |-> 0]
    /\ local_snapshot = [w \in Workers |-> 0]
    /\ stage = [w \in Workers |-> "offline"]
    /\ serving = [w \in Workers |-> FALSE]
    /\ refresh_event = [w \in Workers |-> FALSE]
    /\ retired = ClearedRecord
    /\ terminal = ClearedRecord
    /\ retirement_credit_held = FALSE
    /\ last_converged_generation = 0
    /\ reclaimer_shutdown_requested = FALSE
    /\ reclaimer \in {"none", "new"}
    /\ scan_terminal = FALSE
    /\ scan_left = {}
    /\ scan_member = {}
    /\ grace_expired = FALSE
    /\ publisher = "idle"
    /\ snapshot_publication_pending = FALSE

-----------------------------------------------------------------------------
(***************************************************************************)
(* retirement_changed_.  An un-predicated wait ("idle") ends with any      *)
(* notification; the wait for a cohort ("wait") only when                  *)
(* progress_sequence_ moved, which publish_progress alone does while B     *)
(* waits.  B reads the sequence and blocks without releasing               *)
(* retirement_mutex_, so the sequence is the flag "progress since then".   *)
(***************************************************************************)

\* mutant: the notification is forgotten
NoNotification == reclaimer
Notified == IF reclaimer = "idle" THEN "loop" ELSE reclaimer

\* mutant: publish_progress notifies but does not advance the sequence
NotificationOnly == IF reclaimer = "idle" THEN "loop" ELSE reclaimer
Progressed == IF reclaimer \in {"idle", "wait"} THEN "loop" ELSE reclaimer

\* mutant: a worker still starting is left out
RegisteredOnly == [w \in Workers |->
              IF registry[w] /\ registration_state[w] = "Registered"
              THEN published_instance_id[w] ELSE 0]

\* The exact instances registered now: the cohort a record must outlive.
Cohort == [w \in Workers |->
              IF registry[w] /\ registration_state[w] \in {"Starting", "Registered"}
              THEN published_instance_id[w] ELSE 0]

\* mutant: the old owner is overwritten instead of being moved to the record
OwnerOverwritten(generation) ==
    [pending |-> TRUE, destroying |-> FALSE, owner |-> 0,
     generation |-> generation, cohort |-> Cohort]

\* The record commit and detach_terminal_snapshot fill: it takes over the
\* active slot's owner and waits for the cohort to reach the generation.
NewRecord(generation) ==
    [pending |-> TRUE, destroying |-> FALSE, owner |-> active_snapshot,
     generation |-> generation, cohort |-> Cohort]

\* mutant: one generation too far
ConvergedPast(record) == record.generation + 1

ConvergedWith(record) ==
    IF record.generation > last_converged_generation
    THEN record.generation ELSE last_converged_generation

\* use_count() == 1 for the snapshot g that a record owns
SoleOwner(g) ==
    /\ active_snapshot # g
    /\ \A w \in Workers : local_snapshot[w] # g
    /\ ~ (retired.owner = g /\ terminal.owner = g)

-----------------------------------------------------------------------------
(***************************************************************************)
(* C: one slot's instance from create_worker to join_and_reset.            *)
(***************************************************************************)

\* register_worker up to the epoch reset: the snapshot copy C will hand to
\* WorkerLoop::create is already an owner.
RegisterWorker(w) ==
    /\ stage[w] = "offline" /\ instance_id[w] < MaxInstance
    /\ PublicationFree /\ ~ registry[w]
    /\ ~ publication_sealed /\ active_snapshot # 0
    /\ instance_id' = [instance_id EXCEPT ![w] = @ + 1]
    /\ local_snapshot' = [local_snapshot EXCEPT ![w] = active_snapshot]
    /\ observed_generation' =
          [observed_generation EXCEPT ![w] = kUnobservedFilterGeneration]
    /\ registration_state' = [registration_state EXCEPT ![w] = "Starting"]
    /\ stage' = [stage EXCEPT ![w] = "registering"]
    /\ UNCHANGED <<slotVars, registry, published_instance_id,
                   quiesced_through_instance_id, serving, refresh_event,
                   retVars, recVars, pubVars>>

\* register_worker from the instance id's release store to its return, then
\* WorkerLoop::create and the new thread, which takes its first step later.
PublishInstance(w) ==
    /\ stage[w] = "registering"
    /\ published_instance_id' = [published_instance_id EXCEPT ![w] = instance_id[w]]
    /\ registry' = [registry EXCEPT ![w] = TRUE]
    /\ stage' = [stage EXCEPT ![w] = "running"]
    /\ UNCHANGED <<slotVars, observed_generation, registration_state,
                   quiesced_through_instance_id, instance_id, local_snapshot,
                   serving, refresh_event, retVars, recVars, pubVars>>

\* register_worker returns nullopt: create_worker fails and join_and_reset
\* runs for an instance that owns nothing.
RegisterRefused(w) ==
    /\ stage[w] = "offline" /\ instance_id[w] < MaxInstance
    /\ PublicationFree
    /\ registry[w] \/ publication_sealed \/ active_snapshot = 0
    /\ instance_id' = [instance_id EXCEPT ![w] = @ + 1]
    /\ stage' = [stage EXCEPT ![w] = "released"]
    /\ UNCHANGED <<slotVars, epochVars, local_snapshot, serving, refresh_event,
                   retVars, recVars, pubVars>>

\* C accepts a worker's Ready only at the current generation.
MarkWorkerRegistered(w) ==
    /\ stage[w] \in {"running", "acked"} /\ PublicationFree
    /\ registry[w] /\ published_instance_id[w] = instance_id[w]
    /\ registration_state[w] = "Starting"
    /\ observed_generation[w] >= current_generation
    /\ registration_state' = [registration_state EXCEPT ![w] = "Registered"]
    /\ UNCHANGED <<slotVars, registry, published_instance_id,
                   observed_generation, quiesced_through_instance_id, workVars,
                   retVars, recVars, pubVars>>

\* first and second gate pass: the worker enters its epoll loop
ReleaseDataPlane(w) ==
    /\ stage[w] = "running" /\ ~ serving[w]
    /\ registration_state[w] = "Registered"
    /\ serving' = [serving EXCEPT ![w] = TRUE]
    /\ UNCHANGED <<slotVars, epochVars, instance_id, local_snapshot, stage,
                   refresh_event, retVars, recVars, pubVars>>

\* C consumes snapshot_publication_pending_ and writes every generation fd.
RequestFilterRefresh ==
    /\ snapshot_publication_pending
    /\ snapshot_publication_pending' = FALSE
    /\ refresh_event' = [w \in Workers |->
                            refresh_event[w] \/ stage[w] \in Instantiated]
    /\ UNCHANGED <<slotVars, epochVars, instance_id, local_snapshot, stage,
                   serving, retVars, recVars, publisher>>

\* join_and_reset: the thread is joined, then the instance and with it the
\* local snapshot are destroyed.  Also the unwinding of a failed creation.
JoinAndReset(w) ==
    /\ stage[w] \in {"running", "exited"}
    /\ local_snapshot' = [local_snapshot EXCEPT ![w] = 0]
    /\ stage' = [stage EXCEPT ![w] = "released"]
    /\ serving' = [serving EXCEPT ![w] = FALSE]
    /\ refresh_event' = [refresh_event EXCEPT ![w] = FALSE]
    /\ UNCHANGED <<slotVars, epochVars, instance_id, retVars, recVars, pubVars>>

QuiesceWorker(w) ==
    /\ stage[w] = "released" /\ PublicationFree
    /\ LET exact == registry[w] /\ published_instance_id[w] = instance_id[w]
       IN  /\ quiesced_through_instance_id' = [quiesced_through_instance_id
                 EXCEPT ![w] = IF exact THEN instance_id[w] ELSE @]
           /\ registration_state' = [registration_state
                 EXCEPT ![w] = IF exact THEN "Unregistered" ELSE @]
           /\ registry' = [registry EXCEPT ![w] = IF exact THEN FALSE ELSE @]
    /\ stage' = [stage EXCEPT ![w] = "quiesced"]
    /\ UNCHANGED <<slotVars, published_instance_id, observed_generation,
                   instance_id, local_snapshot, serving, refresh_event,
                   retVars, recVars, pubVars>>

-----------------------------------------------------------------------------
(***************************************************************************)
(* The worker thread: refresh_worker_snapshot, called at start-up and at   *)
(* the gates when worker_needs_refresh, in the epoll loop when the         *)
(* generation eventfd is readable (it is drained first).                   *)
(***************************************************************************)
WorkerNeedsRefresh(w) ==
    /\ published_instance_id[w] = instance_id[w]
    /\ observed_generation[w] < current_generation

RefreshDue(w) ==
    /\ stage[w] = "running"
    /\ IF serving[w] THEN refresh_event[w] ELSE WorkerNeedsRefresh(w)

\* mutant: a worker that is already current counts as ahead
RefusesCurrent(w) ==
    \/ published_instance_id[w] # instance_id[w]
    \/ registration_state[w] = "Unregistered"
    \/ active_snapshot = 0 \/ local_snapshot[w] = 0
    \/ local_snapshot[w] >= active_snapshot

RefreshRefuses(w) ==
    \/ published_instance_id[w] # instance_id[w]
    \/ registration_state[w] = "Unregistered"
    \/ active_snapshot = 0 \/ local_snapshot[w] = 0
    \/ local_snapshot[w] > active_snapshot
    \/ observed_generation[w] > local_snapshot[w]

\* The old owner is released before the acknowledgement is stored.
RefreshSwap(w) ==
    /\ RefreshDue(w) /\ PublicationFree /\ ~ RefreshRefuses(w)
    /\ local_snapshot' = [local_snapshot EXCEPT ![w] = active_snapshot]
    /\ stage' = [stage EXCEPT ![w] =
                    IF observed_generation[w] < active_snapshot THEN "swapping" ELSE @]
    /\ refresh_event' = [refresh_event EXCEPT ![w] = @ /\ ~ serving[w]]
    /\ UNCHANGED <<slotVars, epochVars, instance_id, serving,
                   retVars, recVars, pubVars>>

RefreshAcknowledge(w) ==
    /\ stage[w] = "swapping"
    /\ observed_generation' = [observed_generation EXCEPT ![w] = local_snapshot[w]]
    /\ stage' = [stage EXCEPT ![w] = "acked"]
    /\ UNCHANGED <<slotVars, registry, published_instance_id,
                   registration_state, quiesced_through_instance_id,
                   instance_id, local_snapshot, serving, refresh_event,
                   retVars, recVars, pubVars>>

\* refresh_worker_snapshot returns false: the worker leaves with FatalExit.
RefreshRefused(w) ==
    /\ RefreshDue(w) /\ PublicationFree /\ RefreshRefuses(w)
    /\ stage' = [stage EXCEPT ![w] = "exited"]
    /\ UNCHANGED <<slotVars, epochVars, instance_id, local_snapshot, serving,
                   refresh_event, retVars, recVars, pubVars>>

\* publish_progress, by the worker after an acknowledgement and by C after
\* quiesce_worker
PublishProgress(w) ==
    /\ stage[w] \in {"acked", "quiesced"} /\ RetirementFree
    /\ reclaimer' = Progressed
    /\ stage' = [stage EXCEPT ![w] = IF @ = "acked" THEN "running" ELSE "offline"]
    /\ UNCHANGED <<slotVars, epochVars, instance_id, local_snapshot, serving,
                   refresh_event, retVars, scanVars, grace_expired, pubVars>>

-----------------------------------------------------------------------------
(***************************************************************************)
(* A: one update is credit, build, commit, sink, wait.                     *)
(***************************************************************************)

\* Updates are admitted only once B reported ready (DNS::start).
AcquireRetirementCredit ==
    /\ publisher = "idle" /\ RetirementFree
    /\ reclaimer \notin {"none", "new"}
    /\ current_generation < MaxGeneration
    /\ ~ retirement_credit_held /\ ~ publication_sealed
    /\ retirement_credit_held' = TRUE
    /\ publisher' = "credit"
    /\ UNCHANGED <<slotVars, epochVars, workVars, retired, terminal,
                   last_converged_generation, reclaimer_shutdown_requested,
                   recVars, snapshot_publication_pending>>

\* the build failed, was stopped, or commit was refused
ReleaseUncommittedCredit ==
    /\ publisher = "credit" /\ RetirementFree
    /\ retirement_credit_held' = (retirement_credit_held /\ retired.pending)
    /\ reclaimer' = Notified
    /\ publisher' = "idle"
    /\ UNCHANGED <<slotVars, epochVars, workVars, retired, terminal,
                   last_converged_generation, reclaimer_shutdown_requested,
                   scanVars, grace_expired, snapshot_publication_pending>>

Commit ==
    /\ publisher = "credit" /\ RetirementFree /\ PublicationFree
    /\ retirement_credit_held /\ ~ retired.pending
    /\ ~ publication_sealed
    /\ current_generation < MaxGeneration
    /\ retired' = NewRecord(current_generation + 1)
    /\ active_snapshot' = current_generation + 1
    /\ current_generation' = current_generation + 1
    /\ reclaimer' = Notified
    /\ publisher' = "published"
    /\ UNCHANGED <<publication_sealed, epochVars, workVars, terminal,
                   retirement_credit_held, last_converged_generation,
                   reclaimer_shutdown_requested, scanVars, grace_expired,
                   snapshot_publication_pending>>

\* the call of the sink after both mutexes are released
SnapshotPublished ==
    /\ publisher = "published"
    /\ snapshot_publication_pending' = TRUE
    /\ publisher' = "waiting"
    /\ UNCHANGED <<slotVars, epochVars, workVars, retVars, recVars>>

\* mutant: any wakeup ends the wait, its predicate is not checked again
WaitForAnyWakeup ==
    /\ publisher = "waiting" /\ RetirementFree
    /\ publisher' = "idle"
    /\ UNCHANGED <<slotVars, epochVars, workVars, retVars, recVars,
                   snapshot_publication_pending>>

WaitUntilConverged ==
    /\ publisher = "waiting" /\ RetirementFree
    /\ last_converged_generation >= current_generation
    /\ publisher' = "idle"
    /\ UNCHANGED <<slotVars, epochVars, workVars, retVars, recVars,
                   snapshot_publication_pending>>

\* ReclaimerUnavailable, or a failure of A itself, after an irreversible
\* commit: A leaves through its fatal epilogue.
LeaveCommitted ==
    /\ publisher = "waiting"
    /\ publisher' = "exited"
    /\ UNCHANGED <<slotVars, epochVars, workVars, retVars, recVars,
                   snapshot_publication_pending>>

SealPublication ==
    /\ ~ publication_sealed /\ RetirementFree /\ PublicationFree
    /\ publication_sealed' = TRUE
    /\ reclaimer' = Notified
    /\ UNCHANGED <<active_snapshot, current_generation, epochVars, workVars,
                   retVars, scanVars, grace_expired, pubVars>>

\* By A when its queue is empty, or by the teardown owner once A is gone;
\* both seal first.
DetachTerminalSnapshot ==
    /\ publication_sealed /\ publisher \in {"idle", "exited"}
    /\ RetirementFree /\ PublicationFree
    /\ ~ terminal.pending /\ active_snapshot # 0
    /\ terminal' = NewRecord(active_snapshot)
    /\ active_snapshot' = 0
    /\ reclaimer' = Notified
    /\ publisher' = "exited"
    /\ UNCHANGED <<current_generation, publication_sealed, epochVars, workVars,
                   retired, retirement_credit_held, last_converged_generation,
                   reclaimer_shutdown_requested, scanVars, grace_expired,
                   snapshot_publication_pending>>

-----------------------------------------------------------------------------
(***************************************************************************)
(* B: run_reclaimer.  The retired record goes before the terminal one.     *)
(***************************************************************************)
Scanned == IF scan_terminal THEN terminal ELSE retired
Members(record) == {w \in Workers : record.cohort[w] # 0}

StartReclaimer ==
    /\ reclaimer = "new"
    /\ reclaimer' = "loop"
    /\ UNCHANGED <<slotVars, epochVars, workVars, retVars, scanVars,
                   grace_expired, pubVars>>

BeginScan ==
    /\ reclaimer = "loop"
    /\ retired.pending \/ terminal.pending
    /\ reclaimer' = "scan"
    /\ scan_terminal' = ~ retired.pending
    /\ scan_left' = Members(IF retired.pending THEN retired ELSE terminal)
    /\ scan_member' = {}
    /\ UNCHANGED <<slotVars, epochVars, workVars, retVars, grace_expired, pubVars>>

\* A member is not complete: B waits for progress, or the deadline passed
\* and B ends with GracePeriodStalled.  A deadline that wakes the wait
\* (GraceDeadline) leaves B one more scan.
Incomplete ==
    /\ reclaimer' \in IF grace_expired THEN {"exited"} ELSE {"wait", "exited"}
    /\ scan_terminal' = FALSE /\ scan_left' = {} /\ scan_member' = {}
    /\ grace_expired' = FALSE

Proceed(to) == reclaimer' = to /\ UNCHANGED <<scan_terminal, grace_expired>>

\* member_complete, load by load, without publication_mutex_
LoadQuiesced(w) ==
    /\ reclaimer = "scan" /\ w \in scan_left
    /\ IF quiesced_through_instance_id[w] >= Scanned.cohort[w]
       THEN /\ Proceed("scan")
            /\ scan_left' = scan_left \ {w} /\ UNCHANGED scan_member
       ELSE IF scan_terminal
            THEN Incomplete
            ELSE /\ Proceed("first")
                 /\ scan_left' = scan_left \ {w} /\ scan_member' = {w}
    /\ UNCHANGED <<slotVars, epochVars, workVars, retVars, pubVars>>

LoadInstance(at, next) ==
    /\ reclaimer = at
    /\ \E w \in scan_member :
          IF published_instance_id[w] = Scanned.cohort[w]
          THEN /\ Proceed(next) /\ UNCHANGED scan_left
               /\ scan_member' = IF next = "scan" THEN {} ELSE scan_member
          ELSE Incomplete
    /\ UNCHANGED <<slotVars, epochVars, workVars, retVars, pubVars>>

LoadFirst  == LoadInstance("first", "observed")
LoadSecond == LoadInstance("second", "scan")

LoadObserved ==
    /\ reclaimer = "observed"
    /\ \E w \in scan_member :
          IF observed_generation[w] >= Scanned.generation
          THEN Proceed("second") /\ UNCHANGED <<scan_left, scan_member>>
          ELSE Incomplete
    /\ UNCHANGED <<slotVars, epochVars, workVars, retVars, pubVars>>

GraceDeadline ==
    /\ reclaimer = "wait"
    /\ reclaimer' = "loop" /\ grace_expired' = TRUE
    /\ UNCHANGED <<slotVars, epochVars, workVars, retVars, scanVars, pubVars>>

CohortComplete == reclaimer = "scan" /\ scan_left = {}

\* Convergence is published before the destructor runs, the credit after.
\* An owner outside the protocol is a FatalExit that keeps the record.
BeginDestroy ==
    /\ CohortComplete
    /\ IF Scanned.owner # 0 /\ ~ SoleOwner(Scanned.owner)
       THEN /\ reclaimer' = "exited"
            /\ UNCHANGED <<retired, terminal, last_converged_generation>>
       ELSE /\ reclaimer' = "destroying"
            /\ IF scan_terminal
               THEN /\ terminal' = [terminal EXCEPT !.destroying = TRUE, !.owner = 0]
                    /\ UNCHANGED <<retired, last_converged_generation>>
               ELSE /\ retired' = [retired EXCEPT !.destroying = TRUE, !.owner = 0]
                    /\ last_converged_generation' = ConvergedWith(retired)
                    /\ UNCHANGED terminal
    /\ UNCHANGED <<slotVars, epochVars, workVars, retirement_credit_held,
                   reclaimer_shutdown_requested, scanVars, grace_expired,
                   pubVars>>

FinishDestroy ==
    /\ reclaimer = "destroying"
    /\ IF scan_terminal
       THEN terminal' = ClearedRecord /\ UNCHANGED <<retired, retirement_credit_held>>
       ELSE /\ retired' = ClearedRecord
            /\ retirement_credit_held' = FALSE
            /\ UNCHANGED terminal
    /\ reclaimer' = "loop"
    /\ scan_terminal' = FALSE /\ grace_expired' = FALSE
    /\ UNCHANGED <<slotVars, epochVars, workVars, last_converged_generation,
                   reclaimer_shutdown_requested, scan_left, scan_member, pubVars>>

\* nothing pending: leave if asked to, otherwise block until notified
AwaitRecord ==
    /\ reclaimer = "loop" /\ ~ retired.pending /\ ~ terminal.pending
    /\ reclaimer' = IF reclaimer_shutdown_requested THEN "exited" ELSE "idle"
    /\ UNCHANGED <<slotVars, epochVars, workVars, retVars, scanVars,
                   grace_expired, pubVars>>

\* an exception, or the failure the lifecycle tests request
ReclaimerFails ==
    /\ reclaimer \in {"loop", "wait", "idle"}
    /\ reclaimer' = "exited" /\ grace_expired' = FALSE
    /\ UNCHANGED <<slotVars, epochVars, workVars, retVars, scanVars, pubVars>>

ReclaimerStep ==
    \/ StartReclaimer \/ BeginScan \/ (\E w \in Workers : LoadQuiesced(w))
    \/ LoadFirst \/ LoadObserved \/ LoadSecond
    \/ BeginDestroy \/ FinishDestroy \/ AwaitRecord

-----------------------------------------------------------------------------
(***************************************************************************)
(* The teardown owner (DNS::finish_teardown), after every worker joined.   *)
(***************************************************************************)
AllJoined == \A w \in Workers : stage[w] = "offline"

RequestReclaimerShutdown ==
    /\ AllJoined /\ active_snapshot = 0 /\ RetirementFree
    /\ ~ reclaimer_shutdown_requested
    /\ reclaimer_shutdown_requested' = TRUE
    /\ reclaimer' = Notified
    /\ UNCHANGED <<slotVars, epochVars, workVars, retired, terminal,
                   retirement_credit_held, last_converged_generation, scanVars,
                   grace_expired, pubVars>>

MemberComplete(w, record, isTerminal) ==
    \/ quiesced_through_instance_id[w] >= record.cohort[w]
    \/ /\ ~ isTerminal
       /\ published_instance_id[w] = record.cohort[w]
       /\ observed_generation[w] >= record.generation

Reclaimable(record, isTerminal) ==
    record.pending =>
        /\ \A w \in Members(record) : MemberComplete(w, record, isTerminal)
        /\ record.owner = 0 \/ SoleOwner(record.owner)

\* emergency_reclaim_converged, once B is gone and publication is sealed
EmergencyReclaim ==
    /\ AllJoined /\ reclaimer \in {"none", "exited"} /\ publication_sealed
    /\ retired.pending \/ terminal.pending
    /\ Reclaimable(retired, FALSE) /\ Reclaimable(terminal, TRUE)
    /\ retired' = ClearedRecord /\ terminal' = ClearedRecord
    /\ retirement_credit_held' = (retirement_credit_held /\ ~ retired.pending)
    /\ last_converged_generation' = ConvergedWith(retired)
    /\ UNCHANGED <<slotVars, epochVars, workVars, reclaimer_shutdown_requested,
                   recVars, pubVars>>

\* ~FilterPublicationState: what it demands, or the process terminates
TornDown ==
    /\ AllJoined /\ publisher = "exited" /\ active_snapshot = 0
    /\ reclaimer \in {"none", "exited"}
    /\ ~ retired.pending /\ ~ terminal.pending
    /\ \A w \in Workers : ~ registry[w]

Destroyed == TornDown /\ UNCHANGED vars

-----------------------------------------------------------------------------
SlotStep(w) ==
    \/ RegisterWorker(w) \/ PublishInstance(w) \/ RegisterRefused(w)
    \/ MarkWorkerRegistered(w) \/ ReleaseDataPlane(w) \/ JoinAndReset(w)
    \/ QuiesceWorker(w)
    \/ RefreshSwap(w) \/ RefreshAcknowledge(w) \/ RefreshRefused(w)
    \/ PublishProgress(w)

PublisherStep ==
    \/ AcquireRetirementCredit \/ ReleaseUncommittedCredit \/ Commit
    \/ SnapshotPublished \/ WaitUntilConverged \/ LeaveCommitted

Next ==
    \/ \E w \in Workers : SlotStep(w)
    \/ PublisherStep
    \/ RequestFilterRefresh
    \/ ReclaimerStep \/ GraceDeadline \/ ReclaimerFails
    \/ SealPublication \/ DetachTerminalSnapshot
    \/ RequestReclaimerShutdown \/ EmergencyReclaim
    \/ Destroyed

Spec == Init /\ [][Next]_vars

(***************************************************************************)
(* Fairness.  Every thread keeps running, a held mutex is released, a      *)
(* builder returns and a stopped worker thread ends.  Nothing is assumed   *)
(* of restarts, of new updates, of failures or of the grace deadline.      *)
(***************************************************************************)
SlotFairness(w) ==
    /\ WF_vars(PublishInstance(w))
    /\ WF_vars(RefreshSwap(w)) /\ WF_vars(RefreshAcknowledge(w))
    /\ WF_vars(RefreshRefused(w)) /\ WF_vars(PublishProgress(w))
    /\ WF_vars(QuiesceWorker(w))
    /\ WF_vars(publication_sealed /\ JoinAndReset(w))

Fairness ==
    /\ WF_vars(ReclaimerStep)
    /\ \A w \in Workers : SlotFairness(w)
    /\ WF_vars(RequestFilterRefresh)
    /\ WF_vars(ReleaseUncommittedCredit) /\ WF_vars(SnapshotPublished)
    /\ WF_vars(WaitUntilConverged)
    /\ WF_vars(reclaimer = "exited" /\ LeaveCommitted)
    /\ WF_vars(DetachTerminalSnapshot) /\ WF_vars(RequestReclaimerShutdown)
    /\ WF_vars(EmergencyReclaim)

FairSpec == Spec /\ Fairness

-----------------------------------------------------------------------------
\* When B finds a cohort complete, no worker, no active slot and no other
\* record still owns that snapshot: the use_count() check of run_reclaimer
\* never fails, so B never leaves through its extra-owner FatalExit.
SafeReclaim ==
    CohortComplete => SoleOwner(Scanned.owner)

\* A worker that drops its local snapshot is never the last owner: the
\* active slot or a retirement record still owns it, so a filter tree is
\* never destroyed on a worker thread.
WorkerNeverLastOwner ==
    \A w \in Workers : local_snapshot[w] # 0 =>
        local_snapshot[w] \in {active_snapshot, retired.owner, terminal.owner}

\* Once wait_until_converged told A that an update converged, and until A
\* commits the next one, every worker that can filter a request does so with
\* the newest snapshot.
SuccessMeansVisible ==
    publisher \in {"idle", "credit"} =>
        \A w \in Workers : local_snapshot[w] \in {0, current_generation}

\* refresh_worker_snapshot refuses a live worker only after the terminal
\* detach: its generation checks never send a worker out with FatalExit.
NoSpuriousRefusal ==
    \A w \in Workers : stage[w] = "exited" => active_snapshot = 0

\* A thread in wait_until_converged always gets an answer: no interleaving of
\* acknowledgements, restarts and B's scan loses the wakeup.
CommittedUpdateAnswered == publisher = "waiting" ~> publisher # "waiting"

\* Once publication is sealed every owner is released and the state reaches
\* what ~FilterPublicationState demands, even when B failed on the way.
TeardownCompletes == publication_sealed ~> TornDown

\* What workers can see is a sequence of versions published one at a time.
Versions == INSTANCE FilterVersions WITH
    version   <- current_generation,
    view      <- local_snapshot,
    converged <- IF last_converged_generation = 0
                 THEN kInitialFilterGeneration ELSE last_converged_generation

\* The publication protocol implements FilterVersions: a worker only ever
\* moves to the newest version, and the next one is published only after
\* every worker left the one before.
ImplementsVersions == Versions!Spec

=============================================================================

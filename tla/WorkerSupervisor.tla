-------------------------- MODULE WorkerSupervisor --------------------------
(***************************************************************************)
(* WorkerSupervisor (src/WorkerSupervisor.cpp): thread C creates the       *)
(* worker threads, takes them through the ready, activation and data-plane *)
(* gates, replaces the ones that fail within a restart budget, and joins   *)
(* them all when the service stops or C itself gives up.                   *)
(*                                                                         *)
(* The clock is abstracted to what the code asks of it: whether a backoff  *)
(* or a stability window is over.  Filter refreshes at the gates belong to *)
(* FilterPublication; a worker may fail at any point.                      *)
(***************************************************************************)
EXTENDS Naturals

CONSTANTS
    Workers, NoWorker,
    Restart,                        \* the policy is Restart, not FailService
    max_attempts, initial_backoff, max_backoff,
    MaxInstance                     \* numeric_limits<uint64_t>::max()

ASSUME WorkersAssumption == Workers # {} /\ NoWorker \notin Workers
ASSUME RecoveryAssumption ==        \* is_valid_recovery_config
    /\ Restart \in BOOLEAN
    /\ max_attempts \in Nat \ {0}
    /\ initial_backoff \in Nat /\ max_backoff \in Nat /\ max_backoff >= initial_backoff
    /\ MaxInstance \in Nat \ {0}

VARIABLES
    \* per WorkerRecord
    instance_id, record_state, instance, stop_source,
    ready, activated, completion, activation_allowed, data_plane_allowed,
    recovery_episode, recovery_attempts, next_backoff, quiesced_through,
    backoff_over, window_over, completed_stable,    \* restart_at_, stable_at_, completed_at
    thread,                         \* the worker thread in WorkerLoop::run
    \* the supervisor
    stop_requested, activation_requested, data_plane_released,
    startup_result, activation_result, run_active, fatal_reported,
    C, todo, target,                \* C: where it is, records left, record at hand
    failure,                        \* C: the failure is InstanceIdExhausted
    stopping                        \* records request_stop's caller has left

gateVars     == <<ready, activated, completion, activation_allowed, data_plane_allowed>>
recoveryVars == <<recovery_episode, recovery_attempts, next_backoff>>
timeVars     == <<backoff_over, window_over, completed_stable>>
recordVars   == <<instance_id, record_state, instance, stop_source, quiesced_through>>
resultVars   == <<startup_result, activation_result, run_active, fatal_reported>>
commandVars  == <<stop_requested, activation_requested, data_plane_released, stopping>>
cVars        == <<C, todo, target>>
vars == <<gateVars, recoveryVars, timeVars, recordVars, thread, resultVars, commandVars, cVars, failure>>

RecordStates == {"Offline", "Creating", "Starting", "Ready", "Running", "Stopping",
                 "Exited", "Backoff"}
Threads == {"none", "init", "gate1", "gate2", "serving", "leaving", "exited"}

All(value) == [w \in Workers |-> value]

Init ==
    /\ instance_id = All(0) /\ record_state = All("Offline") /\ instance = All(FALSE)
    /\ stop_source = All(FALSE) /\ quiesced_through = All(0)
    /\ ready = All("none") /\ activated = All(FALSE) /\ completion = All(FALSE)
    /\ activation_allowed = All(FALSE) /\ data_plane_allowed = All(FALSE)
    /\ recovery_episode = All(FALSE) /\ recovery_attempts = All(0)
    /\ next_backoff = All(initial_backoff)
    /\ backoff_over = All(FALSE) /\ window_over = All(FALSE) /\ completed_stable = All(FALSE)
    /\ thread = All("none")
    /\ stop_requested = FALSE /\ activation_requested = FALSE /\ data_plane_released = FALSE
    /\ startup_result = "none" /\ activation_result = "none"
    /\ run_active = TRUE /\ fatal_reported = FALSE
    /\ C = "create" /\ todo = Workers /\ target = NoWorker /\ failure = FALSE
    /\ stopping = {}

Set(f, w, value) == [f EXCEPT ![w] = value]

LeastOf(a, b) == IF a < b THEN a ELSE b

doubled_backoff(current) ==
    IF current >= max_backoff - current THEN max_backoff ELSE current + current

-----------------------------------------------------------------------------
(* create_worker and start_worker_thread, at startup and for a replacement *)

Attempted(w) == recovery_attempts[w] + IF recovery_episode[w] THEN 1 ELSE 0

\* create_worker gets as far as WorkerLoop::create
NewInstance(w, created) ==
    /\ ~stop_requested
    /\ recovery_attempts' = Set(recovery_attempts, w, Attempted(w))
    /\ instance_id[w] < MaxInstance /\ ~instance[w] /\ thread[w] = "none"
    /\ instance_id' = Set(instance_id, w, instance_id[w] + 1)
    /\ stop_source' = Set(stop_source, w, FALSE)
    /\ ready' = Set(ready, w, "none") /\ activated' = Set(activated, w, FALSE)
    /\ completion' = Set(completion, w, FALSE)
    /\ activation_allowed' = Set(activation_allowed, w, FALSE)
    /\ data_plane_allowed' = Set(data_plane_allowed, w, FALSE)
    /\ instance' = Set(instance, w, created)
    /\ record_state' = Set(record_state, w, IF created THEN "Starting" ELSE "Creating")
    /\ UNCHANGED <<recovery_episode, next_backoff, timeVars, quiesced_through, thread, commandVars>>

\* the attempt is charged, but the instance numbers are used up
NoMoreInstances(w) ==
    /\ ~stop_requested /\ instance_id[w] = MaxInstance
    /\ recovery_attempts' = Set(recovery_attempts, w, Attempted(w))
    /\ UNCHANGED <<gateVars, recovery_episode, next_backoff, timeVars, recordVars, thread,
                   commandVars>>

Spawned(w) ==
    /\ ~stop_requested
    /\ thread' = Set(thread, w, "init")
    /\ UNCHANGED <<gateVars, recoveryVars, timeVars, recordVars, commandVars>>

-----------------------------------------------------------------------------
(* C at startup: run_impl, create_workers, start_worker_threads, *)
(* await_worker_readiness, await_activation_command_and_workers  *)

\* publish_startup and publish_activation: the first result stays
Publish(startup, activation) ==
    /\ startup_result' = IF startup_result = "none" THEN startup ELSE startup_result
    /\ activation_result' = IF activation_result = "none" THEN activation ELSE activation_result
    /\ UNCHANGED <<run_active, fatal_reported>>

\* mutant: nobody tells wait_for_activation
GiveUpSilently == Publish("error", "none") /\ C' = "stop" /\ todo' = Workers /\ target' = NoWorker

\* both waiters are told, and everything that was started is stopped
GiveUp == Publish("error", "error") /\ C' = "stop" /\ todo' = Workers /\ target' = NoWorker

Untouched == UNCHANGED <<gateVars, recoveryVars, timeVars, recordVars, thread, commandVars>>

CreateWorkers ==
    /\ C = "create"
    /\ \E w \in todo :
           \/ /\ NewInstance(w, TRUE)
              /\ C' = (IF todo = {w} THEN "spawn" ELSE "create")
              /\ todo' = (IF todo = {w} THEN Workers ELSE todo \ {w})
              /\ UNCHANGED <<target, resultVars>>
           \/ NewInstance(w, FALSE) /\ GiveUp

StartWorkerThreads ==
    /\ C = "spawn"
    /\ \E w \in todo :
           \/ /\ Spawned(w)
              /\ C' = (IF todo = {w} THEN "ready" ELSE "spawn")
              /\ todo' = todo \ {w}
              /\ UNCHANGED <<target, resultVars>>
           \/ Untouched /\ GiveUp

Promote(w, from, to) ==
    /\ record_state[w] = from
    /\ record_state' = Set(record_state, w, to)
    /\ UNCHANGED <<instance_id, instance, stop_source, quiesced_through>>

AwaitReadiness ==
    /\ C = "ready" /\ ~stop_requested
    /\ \/ /\ \E w \in Workers : ready[w] = "Ready" /\ Promote(w, "Starting", "Ready")
          /\ UNCHANGED <<gateVars, recoveryVars, timeVars, thread, commandVars, resultVars, cVars>>
       \/ /\ \E w \in Workers : ready[w] = "InitError"
          /\ Untouched /\ GiveUp
       \/ /\ \A w \in Workers : record_state[w] = "Ready"
          /\ Publish("ok", "none") /\ C' = "activate"
          /\ Untouched /\ UNCHANGED <<todo, target>>

AwaitActivation ==
    /\ C = "activate" /\ ~stop_requested
    /\ \/ /\ \E w \in Workers : completion[w] /\ Promote(w, record_state[w], "Exited")
          /\ GiveUp
          /\ UNCHANGED <<gateVars, recoveryVars, timeVars, thread, commandVars>>
       \/ /\ activation_requested /\ \A w \in Workers : ~completion[w]
          /\ \E w \in Workers : activated[w] /\ Promote(w, "Ready", "Running")
          /\ UNCHANGED <<gateVars, recoveryVars, timeVars, thread, commandVars, resultVars, cVars>>
       \/ /\ \A w \in Workers : ~completion[w] /\ record_state[w] = "Running"
          /\ Publish("none", "ok") /\ C' = "monitor"
          /\ Untouched /\ UNCHANGED <<todo, target>>

Cancelled ==
    /\ C \in {"create", "spawn", "ready", "activate"} /\ stop_requested
    /\ Untouched /\ GiveUp

\* An exception leaves run(): nobody joins the workers until emergency_join_all.
AbruptExit ==
    /\ C \in {"create", "spawn", "ready", "activate", "monitor"}
    /\ Publish("error", "error") /\ C' = "abrupt" /\ todo' = Workers
    /\ Untouched /\ UNCHANGED target

-----------------------------------------------------------------------------
(* C while the service runs: monitor_active_workers *)

StopSeen ==
    /\ C \in {"monitor", "respawn", "createfailed", "exhausted", "decide"} /\ stop_requested
    /\ C' = "stop" /\ todo' = Workers /\ target' = NoWorker
    /\ Untouched /\ UNCHANGED resultVars

Monitoring == C = "monitor" /\ ~stop_requested

\* request_filter_refresh fails for a worker: C returns FatalExit
RefreshRequestFails ==
    /\ Monitoring /\ \E w \in Workers : instance[w]
    /\ C' = "stop" /\ todo' = Workers
    /\ Untouched /\ UNCHANGED <<resultVars, target, failure>>

\* the first critical section of handle_worker_failure
Failing(w) ==
    LET stable == record_state[w] = "Running" /\ recovery_episode[w] /\ completed_stable[w]
        fresh  == stable \/ ~recovery_episode[w]
    IN  /\ recovery_episode' =
               Set(recovery_episode, w, IF fresh THEN data_plane_released ELSE TRUE)
        /\ recovery_attempts' = Set(recovery_attempts, w, IF stable THEN 0 ELSE recovery_attempts[w])
        /\ next_backoff' = Set(next_backoff, w, IF fresh THEN initial_backoff ELSE next_backoff[w])
        /\ Promote(w, record_state[w], IF completion[w] THEN "Exited" ELSE "Stopping")
        /\ C' = "failing" /\ target' = w
        /\ UNCHANGED <<todo, gateVars, timeVars, thread, commandVars, resultVars>>

WorkerFailed(w) ==
    /\ Monitoring
    /\ record_state[w] \in {"Starting", "Ready", "Running"}
    /\ completion[w] \/ ready[w] = "InitError"
    /\ Failing(w)

\* a replacement passes its gates
ReplacementReady(w) ==
    /\ Monitoring /\ ready[w] = "Ready" /\ ~completion[w]
    /\ Promote(w, "Starting", "Ready")
    /\ activation_allowed' = Set(activation_allowed, w, TRUE)
    /\ UNCHANGED <<ready, activated, completion, data_plane_allowed, recoveryVars, timeVars,
                   thread, commandVars, resultVars, cVars>>

ReplacementActivated(w) ==
    /\ Monitoring /\ activated[w] /\ ~completion[w]
    /\ Promote(w, "Ready", "Running")
    /\ data_plane_allowed' = Set(data_plane_allowed, w, TRUE)
    /\ window_over' = Set(window_over, w, FALSE)
    /\ UNCHANGED <<ready, activated, completion, activation_allowed, recoveryVars, backoff_over,
                   completed_stable, thread, commandVars, resultVars, cVars>>

\* Completion wins over stability.
Stabilised(w) ==
    /\ Monitoring /\ record_state[w] = "Running" /\ ~completion[w]
    /\ recovery_episode[w] /\ window_over[w]
    /\ recovery_episode' = Set(recovery_episode, w, FALSE)
    /\ recovery_attempts' = Set(recovery_attempts, w, 0)
    /\ next_backoff' = Set(next_backoff, w, initial_backoff)
    /\ UNCHANGED <<gateVars, timeVars, recordVars, thread, commandVars, resultVars, cVars>>

\* The backoff is over; a failed create goes through handle_worker_failure,
\* which charges nothing more than the attempt.
Recreate(w) ==
    /\ Monitoring /\ record_state[w] = "Backoff" /\ backoff_over[w]
    /\ \/ NewInstance(w, TRUE) /\ C' = "respawn"
       \/ NewInstance(w, FALSE) /\ C' = "createfailed"
       \/ NoMoreInstances(w) /\ C' = "exhausted"
    /\ target' = w
    /\ UNCHANGED <<todo, resultVars>>

Respawn ==
    /\ C = "respawn"
    /\ \/ Spawned(target) /\ C' = "monitor" /\ target' = NoWorker
       \/ ~stop_requested /\ Untouched /\ C' = "createfailed" /\ UNCHANGED target
    /\ UNCHANGED <<todo, resultVars>>

\* handle_worker_failure of a replacement that was not created or started
ReplacementFailed ==
    /\ C \in {"createfailed", "exhausted"} /\ ~stop_requested
    /\ failure' = (C = "exhausted")
    /\ Failing(target)

\* mutant: one attempt more than the budget
DecideOneTooMany ==
    /\ C = "decide" /\ ~stop_requested
    /\ data_plane_released /\ recovery_episode[target] /\ Restart /\ ~failure
    /\ recovery_attempts[target] <= max_attempts
    /\ Promote(target, "Offline", "Backoff")
    /\ backoff_over' = Set(backoff_over, target, FALSE)
    /\ next_backoff' = Set(next_backoff, target, doubled_backoff(next_backoff[target]))
    /\ C' = "monitor" /\ target' = NoWorker
    /\ UNCHANGED <<failure, todo, gateVars, recovery_episode, recovery_attempts, window_over,
                   completed_stable, thread, commandVars, resultVars>>

\* mutant: the record is not put into Backoff
DecideForgetsBackoff ==
    /\ C = "decide" /\ ~stop_requested
    /\ data_plane_released /\ recovery_episode[target] /\ Restart /\ ~failure
    /\ recovery_attempts[target] < max_attempts
    /\ Promote(target, "Offline", "Offline")
    /\ backoff_over' = Set(backoff_over, target, FALSE)
    /\ next_backoff' = Set(next_backoff, target, doubled_backoff(next_backoff[target]))
    /\ C' = "monitor" /\ target' = NoWorker
    /\ UNCHANGED <<failure, todo, gateVars, recovery_episode, recovery_attempts, window_over,
                   completed_stable, thread, commandVars, resultVars>>

DecideRestart ==
    /\ C = "decide" /\ ~stop_requested
    /\ data_plane_released /\ recovery_episode[target] /\ Restart /\ ~failure
    /\ recovery_attempts[target] < max_attempts
    /\ Promote(target, "Offline", "Backoff")
    /\ backoff_over' = Set(backoff_over, target, FALSE)
    /\ next_backoff' = Set(next_backoff, target, doubled_backoff(next_backoff[target]))
    /\ C' = "monitor" /\ target' = NoWorker
    /\ UNCHANGED <<failure, todo, gateVars, recovery_episode, recovery_attempts, window_over,
                   completed_stable, thread, commandVars, resultVars>>

\* fail_worker_service
DecideFailure ==
    /\ C = "decide" /\ ~stop_requested
    /\ ~ (data_plane_released /\ recovery_episode[target] /\ Restart /\ ~failure
          /\ recovery_attempts[target] < max_attempts)
    /\ fatal_reported' = (fatal_reported \/ data_plane_released)
    /\ C' = "stop" /\ todo' = Workers /\ target' = NoWorker
    /\ Untouched
    /\ UNCHANGED <<failure, startup_result, activation_result, run_active>>

-----------------------------------------------------------------------------
(* request_all_worker_stops, join_and_reset and the end of run *)

StopAll ==
    /\ C \in {"stop", "abrupt"}
    /\ \/ /\ \E w \in todo :
                 stop_source' = Set(stop_source, w, TRUE) /\ todo' = todo \ {w}
          /\ UNCHANGED <<C, run_active>>
       \/ /\ todo = {} /\ todo' = Workers
          /\ C' = (IF C = "stop" THEN "joinall" ELSE "done")
          /\ run_active' = (C = "stop")
          /\ UNCHANGED stop_source
    /\ UNCHANGED <<gateVars, recoveryVars, timeVars, instance_id, record_state, instance,
                   quiesced_through, thread, commandVars, startup_result, activation_result,
                   fatal_reported, target, failure>>

\* mutant: the epoch is quiesced before the join
JoinQuiescesFirst ==
    /\ \/ C = "failing" /\ C' = "joining" /\ UNCHANGED target
       \/ C = "joinall" /\ C' = "joinwait" /\ target' \in todo
    /\ quiesced_through' = Set(quiesced_through, target', instance_id[target'])
    /\ stop_source' = Set(stop_source, target', TRUE)
    /\ record_state' = IF thread[target'] = "none" \/ record_state[target'] = "Exited"
                       THEN record_state ELSE Set(record_state, target', "Stopping")
    /\ UNCHANGED <<gateVars, recoveryVars, timeVars, instance_id, instance,
                   thread, commandVars, resultVars, todo, failure>>

\* join_and_reset up to the join: C stops the instance and waits for it
JoinBegin ==
    /\ \/ C = "failing" /\ C' = "joining" /\ UNCHANGED target
       \/ C = "joinall" /\ C' = "joinwait" /\ target' \in todo
    /\ stop_source' = Set(stop_source, target', TRUE)
    /\ record_state' = IF thread[target'] = "none" \/ record_state[target'] = "Exited"
                       THEN record_state ELSE Set(record_state, target', "Stopping")
    /\ UNCHANGED <<gateVars, recoveryVars, timeVars, instance_id, instance, quiesced_through,
                   thread, commandVars, resultVars, todo, failure>>

\* and after it: the instance and its snapshot are released, then the epoch
\* is quiesced
Reset(w) ==
    /\ thread[w] \in {"none", "exited"}
    /\ thread' = Set(thread, w, "none")
    /\ instance' = Set(instance, w, FALSE)
    /\ quiesced_through' = Set(quiesced_through, w, instance_id[w])
    /\ record_state' = Set(record_state, w, "Offline")
    /\ activation_allowed' = Set(activation_allowed, w, FALSE)
    /\ data_plane_allowed' = Set(data_plane_allowed, w, FALSE)
    /\ UNCHANGED <<ready, activated, completion, recoveryVars, timeVars, instance_id, stop_source,
                   commandVars, startup_result, activation_result, fatal_reported, failure>>

JoinEnd ==
    /\ C \in {"joining", "joinwait"} /\ Reset(target)
    /\ \/ /\ C = "joining" /\ C' = "decide"
          /\ UNCHANGED <<todo, target, run_active>>
       \/ /\ C = "joinwait" /\ todo' = todo \ {target} /\ target' = NoWorker
          /\ C' = (IF todo = {target} THEN "done" ELSE "joinall")
          /\ run_active' = (todo # {target})

EmergencyJoin(w) ==
    /\ ~run_active /\ stop_requested /\ stopping = {}
    /\ instance[w] \/ thread[w] # "none" \/ quiesced_through[w] # instance_id[w]
    /\ Reset(w)
    /\ UNCHANGED <<cVars, run_active>>

\* A failed join proves nothing: C keeps the instance for emergency_join_all,
\* and in handle_worker_failure ends the service without joining anybody.
JoinFails ==
    /\ C \in {"joining", "joinwait"} /\ thread[target] # "none" /\ target' = NoWorker
    /\ \/ /\ C = "joining" /\ C' = "abrupt" /\ todo' = Workers
          /\ fatal_reported' = (fatal_reported \/ (data_plane_released /\ ~stop_requested))
          /\ UNCHANGED run_active
       \/ /\ C = "joinwait" /\ todo' = todo \ {target}
          /\ C' = (IF todo = {target} THEN "done" ELSE "joinall")
          /\ run_active' = (todo # {target})
          /\ UNCHANGED fatal_reported
    /\ Untouched /\ UNCHANGED <<startup_result, activation_result, failure>>

-----------------------------------------------------------------------------
(* The commands of DNS::start and request_stop *)

RequestActivation ==
    /\ ~stop_requested /\ ~activation_requested /\ activation_result = "none"
    /\ run_active /\ startup_result = "ok"
    /\ activation_requested' = TRUE
    /\ activation_allowed' = All(TRUE)
    /\ UNCHANGED <<ready, activated, completion, data_plane_allowed, recoveryVars, timeVars,
                   recordVars, thread, resultVars, stop_requested, data_plane_released, stopping,
                   cVars, failure>>

ReleaseDataPlane ==
    /\ ~stop_requested /\ ~data_plane_released /\ run_active /\ activation_result = "ok"
    /\ \A w \in Workers : record_state[w] = "Running" /\ ~completion[w]
    /\ data_plane_released' = TRUE
    /\ data_plane_allowed' = All(TRUE)
    /\ UNCHANGED <<ready, activated, completion, activation_allowed, recoveryVars, timeVars,
                   recordVars, thread, resultVars, stop_requested, activation_requested, stopping,
                   cVars, failure>>

RequestStop ==
    /\ ~stop_requested /\ stop_requested' = TRUE /\ stopping' = Workers
    /\ UNCHANGED <<gateVars, recoveryVars, timeVars, recordVars, thread, resultVars,
                   activation_requested, data_plane_released, cVars, failure>>

StopWorker(w) ==
    /\ w \in stopping /\ stopping' = stopping \ {w}
    /\ stop_source' = Set(stop_source, w, TRUE)
    /\ UNCHANGED <<gateVars, recoveryVars, timeVars, instance_id, record_state, instance,
                   quiesced_through, thread, resultVars, stop_requested, activation_requested,
                   data_plane_released, cVars, failure>>

-----------------------------------------------------------------------------
(* A worker thread: worker_entry, WorkerLoop::run and its observer's gates *)

Others(w) == UNCHANGED <<activation_allowed, data_plane_allowed, recoveryVars, backoff_over,
                         window_over, recordVars, resultVars, commandVars, cVars, failure>>

Moves(w, from, to) == thread[w] = from /\ thread' = Set(thread, w, to)

ReportReady(w) ==
    /\ \/ Moves(w, "init", "gate1") /\ ready' = Set(ready, w, "Ready")
       \/ Moves(w, "init", "leaving") /\ ready' = Set(ready, w, "InitError")
    /\ UNCHANGED <<activated, completion, completed_stable>> /\ Others(w)

\* mutant: a stop does not open the activation gate
GateIgnoresStop(w) ==
    /\ \/ /\ Moves(w, "gate1", "gate2")
          /\ activation_allowed[w] /\ ~stop_requested /\ ~stop_source[w]
          /\ activated' = Set(activated, w, TRUE)
       \/ /\ Moves(w, "gate1", "leaving")
          /\ FALSE
          /\ UNCHANGED activated
    /\ UNCHANGED <<ready, completion, completed_stable>> /\ Others(w)

AwaitWorkerActivation(w) ==
    /\ \/ /\ Moves(w, "gate1", "gate2")
          /\ activation_allowed[w] /\ ~stop_requested /\ ~stop_source[w]
          /\ activated' = Set(activated, w, TRUE)
       \/ /\ Moves(w, "gate1", "leaving")
          /\ stop_requested \/ stop_source[w]
          /\ UNCHANGED activated
    /\ UNCHANGED <<ready, completion, completed_stable>> /\ Others(w)

\* mutant: the second gate looks at the first one
ServesOnceActivated(w) ==
    /\ \/ Moves(w, "gate2", "serving") /\ activation_allowed[w] /\ ~stop_requested /\ ~stop_source[w]
       \/ Moves(w, "gate2", "leaving") /\ (stop_requested \/ stop_source[w])
    /\ UNCHANGED <<ready, activated, completion, completed_stable>> /\ Others(w)

AwaitWorkerDataPlane(w) ==
    /\ \/ Moves(w, "gate2", "serving") /\ data_plane_allowed[w] /\ ~stop_requested /\ ~stop_source[w]
       \/ Moves(w, "gate2", "leaving") /\ (stop_requested \/ stop_source[w])
    /\ UNCHANGED <<ready, activated, completion, completed_stable>> /\ Others(w)

\* the event loop ends: it was asked to stop
StopServing(w) ==
    /\ Moves(w, "serving", "leaving") /\ stop_source[w]
    /\ UNCHANGED <<ready, activated, completion, completed_stable>> /\ Others(w)

\* a fatal exit at any point after it was ready
WorkerFails(w) ==
    /\ thread[w] \in {"gate1", "gate2", "serving"} /\ Moves(w, thread[w], "leaving")
    /\ UNCHANGED <<ready, activated, completion, completed_stable>> /\ Others(w)

ReportCompletion(w) ==
    /\ Moves(w, "leaving", "exited")
    /\ completion' = Set(completion, w, TRUE)
    /\ completed_stable' = Set(completed_stable, w, window_over[w])
    /\ UNCHANGED <<ready, activated>> /\ Others(w)

TimePasses(w) ==
    /\ \/ record_state[w] = "Backoff" /\ ~backoff_over[w]
          /\ backoff_over' = Set(backoff_over, w, TRUE) /\ UNCHANGED window_over
       \/ record_state[w] = "Running" /\ recovery_episode[w] /\ ~window_over[w]
          /\ window_over' = Set(window_over, w, TRUE) /\ UNCHANGED backoff_over
    /\ UNCHANGED <<gateVars, recoveryVars, completed_stable, recordVars, thread, resultVars,
                   commandVars, cVars, failure>>

-----------------------------------------------------------------------------

Terminated ==
    /\ ~run_active /\ stop_requested /\ stopping = {}
    /\ \A w \in Workers : thread[w] = "none"
    /\ UNCHANGED vars

MonitorStep(w) ==
    /\ \/ WorkerFailed(w) \/ ReplacementReady(w) \/ ReplacementActivated(w)
       \/ Stabilised(w) \/ Recreate(w)
    /\ UNCHANGED failure

CStep ==
    \/ /\ \/ CreateWorkers \/ StartWorkerThreads \/ AwaitReadiness \/ AwaitActivation \/ Cancelled
          \/ StopSeen \/ Respawn
       /\ UNCHANGED failure
    \/ \E w \in Workers : MonitorStep(w)
    \/ ReplacementFailed \/ DecideRestart \/ DecideFailure
    \/ StopAll \/ JoinBegin \/ JoinEnd

WorkerStep(w) ==
    \/ ReportReady(w) \/ AwaitWorkerActivation(w) \/ AwaitWorkerDataPlane(w) \/ StopServing(w)
    \/ ReportCompletion(w)

Next ==
    \/ CStep \/ (AbruptExit /\ UNCHANGED failure) \/ RefreshRequestFails \/ JoinFails
    \/ RequestActivation \/ ReleaseDataPlane \/ RequestStop
    \/ \E w \in Workers : \/ WorkerStep(w) \/ WorkerFails(w) \/ TimePasses(w)
                          \/ StopWorker(w) \/ EmergencyJoin(w)
    \/ Terminated

Spec == Init /\ [][Next]_vars

\* C, the workers and the clock move on; DNS stops the service once C is gone
\* and its teardown finishes what it began.
Fairness ==
    /\ WF_vars(CStep)
    /\ WF_vars(RequestStop /\ ~run_active)
    /\ \A w \in Workers : /\ WF_vars(WorkerStep(w)) /\ WF_vars(TimePasses(w))
                          /\ WF_vars(StopWorker(w)) /\ WF_vars(EmergencyJoin(w))

FairSpec == Spec /\ Fairness

-----------------------------------------------------------------------------
(* Properties *)

\* Every variable holds a value its C++ type allows; no instance number wraps.
TypeOK ==
    /\ instance_id \in [Workers -> 0 .. MaxInstance]
    /\ quiesced_through \in [Workers -> 0 .. MaxInstance]
    /\ record_state \in [Workers -> RecordStates] /\ thread \in [Workers -> Threads]
    /\ ready \in [Workers -> {"none", "Ready", "InitError"}]
    /\ \A f \in {instance, stop_source, activated, completion, activation_allowed,
                 data_plane_allowed, recovery_episode, backoff_over, window_over,
                 completed_stable} : f \in [Workers -> BOOLEAN]
    /\ recovery_attempts \in [Workers -> Nat] /\ next_backoff \in [Workers -> Nat]
    /\ \A b \in {stop_requested, activation_requested, data_plane_released, run_active,
                 fatal_reported, failure} : b \in BOOLEAN
    /\ startup_result \in {"none", "ok", "error"} /\ activation_result \in {"none", "ok", "error"}
    /\ C \in {"create", "spawn", "ready", "activate", "monitor", "respawn", "createfailed",
              "exhausted", "failing", "joining", "decide", "stop", "abrupt", "joinall",
              "joinwait", "done"}
    /\ todo \subseteq Workers /\ target \in Workers \cup {NoWorker}
    /\ stopping \subseteq Workers

\* quiesced_through_instance_id_ is a proof that nobody uses the instance: once
\* it reaches the current instance, thread and WorkerLoop are gone for good.
\* Thread B destroys snapshots on the strength of it.
QuiescedMeansGone ==
    \A w \in Workers :
        quiesced_through[w] = instance_id[w] => thread[w] = "none" /\ ~instance[w]

\* No worker serves a client before every worker of the first generation was
\* activated and DNS released the data plane, nor on a record C gave up.
ServesOnlyWhenReleased ==
    \A w \in Workers :
        thread[w] = "serving" => /\ data_plane_released /\ activation_result = "ok"
                                 /\ activated[w] /\ instance[w]
                                 /\ record_state[w] \in {"Running", "Stopping"}

\* initial_backoff doubled k times
Doubled(k) ==
    LET delay[n \in 0 .. k] == IF n = 0 THEN initial_backoff ELSE 2 * delay[n - 1]
    IN  delay[k]

\* The restart budget holds through create failures, failed starts, early exits
\* and stable periods; while C lets a backoff run there is an attempt left, and the next
\* delay is the initial one doubled for every attempt made.  A worker that exited
\* before the end of its stability window keeps its attempts, however late C looks
\* at it.
RestartBudget ==
    /\ [](\A w \in Workers :
             /\ recovery_attempts[w] <= max_attempts
             /\ C = "monitor" /\ record_state[w] = "Backoff" =>
                   /\ Restart /\ recovery_attempts[w] < max_attempts
                   /\ next_backoff[w] = LeastOf(Doubled(recovery_attempts[w] + 1), max_backoff))
    /\ [][\A w \in Workers :
             recovery_attempts[w] > 0 /\ recovery_attempts'[w] = 0 =>
                 IF completion[w] THEN completed_stable[w] ELSE window_over[w]]_vars

\* Nobody waits for a supervisor that is gone: when run returns or throws, both
\* wait_for_startup and wait_for_activation have an answer.
WaitersAreAnswered == ~run_active => startup_result # "none" /\ activation_result # "none"

\* A stop reaches every worker, also one that C is just replacing or one that an
\* exception in C left behind.
StopCompletes ==
    stop_requested ~> /\ ~run_active
                      /\ \A w \in Workers : thread[w] = "none" /\ ~instance[w]

\* A failed worker is replaced by one that runs, or the service ends; it is
\* never just missing.
FailureIsResolved ==
    \A w \in Workers :
        data_plane_released /\ completion[w] ~>
            (record_state[w] = "Running" /\ ~completion[w]) \/ ~run_active

=============================================================================

---------------------------- MODULE DNSLifecycle ----------------------------
(***************************************************************************)
(* The service object DNS (src/DNS.cpp): init, start, request_stop, join   *)
(* and wait, called by any number of threads, around the control threads   *)
(*   A  FilterUpdateController::run    (coordinator_main)                  *)
(*   B  run_reclaimer                  (reclaimer_main)                    *)
(*   C  WorkerSupervisor::run          (supervisor_main)                   *)
(*                                                                         *)
(* A section under lifecycle_mutex_ is one step.  start and                *)
(* finish_teardown run under startup_mutex_, so one position `at` serves   *)
(* whoever holds it; join_mutex_ adds nothing to that.  Of the publication *)
(* only what a teardown can wait for is kept: an update A waits for, the   *)
(* record B has to reclaim, and the terminal record.                       *)
(***************************************************************************)
EXTENDS Naturals, Sequences

CONSTANTS
    Callers, NoCaller,
    Program,            \* the calls each caller makes, in order
    MaxJoinFailures     \* joins that fail, over the whole life of the service

Calls == {"init", "start", "request_stop", "join", "wait"}
Roles == {"A", "B", "C"}

ASSUME CallersAssumption == NoCaller \notin Callers
ASSUME ProgramAssumption ==
    /\ DOMAIN Program = Callers
    /\ \A p \in Callers : \A i \in 1 .. Len(Program[p]) : Program[p][i] \in Calls
ASSUME FailuresAssumption == MaxJoinFailures \in Nat

VARIABLES
    \* under lifecycle_mutex_
    state, stop_cause, startup_error, init_in_progress, startup_stop, update_admission_open,
    health, owners, supervisor, runtime_updates_enabled,
    \* the control threads, and what they told ControlPlaneState
    thread, ready, result,
    \* commands to the threads
    supervisor_stop, sealed, terminal_detach_requested, shutdown_requested,
    activation_requested, activation_result, data_plane_released,
    \* the publication, as far as a thread can wait for it
    update, retired, terminal, detached,
    \* the callers
    calls, stage, returned,
    startup_owner, at, error, join_failures

lifeVars    == <<state, stop_cause, startup_error, startup_stop, update_admission_open, health>>
ownVars     == <<init_in_progress, owners, supervisor, runtime_updates_enabled>>
threadVars  == <<thread, ready, result>>
commandVars == <<supervisor_stop, sealed, terminal_detach_requested, shutdown_requested,
                 activation_requested, activation_result, data_plane_released>>
pubVars     == <<update, retired, terminal, detached>>
callVars    == <<calls, stage, returned>>
placeVars   == <<startup_owner, at, error, join_failures>>
vars == <<lifeVars, ownVars, threadVars, commandVars, pubVars, callVars, placeVars>>

\* where finish_teardown has nothing to do
AtRest == {"Empty", "Initialized", "Stopped", "Failed"}

\* a thread that still runs its main function, and so uses the objects DNS owns
Live == {"created", "running", "fatal", "returned", "ended", "stopping"}

Init ==
    /\ state = "Empty" /\ stop_cause = "None" /\ startup_error = "None"
    /\ init_in_progress = FALSE /\ startup_stop = FALSE /\ update_admission_open = FALSE
    /\ health = "Unavailable" /\ owners = FALSE /\ supervisor = FALSE
    /\ runtime_updates_enabled \in BOOLEAN
    /\ thread = [r \in Roles |-> "none"]
    /\ ready = [r \in Roles |-> "none"] /\ result = [r \in Roles |-> FALSE]
    /\ supervisor_stop = FALSE /\ sealed = FALSE /\ terminal_detach_requested = FALSE
    /\ shutdown_requested = FALSE /\ activation_requested = FALSE /\ activation_result = "none"
    /\ data_plane_released = FALSE
    /\ update = "none" /\ retired = FALSE /\ terminal = FALSE /\ detached = FALSE
    /\ calls = Program /\ stage = [p \in Callers |-> "idle"]
    /\ returned = [p \in Callers |-> "none"]
    /\ startup_owner = NoCaller /\ at = "none" /\ error = "None" /\ join_failures = 0

-----------------------------------------------------------------------------
(* What several callers share *)

\* exit_result_locked
ExitCode == CASE stop_cause = "Explicit" -> "ExplicitStop"
              [] stop_cause = "StartupFailure" -> "StartupFailure"
              [] stop_cause = "Fatal" -> "Fatal"
              [] OTHER -> "NotStarted"

Calling(p, call) == calls[p] # <<>> /\ Head(calls[p]) = call

\* p's call is over; a join or wait that is told TeardownIncomplete is repeated
Return(p, code) ==
    /\ returned' = [returned EXCEPT ![p] = code]
    /\ stage' = [stage EXCEPT ![p] = "idle"]
    /\ calls' = IF code = "TeardownIncomplete" THEN calls ELSE [calls EXCEPT ![p] = Tail(@)]

Moves(p, from, to) == stage[p] = from /\ stage' = [stage EXCEPT ![p] = to]

\* the holder of startup_mutex_ goes on
Goes(from, to) == at = from /\ at' = to

\* request_runtime_stop, one critical section
RuntimeStop ==
    /\ startup_stop' = TRUE
    /\ update_admission_open' = FALSE
    /\ sealed' = (sealed \/ owners)
    /\ supervisor_stop' = (supervisor_stop \/ supervisor)
    /\ UNCHANGED <<state, stop_cause, startup_error, health, terminal_detach_requested,
                   shutdown_requested, activation_requested, activation_result, data_plane_released>>

\* mutant: the last cause wins
StoppingOverwrites(cause, why) ==
    /\ stop_cause' = cause
    /\ startup_error' = IF stop_cause = "None" THEN why ELSE startup_error
    /\ state' = IF state \in {"Starting", "Active"} THEN "Stopping" ELSE state
    /\ startup_stop' = TRUE

\* the state change that precedes it, for the first cause only
Stopping(cause, why) ==
    /\ stop_cause' = IF stop_cause = "None" THEN cause ELSE stop_cause
    /\ startup_error' = IF stop_cause = "None" THEN why ELSE startup_error
    /\ state' = IF state \in {"Starting", "Active"} THEN "Stopping" ELSE state
    /\ startup_stop' = TRUE

-----------------------------------------------------------------------------
(* init, request_stop, and the way into join and wait *)

InitBegin(p) ==
    /\ Moves(p, "idle", "init") /\ Calling(p, "init")
    /\ state = "Empty" /\ ~init_in_progress
    /\ init_in_progress' = TRUE
    /\ UNCHANGED <<lifeVars, owners, supervisor, runtime_updates_enabled, threadVars, commandVars,
                   pubVars, calls, returned, placeVars>>

InitEnd(p) ==
    /\ stage[p] = "init"
    /\ init_in_progress' = FALSE
    /\ \/ /\ Return(p, "ok")
          /\ owners' = TRUE /\ state' = "Initialized"
       \/ /\ Return(p, "error")
          /\ UNCHANGED <<owners, state>>
    /\ UNCHANGED <<stop_cause, startup_error, startup_stop, update_admission_open, health,
                   supervisor, runtime_updates_enabled, threadVars, commandVars, pubVars, placeVars>>

InitRefused(p) ==
    /\ stage[p] = "idle" /\ Calling(p, "init")
    /\ state # "Empty" \/ init_in_progress
    /\ Return(p, "error")
    /\ UNCHANGED <<lifeVars, ownVars, threadVars, commandVars, pubVars, placeVars>>

\* the section of request_stop, which join calls too
RequestStop(p) ==
    /\ stage[p] = "idle"
    /\ Calling(p, "request_stop") \/ Calling(p, "join")
    /\ LET go(next) == IF next = "lock" /\ Calling(p, "request_stop") THEN Return(p, "ok")
                       ELSE Moves(p, "idle", next) /\ UNCHANGED <<calls, returned>>
       IN  \/ /\ state \in {"Empty", "Stopped", "Failed"}
              /\ go("lock") /\ UNCHANGED <<lifeVars, owners>>
           \/ /\ state = "Initialized"
              /\ stop_cause' = "Explicit" /\ state' = "Stopped"
              /\ update_admission_open' = FALSE /\ health' = "Unavailable" /\ owners' = FALSE
              /\ go("lock") /\ UNCHANGED <<startup_error, startup_stop>>
           \/ /\ state \in {"Starting", "Active", "Stopping"}
              /\ Stopping("Explicit", "None")
              /\ update_admission_open' = FALSE /\ health' = "Unavailable"
              /\ go("stop") /\ UNCHANGED owners
    /\ UNCHANGED <<init_in_progress, supervisor, runtime_updates_enabled, threadVars, commandVars,
                   pubVars, placeVars>>

StopRuntime(p) ==
    /\ stage[p] = "stop" /\ RuntimeStop
    /\ IF Calling(p, "request_stop") THEN Return(p, "ok")
       ELSE Moves(p, "stop", "lock") /\ UNCHANGED <<calls, returned>>
    /\ UNCHANGED <<ownVars, threadVars, pubVars, placeVars>>

\* wait: the predicate, then startup_mutex_
Wait(p) ==
    /\ stage[p] = "idle" /\ Calling(p, "wait")
    /\ \/ state = "Empty" /\ Return(p, ExitCode)
       \/ /\ state \in {"Initialized", "Stopping", "Stopped", "Failed"}
          /\ Moves(p, "idle", "lock") /\ UNCHANGED <<calls, returned>>
    /\ UNCHANGED <<lifeVars, ownVars, threadVars, commandVars, pubVars, placeVars>>

\* join, wait: startup_mutex_ is taken and finish_teardown entered
LockForTeardown(p) ==
    /\ startup_owner = NoCaller /\ Moves(p, "lock", "owner")
    /\ startup_owner' = p /\ at' = "enter"
    /\ UNCHANGED <<lifeVars, ownVars, threadVars, commandVars, pubVars, calls, returned, error,
                   join_failures>>

-----------------------------------------------------------------------------
(* start, by the holder of startup_mutex_ *)

\* what a step of start leaves alone unless it says otherwise
StartKeeps == UNCHANGED <<pubVars, callVars, startup_owner, join_failures, init_in_progress,
                          runtime_updates_enabled>>

Start(p) ==
    /\ startup_owner = NoCaller /\ Calling(p, "start") /\ Moves(p, "idle", "owner")
    /\ state = "Initialized" /\ owners
    /\ state' = "Starting" /\ stop_cause' = "None" /\ startup_error' = "None"
    /\ update_admission_open' = FALSE /\ startup_stop' = FALSE /\ health' = "Unavailable"
    /\ ready' = [r \in Roles |-> "none"] /\ result' = [r \in Roles |-> FALSE]
    /\ startup_owner' = p /\ at' = "supervisor"
    /\ UNCHANGED <<ownVars, thread, commandVars, pubVars, calls, returned, error, join_failures>>

StartRefused(p) ==
    /\ startup_owner = NoCaller /\ stage[p] = "idle" /\ Calling(p, "start")
    /\ state # "Initialized" \/ ~owners
    /\ Return(p, "error")
    /\ UNCHANGED <<lifeVars, ownVars, threadVars, commandVars, pubVars, placeVars>>

\* start goes on at `to`, or fails with `why`
Succeeds(from, to) == Goes(from, to) /\ UNCHANGED error
FailsStart(from, why) == Goes(from, "fail") /\ error' = why

CreateSupervisor ==
    /\ \/ /\ Succeeds("supervisor", IF runtime_updates_enabled THEN "B" ELSE "C")
          /\ supervisor' = TRUE
       \/ FailsStart("supervisor", "InitFailed") /\ UNCHANGED supervisor
    /\ StartKeeps /\ UNCHANGED <<lifeVars, owners, threadVars, commandVars>>

AfterCreating(r) == CASE r = "B" -> "A"
                      [] r = "A" -> "C"
                      [] r = "C" -> IF runtime_updates_enabled THEN "readyB" ELSE "startup"

CreateThread(r) ==
    /\ \/ Succeeds(r, AfterCreating(r)) /\ thread' = [thread EXCEPT ![r] = "created"]
       \/ FailsStart(r, "InitFailed") /\ UNCHANGED thread
    /\ StartKeeps /\ UNCHANGED <<lifeVars, owners, supervisor, ready, result, commandVars>>

AwaitReady(r, here, next) ==
    /\ ready[r] # "none" \/ result[r] \/ startup_stop
    /\ \/ ready[r] = "ok" /\ ~result[r] /\ Succeeds(here, next)
       \/ ready[r] = "ok" /\ result[r] /\ FailsStart(here, "InitFailed")
       \/ /\ ready[r] # "ok"
          /\ FailsStart(here, IF startup_stop THEN "Cancelled" ELSE "InitFailed")
    /\ StartKeeps /\ UNCHANGED <<lifeVars, owners, supervisor, threadVars, commandVars>>

\* wait_for_startup, wait_for_activation: the predicate wins over the stop token
AwaitSupervisor(here, outcome, next) ==
    /\ \/ outcome = "ok" /\ Succeeds(here, next)
       \/ outcome \in {"InitFailed", "Cancelled"} /\ FailsStart(here, outcome)
       \/ outcome = "none" /\ startup_stop /\ FailsStart(here, "Cancelled")
    /\ StartKeeps /\ UNCHANGED <<lifeVars, owners, supervisor, threadVars, commandVars>>

\* stop_requested_locked of the supervisor: its own flag, or the service's stop token
SupervisorStopRequested == supervisor_stop \/ startup_stop

RequestActivation ==
    /\ IF /\ state = "Starting" /\ stop_cause = "None"
          /\ ~SupervisorStopRequested /\ activation_result = "none" /\ thread["C"] = "running"
       THEN activation_requested' = TRUE /\ Succeeds("activation", "activated")
       ELSE FailsStart("activation", "Cancelled") /\ UNCHANGED activation_requested
    /\ StartKeeps
    /\ UNCHANGED <<lifeVars, owners, supervisor, threadVars, supervisor_stop, sealed,
                   terminal_detach_requested, shutdown_requested, activation_result,
                   data_plane_released>>

RoleEnded == runtime_updates_enabled /\ (result["A"] \/ result["B"])

CommitAllowed == state = "Starting" /\ stop_cause = "None" /\ ~SupervisorStopRequested

\* mutant: the workers are let go before the roles are checked
CommitReleasesFirst ==
    /\ at = "commit"
    /\ \/ /\ ~RoleEnded /\ CommitAllowed /\ thread["C"] = "running"
          /\ state' = "Active" /\ health' = "Healthy" /\ data_plane_released' = TRUE
          /\ update_admission_open' = runtime_updates_enabled
          /\ Return(startup_owner, "ok")
          /\ startup_owner' = NoCaller /\ at' = "none" /\ UNCHANGED error
       \/ /\ \/ /\ RoleEnded \/ CommitAllowed     \* in the second case a worker has exited
                /\ FailsStart("commit", "InitFailed")
             \/ /\ ~RoleEnded /\ ~CommitAllowed
                /\ FailsStart("commit", "Cancelled")
          /\ data_plane_released' = TRUE
          /\ UNCHANGED <<state, health, update_admission_open, callVars,
                         startup_owner>>
    /\ UNCHANGED <<stop_cause, startup_error, startup_stop, ownVars, threadVars, supervisor_stop,
                   sealed, terminal_detach_requested, shutdown_requested, activation_requested,
                   activation_result, pubVars, join_failures>>

\* commit_startup, under lifecycle_mutex_ and the control plane's mutex: the roles are
\* checked, Active is set and the workers are let go in one section
CommitStartup ==
    /\ at = "commit"
    /\ \/ /\ ~RoleEnded /\ CommitAllowed /\ thread["C"] = "running"
          /\ state' = "Active" /\ health' = "Healthy" /\ data_plane_released' = TRUE
          /\ update_admission_open' = runtime_updates_enabled
          /\ Return(startup_owner, "ok")
          /\ startup_owner' = NoCaller /\ at' = "none" /\ UNCHANGED error
       \/ /\ \/ /\ RoleEnded \/ CommitAllowed     \* in the second case a worker has exited
                /\ FailsStart("commit", "InitFailed")
             \/ /\ ~RoleEnded /\ ~CommitAllowed
                /\ FailsStart("commit", "Cancelled")
          /\ UNCHANGED <<state, health, data_plane_released, update_admission_open, callVars,
                         startup_owner>>
    /\ UNCHANGED <<stop_cause, startup_error, startup_stop, ownVars, threadVars, supervisor_stop,
                   sealed, terminal_detach_requested, shutdown_requested, activation_requested,
                   activation_result, pubVars, join_failures>>

\* fail_start, up to request_runtime_stop
FailStart ==
    /\ Goes("fail", "failstop")
    /\ Stopping("StartupFailure", error)
    /\ update_admission_open' = FALSE /\ health' = "Unavailable"
    /\ StartKeeps /\ UNCHANGED <<owners, supervisor, threadVars, commandVars, error>>

FailStartStop ==
    /\ Goes("failstop", "enter") /\ RuntimeStop
    /\ StartKeeps /\ UNCHANGED <<owners, supervisor, threadVars, error>>

\* fail_start's answer, once finish_teardown has returned
FailStartReturn ==
    /\ Goes("failed", "none")
    /\ Return(startup_owner, IF stop_cause = "Explicit" THEN "Cancelled"
                             ELSE IF startup_error # "None" THEN startup_error ELSE error)
    /\ startup_owner' = NoCaller
    /\ UNCHANGED <<lifeVars, ownVars, threadVars, commandVars, pubVars, error, join_failures>>

StartStep ==
    \/ CreateSupervisor
    \/ \E r \in Roles : CreateThread(r)
    \/ AwaitReady("B", "readyB", "readyA")
    \/ AwaitReady("A", "readyA", "startup")
    \/ AwaitSupervisor("startup", ready["C"], "activation")
    \/ RequestActivation
    \/ AwaitSupervisor("activated", activation_result, "commit")
    \/ CommitStartup
    \/ FailStart
    \/ FailStartStop
    \/ FailStartReturn

-----------------------------------------------------------------------------
(* finish_teardown, by the holder of startup_mutex_ *)

TeardownKeeps == UNCHANGED <<init_in_progress, runtime_updates_enabled, error>>

\* what only its last step and teardown_incomplete change
LifeKept == UNCHANGED <<lifeVars, owners, supervisor, callVars, startup_owner, join_failures>>

\* finish_teardown returns: to fail_start, or to the caller of join or wait
Finish(code) ==
    IF Calling(startup_owner, "start")
    THEN at' = "failed" /\ UNCHANGED <<startup_owner, callVars>>
    ELSE at' = "none" /\ startup_owner' = NoCaller /\ Return(startup_owner, code)

TeardownNotNeeded ==
    /\ at = "enter" /\ state \in AtRest
    /\ Finish(ExitCode)
    /\ TeardownKeeps /\ UNCHANGED <<lifeVars, owners, supervisor, threadVars, commandVars, pubVars,
                                    join_failures>>

TeardownStop ==
    /\ Goes("enter", "joinC") /\ state \notin AtRest /\ RuntimeStop
    /\ TeardownKeeps
    /\ UNCHANGED <<owners, supervisor, threadVars, pubVars, callVars, startup_owner, join_failures>>

\* a jthread that is not there is not joined
Joined(r) == thread[r] \in {"none", "exited"} /\ thread' = [thread EXCEPT ![r] = "none"]

JoinSupervisor ==
    /\ Goes("joinC", "drain") /\ Joined("C")
    /\ TeardownKeeps /\ LifeKept /\ UNCHANGED <<ready, result, commandVars, pubVars>>

\* emergency_join_all: the last workers are joined, and with them every cohort converges
DrainWorkers ==
    /\ Goes("drain", IF result["B"] THEN "joinB1" ELSE "detach")
    /\ TeardownKeeps /\ LifeKept /\ UNCHANGED <<threadVars, commandVars, pubVars>>

\* B is joined, and what it left is reclaimed by emergency_reclaim_converged
JoinReclaimer(from, to) ==
    /\ Goes(from, to) /\ Joined("B")
    /\ retired' = FALSE /\ terminal' = FALSE
    /\ TeardownKeeps /\ LifeKept /\ UNCHANGED <<ready, result, commandVars, update, detached>>

RequestTerminalDetach ==
    /\ Goes("detach", IF runtime_updates_enabled /\ thread["A"] # "none" THEN "waitA" ELSE "joinA")
    /\ terminal_detach_requested' = (terminal_detach_requested \/ runtime_updates_enabled)
    /\ TeardownKeeps /\ LifeKept
    /\ UNCHANGED <<threadVars, supervisor_stop, sealed, shutdown_requested, activation_requested,
                   activation_result, data_plane_released, pubVars>>

\* the loop that waits for A and takes over from a B that fails meanwhile
AwaitCoordinator ==
    /\ \/ Goes("waitA", "joinA") /\ result["A"]
       \/ Goes("waitA", "joinB2") /\ ~result["A"] /\ result["B"] /\ thread["B"] # "none"
    /\ TeardownKeeps /\ LifeKept /\ UNCHANGED <<threadVars, commandVars, pubVars>>

JoinCoordinator ==
    /\ Goes("joinA", "successor") /\ Joined("A")
    /\ TeardownKeeps /\ LifeKept /\ UNCHANGED <<ready, result, commandVars, pubVars>>

\* reclaimer_active_ of the publication
ReclaimerActive == thread["B"] = "running"

\* mutant: the update that A left is not looked for
CommittedForgotten ==
    /\ \/ /\ Goes("successor", "terminal")
          /\ UNCHANGED update
       \/ /\ Goes("successor", "joinB3") /\ update # "none" /\ retired
          /\ ~ReclaimerActive /\ thread["B"] # "none"
          /\ UNCHANGED update
    /\ TeardownKeeps /\ LifeKept
    /\ UNCHANGED <<threadVars, commandVars, retired, terminal, detached>>

\* complete_committed_by_successor: the update A left is waited for and answered
CompleteCommitted ==
    /\ \/ /\ Goes("successor", "terminal") /\ (update = "none" \/ ~retired)
          /\ update' = "none"
       \/ /\ Goes("successor", "joinB3") /\ update # "none" /\ retired
          /\ ~ReclaimerActive /\ thread["B"] # "none"
          /\ UNCHANGED update
    /\ TeardownKeeps /\ LifeKept
    /\ UNCHANGED <<threadVars, commandVars, retired, terminal, detached>>

DetachTerminal ==
    /\ Goes("terminal", "shutdown")
    /\ sealed' = TRUE /\ detached' = TRUE /\ terminal' = (terminal \/ ~detached)
    /\ TeardownKeeps /\ LifeKept
    /\ UNCHANGED <<threadVars, supervisor_stop, terminal_detach_requested, shutdown_requested,
                   activation_requested, activation_result, data_plane_released, update, retired>>

\* B, if it is still there, drains the records and exits; JoinReclaimer follows either way
ShutdownReclaimer ==
    /\ Goes("shutdown", "joinB4")
    /\ shutdown_requested' = (shutdown_requested \/ thread["B"] # "none")
    /\ TeardownKeeps /\ LifeKept
    /\ UNCHANGED <<threadVars, supervisor_stop, sealed, terminal_detach_requested,
                   activation_requested, activation_result, data_plane_released, pubVars>>

ReleaseOwners ==
    /\ at = "release"
    /\ owners' = FALSE /\ supervisor' = FALSE /\ health' = "Unavailable"
    /\ state' = IF stop_cause = "Explicit" THEN "Stopped" ELSE "Failed"
    /\ Finish(ExitCode)
    /\ TeardownKeeps
    /\ UNCHANGED <<stop_cause, startup_error, startup_stop, update_admission_open, threadVars,
                   commandVars, pubVars, join_failures>>

\* teardown_incomplete: a join has thrown, or a wait has; every owner stays
MayFail == {"joinC", "drain", "joinB1", "joinB2", "joinB3", "joinB4", "joinA", "successor"}

\* mutant: a failed join drops the owners all the same
IncompleteReleases ==
    /\ at \in MayFail /\ join_failures < MaxJoinFailures
    /\ join_failures' = join_failures + 1
    /\ owners' = FALSE /\ state' = "Stopping" /\ health' = "Unavailable"
    /\ Finish("TeardownIncomplete")
    /\ TeardownKeeps
    /\ UNCHANGED <<stop_cause, startup_error, startup_stop, update_admission_open,
                   supervisor, threadVars, commandVars, pubVars>>

TeardownIncomplete ==
    /\ at \in MayFail /\ join_failures < MaxJoinFailures
    /\ join_failures' = join_failures + 1
    /\ state' = "Stopping" /\ health' = "Unavailable"
    /\ Finish("TeardownIncomplete")
    /\ TeardownKeeps
    /\ UNCHANGED <<stop_cause, startup_error, startup_stop, update_admission_open, owners,
                   supervisor, threadVars, commandVars, pubVars>>

TeardownStep ==
    \/ TeardownNotNeeded
    \/ TeardownStop
    \/ JoinSupervisor
    \/ DrainWorkers
    \/ JoinReclaimer("joinB1", "detach")
    \/ RequestTerminalDetach
    \/ AwaitCoordinator
    \/ JoinReclaimer("joinB2", "waitA")
    \/ JoinCoordinator
    \/ CompleteCommitted
    \/ JoinReclaimer("joinB3", "successor")
    \/ DetachTerminal
    \/ ShutdownReclaimer
    \/ JoinReclaimer("joinB4", "release")
    \/ ReleaseOwners

-----------------------------------------------------------------------------
(* The control threads *)

RunKeeps == UNCHANGED <<ownVars, callVars, placeVars>>

\* A, B: the run begins and reports that it is ready, or fails before it begins
RunnerStarts(r) ==
    /\ r \in {"A", "B"} /\ thread[r] = "created"
    /\ \/ /\ thread' = [thread EXCEPT ![r] = "running"]
          /\ ready' = [ready EXCEPT ![r] = "ok"] /\ UNCHANGED result
       \/ /\ thread' = [thread EXCEPT ![r] = "exited"]
          /\ ready' = [ready EXCEPT ![r] = "failed"] /\ result' = [result EXCEPT ![r] = TRUE]
    /\ RunKeeps /\ UNCHANGED <<lifeVars, commandVars, pubVars>>

\* C: run begins; its workers become ready; they pass the first gate
SupervisorStarts ==
    /\ thread["C"] = "created" /\ thread' = [thread EXCEPT !["C"] = "running"]
    /\ RunKeeps /\ UNCHANGED <<lifeVars, ready, result, commandVars, pubVars>>

\* mutant: C waits for the activation command before it reports that its workers are ready
PublishStartupLate ==
    /\ thread["C"] = "running" /\ ready["C"] = "none" /\ activation_requested
    /\ ready' = [ready EXCEPT !["C"] = "ok"]
    /\ RunKeeps /\ UNCHANGED <<lifeVars, thread, result, commandVars, pubVars>>

PublishStartup ==
    /\ thread["C"] = "running" /\ ready["C"] = "none"
    /\ ready' = [ready EXCEPT !["C"] = "ok"]
    /\ RunKeeps /\ UNCHANGED <<lifeVars, thread, result, commandVars, pubVars>>

PublishActivation ==
    /\ thread["C"] = "running" /\ activation_requested /\ activation_result = "none"
    /\ activation_result' = "ok"
    /\ RunKeeps
    /\ UNCHANGED <<lifeVars, threadVars, supervisor_stop, sealed, terminal_detach_requested,
                   shutdown_requested, activation_requested, data_plane_released, pubVars>>

\* accept_fatal_locked
AcceptFatal ==
    /\ state = "Active" /\ stop_cause = "None"
    /\ stop_cause' = "Fatal" /\ state' = "Stopping" /\ update_admission_open' = FALSE
    /\ health' = "Unavailable" /\ startup_stop' = TRUE
    /\ UNCHANGED startup_error

\* C's fatal_reporter: fail_service, whose request_runtime_stop is RoleStopsRuntime
FailService ==
    /\ thread["C"] = "running" /\ activation_result = "ok"
    /\ AcceptFatal /\ thread' = [thread EXCEPT !["C"] = "fatal"]
    /\ RunKeeps /\ UNCHANGED <<ready, result, commandVars, pubVars>>

\* C's health_reporter, with some worker available or none
ReportHealth ==
    /\ thread["C"] = "running" /\ activation_result = "ok"
    /\ state = "Active" /\ stop_cause = "None"
    /\ health' \in {"Healthy", "Degraded", "Unavailable"}
    /\ RunKeeps
    /\ UNCHANGED <<state, stop_cause, startup_error, startup_stop, update_admission_open,
                   threadVars, commandVars, pubVars>>

\* C: run returns, on a stop or on a failure of its own; results it has not published
\* are published as errors first
SupervisorReturns ==
    /\ thread["C"] = "running"
    /\ LET why == IF SupervisorStopRequested THEN "Cancelled" ELSE "InitFailed"
           last(published) == IF published = "none" THEN why ELSE published
       IN  /\ ready' = [ready EXCEPT !["C"] = last(@)]
           /\ activation_result' = last(activation_result)
    /\ thread' = [thread EXCEPT !["C"] = "returned"]
    /\ RunKeeps
    /\ UNCHANGED <<lifeVars, result, supervisor_stop, sealed, terminal_detach_requested,
                   shutdown_requested, activation_requested, data_plane_released, pubVars>>

\* A: an update that was admitted is committed and its cohort waited for
CommitUpdate ==
    /\ thread["A"] = "running" /\ data_plane_released /\ ~sealed
    /\ update = "none" /\ ~retired
    /\ update' = "waiting" /\ retired' = TRUE
    /\ RunKeeps /\ UNCHANGED <<lifeVars, threadVars, commandVars, terminal, detached>>

UpdateConverges ==
    /\ thread["A"] = "running" /\ update = "waiting" /\ ~retired
    /\ update' = "none"
    /\ RunKeeps /\ UNCHANGED <<lifeVars, threadVars, commandVars, retired, terminal, detached>>

CoordinatorReturns == thread' = [thread EXCEPT !["A"] = "returned"] /\ sealed' = TRUE

\* A detaches the active snapshot when the teardown asks it to, and only between updates
CoordinatorDetaches ==
    /\ thread["A"] = "running" /\ terminal_detach_requested /\ update = "none"
    /\ CoordinatorReturns
    /\ detached' = TRUE /\ terminal' = (terminal \/ ~detached)
    /\ RunKeeps
    /\ UNCHANGED <<lifeVars, ready, result, supervisor_stop, terminal_detach_requested,
                   shutdown_requested, activation_requested, activation_result,
                   data_plane_released, update, retired>>

\* A fails; what it has committed stays for a successor
CoordinatorFails ==
    /\ thread["A"] = "running" /\ CoordinatorReturns
    /\ update' = IF update = "waiting" THEN "left" ELSE update
    /\ RunKeeps
    /\ UNCHANGED <<lifeVars, ready, result, supervisor_stop, terminal_detach_requested,
                   shutdown_requested, activation_requested, activation_result,
                   data_plane_released, retired, terminal, detached>>

\* B reclaims a record whose cohort has converged
Reclaim ==
    /\ ReclaimerActive /\ (retired \/ terminal)
    /\ \/ retired /\ retired' = FALSE /\ UNCHANGED terminal
       \/ ~retired /\ terminal' = FALSE /\ UNCHANGED retired
    /\ RunKeeps /\ UNCHANGED <<lifeVars, threadVars, commandVars, update, detached>>

\* B returns: it was told to and nothing is left, or the grace period has stalled
ReclaimerReturns ==
    /\ ReclaimerActive /\ thread' = [thread EXCEPT !["B"] = "returned"]
    /\ RunKeeps /\ UNCHANGED <<lifeVars, ready, result, commandVars, pubVars>>

ReclaimerDone == shutdown_requested /\ ~retired /\ ~terminal /\ ReclaimerReturns

\* publish_coordinator_result, publish_reclaimer_result, publish_supervisor_result
PublishResult(r) ==
    /\ thread[r] = "returned" /\ thread' = [thread EXCEPT ![r] = "ended"]
    /\ result' = [result EXCEPT ![r] = TRUE]
    /\ RunKeeps /\ UNCHANGED <<lifeVars, ready, commandVars, pubVars>>

\* the section that ends each main: was the exit expected, and if not, whose failure is it
ReportExit(r) ==
    /\ thread[r] = "ended"
    /\ \/ /\ startup_stop \/ state \in {"Stopping", "Stopped", "Failed"}
          /\ thread' = [thread EXCEPT ![r] = "exited"]
          /\ UNCHANGED lifeVars
       \/ /\ ~startup_stop /\ thread' = [thread EXCEPT ![r] = "stopping"]
          /\ \/ /\ state = "Starting" /\ Stopping("StartupFailure", "InitFailed")
                /\ UNCHANGED <<update_admission_open, health>>
             \/ AcceptFatal
    /\ RunKeeps /\ UNCHANGED <<ready, result, commandVars, pubVars>>

\* request_runtime_stop by the thread whose failure was accepted
RoleStopsRuntime(r) ==
    /\ \/ thread[r] = "stopping" /\ thread' = [thread EXCEPT ![r] = "exited"]
       \/ thread[r] = "fatal" /\ thread' = [thread EXCEPT ![r] = "running"]
    /\ RuntimeStop
    /\ RunKeeps /\ UNCHANGED <<ready, result, pubVars>>

-----------------------------------------------------------------------------
(* The specification *)

CallStep(p) ==
    \/ InitBegin(p) \/ InitEnd(p) \/ InitRefused(p)
    \/ RequestStop(p) \/ StopRuntime(p)
    \/ Wait(p) \/ LockForTeardown(p)
    \/ Start(p) \/ StartRefused(p)

RoleStep ==
    \/ \E r \in Roles : RunnerStarts(r) \/ PublishResult(r) \/ ReportExit(r) \/ RoleStopsRuntime(r)
    \/ SupervisorStarts \/ PublishStartup \/ PublishActivation
    \/ FailService \/ ReportHealth \/ SupervisorReturns
    \/ CommitUpdate \/ UpdateConverges \/ CoordinatorDetaches \/ CoordinatorFails
    \/ Reclaim \/ ReclaimerReturns

\* every call has been made and the service is at rest
Finished ==
    /\ \A p \in Callers : calls[p] = <<>>
    /\ state \in AtRest
    /\ UNCHANGED vars

Next ==
    \/ \E p \in Callers : CallStep(p)
    \/ StartStep \/ TeardownStep \/ TeardownIncomplete
    \/ RoleStep
    \/ Finished

Spec == Init /\ [][Next]_vars

\* what A, B and C do as long as they are scheduled
Proceeds(r) ==
    \/ RunnerStarts(r) \/ PublishResult(r) \/ ReportExit(r) \/ RoleStopsRuntime(r)
    \/ /\ r = "A"
       /\ \/ UpdateConverges \/ CoordinatorDetaches
          \/ update = "waiting" /\ retired /\ ~ReclaimerActive /\ CoordinatorFails
    \/ r = "B" /\ (Reclaim \/ ReclaimerDone)
    \/ /\ r = "C"
       /\ \/ SupervisorStarts \/ PublishStartup \/ PublishActivation
          \/ SupervisorStopRequested /\ SupervisorReturns

\* The threads of the process are scheduled: a call that has begun goes on, a waiter
\* whose predicate holds wakes, a role with something to do does it.  Nothing makes a
\* caller call, or a role fail.
Fairness ==
    /\ \A p \in Callers : WF_vars(InitEnd(p) \/ StopRuntime(p) \/ Wait(p) \/ LockForTeardown(p))
    /\ WF_vars(StartStep \/ TeardownStep)
    /\ \A r \in Roles : WF_vars(Proceeds(r))

FairSpec == Spec /\ Fairness

-----------------------------------------------------------------------------
(* Properties *)

States   == {"Empty", "Initialized", "Starting", "Active", "Stopping", "Stopped", "Failed"}
Causes   == {"None", "Explicit", "StartupFailure", "Fatal"}
Outcomes == {"none", "ok", "failed", "InitFailed", "Cancelled"}
Codes    == {"none", "ok", "error", "Cancelled", "InitFailed", "ExplicitStop", "StartupFailure",
             "Fatal", "NotStarted", "TeardownIncomplete"}
Places   == MayFail \cup Roles \cup
            {"none", "supervisor", "readyA", "readyB", "startup", "activation", "activated",
             "commit", "fail", "failstop", "failed", "enter", "detach", "waitA", "terminal",
             "shutdown", "release"}

\* Every variable holds a value the code's enumerations and flags allow.
TypeOK ==
    /\ state \in States /\ stop_cause \in Causes
    /\ startup_error \in {"None", "InitFailed", "Cancelled"}
    /\ {init_in_progress, startup_stop, update_admission_open, owners, supervisor,
        runtime_updates_enabled, supervisor_stop, sealed, terminal_detach_requested,
        shutdown_requested, activation_requested, data_plane_released, retired, terminal,
        detached} \subseteq BOOLEAN
    /\ health \in {"Healthy", "Degraded", "Unavailable"}
    /\ thread \in [Roles -> Live \cup {"none", "exited"}]
    /\ ready \in [Roles -> Outcomes] /\ result \in [Roles -> BOOLEAN]
    /\ activation_result \in Outcomes /\ update \in {"none", "waiting", "left"}
    /\ DOMAIN calls = Callers
    /\ stage \in [Callers -> {"idle", "init", "stop", "lock", "owner"}]
    /\ returned \in [Callers -> Codes]
    /\ startup_owner \in Callers \cup {NoCaller} /\ at \in Places
    /\ error \in {"None", "InitFailed", "Cancelled"}
    /\ join_failures \in 0 .. MaxJoinFailures

\* No control thread outlives what it borrows: while one of A, B, C is in its main
\* function, the controller, the publication and (for C) the supervisor exist, whatever
\* start failed, whichever join threw and whoever tears down (finish_teardown retains
\* every owner until each thread is joined).
OwnersOutliveThreads ==
    \A r \in Roles : thread[r] \in Live => owners /\ (r = "C" => supervisor)

\* A finished service has left nothing: no thread, no owner, no committed update that
\* was never answered and no snapshot that was never reclaimed.
NothingLeftBehind ==
    state \in {"Stopped", "Failed"} =>
        /\ \A r \in Roles : thread[r] = "none"
        /\ ~owners /\ ~supervisor
        /\ update = "none" /\ ~retired /\ ~terminal

\* start is all or nothing: when it has answered with a failure of its own, the data
\* plane was never released and no update was ever admitted.
FailedStartServesNobody ==
    (\E p \in Callers : returned[p] \in {"Cancelled", "InitFailed"}) =>
        ~data_plane_released /\ ~update_admission_open

\* The first cause to stop is the only one: a stop that races a fatal failure, a failed
\* start or another stop never replaces it, so every join and wait is told the same.
\* "A late C snapshot must never restore availability": from then on, health is
\* Unavailable.
FirstCauseWins ==
    [][/\ stop_cause # "None" => stop_cause' = stop_cause
       /\ stop_cause' # "None" => health' = "Unavailable"]_vars

\* The service settles.  Every call that got past its first step returns: init,
\* request_stop, start (its rollback included), join, and wait once its predicate has
\* held.  A fatal failure wakes a waiter, which then drives the service to its end,
\* however many joins fail on the way.  And a service does not stay Active without one
\* of its threads: an exit of A, B or C that is published while start() commits is not
\* taken for an expected one later.  The callers' programs run out, so in the end no
\* call is under way and no waiter sits beside a failed service.
ServiceSettles ==
    <>[](/\ \A p \in Callers :
                /\ stage[p] = "idle"
                /\ stop_cause = "Fatal" /\ Calling(p, "wait") => state \in {"Stopped", "Failed"}
         /\ state = "Active" => \A r \in Roles : ~result[r])

\* docs/OPERATIONS.md: wait() waits for a normal stop or a fatal failure before it
\* drives the teardown.  So no waiter is past the stop of the runtime while there is
\* no cause to stop.
WaitTearsDownOnlyStopped ==
    at = "joinC" /\ Calling(startup_owner, "wait") => stop_cause # "None"

=============================================================================

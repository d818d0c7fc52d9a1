------------------------- MODULE DNSLifecycleProofs -------------------------
(***************************************************************************)
(* Proofs about DNSLifecycle, for any number of callers, whatever each of  *)
(* them calls and in whatever order, and any number of failed joins.  The  *)
(* inductive invariant says                                                *)
(*                                                                         *)
(*  CallerInv    who holds startup_mutex_, and for which call              *)
(*  StateInv     the state, the owners and the cause to stop agree with    *)
(*               where that caller is                                      *)
(*  StartInv     a start that is not over, or has failed, let nobody serve *)
(*  ThreadInv    which threads a state or a place of the teardown excludes *)
(*  RecordInv    and which updates and snapshots                           *)
(***************************************************************************)
EXTENDS DNSLifecycle, TLAPS

\* start before it has failed; finish_teardown after its first step
StartPlaces == {"supervisor", "A", "B", "C", "readyA", "readyB", "startup", "activation",
                "activated", "commit"}
TeardownPlaces == {"joinC", "drain", "joinB1", "detach", "waitA", "joinB2", "joinA", "successor",
                   "joinB3", "terminal", "shutdown", "joinB4", "release"}

\* past the join of C, of A, and past the answer to A's last update
AfterC == TeardownPlaces \ {"joinC"}
AfterA == {"successor", "joinB3", "terminal", "shutdown", "joinB4", "release"}
AfterUpdate == {"terminal", "shutdown", "joinB4", "release"}

CallerInv ==
    /\ at = "none" <=> startup_owner = NoCaller
    /\ \A p \in Callers : stage[p] = "owner" <=> startup_owner = p
    /\ at \in StartPlaces \cup {"fail", "failstop", "failed"} => Calling(startup_owner, "start")
    /\ \A p \in Callers : stage[p] \in {"stop", "lock"} => ~Calling(p, "start")
    /\ \A p, q \in Callers : stage[p] = "init" /\ stage[q] = "init" => p = q
    /\ \A p \in Callers : stage[p] = "init" => init_in_progress /\ state = "Empty"

StateInv ==
    /\ owners <=> state \in {"Initialized", "Starting", "Active", "Stopping"}
    /\ state = "Starting" => at \in StartPlaces \cup {"fail"}
    /\ at \in StartPlaces \cup {"fail"} => state \in {"Starting", "Stopping"}
    /\ at \in TeardownPlaces => state \in {"Active", "Stopping"}
    /\ state \in {"Empty", "Initialized"} => stop_cause = "None"
    /\ stop_cause # "None" \/ state = "Starting" => health = "Unavailable"

NobodyServed == ~data_plane_released /\ ~update_admission_open

StartInv ==
    /\ state \in {"Empty", "Initialized", "Starting"} => NobodyServed
    /\ at # "none" /\ Calling(startup_owner, "start") => NobodyServed
    /\ at = "fail" => error # "None"
    /\ at \in TeardownPlaces \cup {"failstop", "enter", "failed"} /\ Calling(startup_owner, "start") =>
           error # "None" /\ (state = "Stopping" \/ (at = "failed" /\ state \in {"Stopped", "Failed"}))
    /\ \A p \in Callers : returned[p] \in {"Cancelled", "InitFailed"} =>
           NobodyServed /\ state \in {"Stopping", "Stopped", "Failed"}

ThreadInv ==
    /\ state \in AtRest => ~supervisor /\ \A r \in Roles : thread[r] = "none"
    /\ thread["C"] # "none" => supervisor
    /\ at \in StartPlaces \ {"supervisor"} => supervisor
    /\ at \in AfterC => thread["C"] = "none"
    /\ at \in AfterA => thread["A"] = "none"
    /\ at = "release" => thread["B"] = "none"

RecordInv ==
    /\ state \in AtRest => update = "none" /\ ~retired /\ ~terminal
    /\ at \in AfterUpdate => update = "none"
    /\ at = "release" => ~retired /\ ~terminal

\* The inductive invariant: see the head of this module.
InductiveInvariant == CallerInv /\ StateInv /\ StartInv /\ ThreadInv /\ RecordInv
-----------------------------------------------------------------------------
(* The types, in the groups in which the actions change the variables *)

Errors == {"None", "InitFailed", "Cancelled"}
Stages == {"idle", "init", "stop", "lock", "owner"}

LifeType ==
    /\ state \in States /\ stop_cause \in Causes /\ startup_error \in Errors
    /\ startup_stop \in BOOLEAN /\ update_admission_open \in BOOLEAN
    /\ health \in {"Healthy", "Degraded", "Unavailable"}
OwnType ==
    /\ init_in_progress \in BOOLEAN /\ owners \in BOOLEAN /\ supervisor \in BOOLEAN
    /\ runtime_updates_enabled \in BOOLEAN
ThreadType ==
    /\ thread \in [Roles -> Live \cup {"none", "exited"}]
    /\ ready \in [Roles -> Outcomes] /\ result \in [Roles -> BOOLEAN]
CommandType ==
    /\ supervisor_stop \in BOOLEAN /\ sealed \in BOOLEAN /\ terminal_detach_requested \in BOOLEAN
    /\ shutdown_requested \in BOOLEAN /\ activation_requested \in BOOLEAN
    /\ activation_result \in Outcomes /\ data_plane_released \in BOOLEAN
PubType ==
    /\ update \in {"none", "waiting", "left"} /\ retired \in BOOLEAN
    /\ terminal \in BOOLEAN /\ detached \in BOOLEAN
CallType ==
    /\ DOMAIN calls = Callers /\ stage \in [Callers -> Stages] /\ returned \in [Callers -> Codes]
PlaceType ==
    /\ startup_owner \in Callers \cup {NoCaller} /\ at \in Places
    /\ error \in Errors /\ join_failures \in 0 .. MaxJoinFailures

\* TypeOK is the conjunction of the groups.
LEMMA TypeGroups ==
    TypeOK <=> /\ LifeType /\ OwnType /\ ThreadType /\ CommandType /\ PubType /\ CallType
               /\ PlaceType
<1>1. {init_in_progress, startup_stop, update_admission_open, owners, supervisor,
       runtime_updates_enabled, supervisor_stop, sealed, terminal_detach_requested,
       shutdown_requested, activation_requested, data_plane_released, retired, terminal,
       detached} \subseteq BOOLEAN
      <=> /\ init_in_progress \in BOOLEAN /\ startup_stop \in BOOLEAN
          /\ update_admission_open \in BOOLEAN /\ owners \in BOOLEAN /\ supervisor \in BOOLEAN
          /\ runtime_updates_enabled \in BOOLEAN /\ supervisor_stop \in BOOLEAN
          /\ sealed \in BOOLEAN /\ terminal_detach_requested \in BOOLEAN
          /\ shutdown_requested \in BOOLEAN /\ activation_requested \in BOOLEAN
          /\ data_plane_released \in BOOLEAN /\ retired \in BOOLEAN /\ terminal \in BOOLEAN
          /\ detached \in BOOLEAN
  BY SMT
<1> QED BY <1>1, Zenon DEF TypeOK, LifeType, OwnType, ThreadType, CommandType,
           PubType, CallType, PlaceType, Errors, Stages

\* The same after a step.
LEMMA TypeGroupsNext ==
    TypeOK' <=> /\ LifeType' /\ OwnType' /\ ThreadType' /\ CommandType' /\ PubType' /\ CallType'
                /\ PlaceType'
BY TypeGroups, PTL

\* A group keeps its types when it is left alone.
LEMMA TypeFrames ==
    /\ LifeType /\ UNCHANGED lifeVars => LifeType'
    /\ OwnType /\ UNCHANGED ownVars => OwnType'
    /\ ThreadType /\ UNCHANGED threadVars => ThreadType'
    /\ CommandType /\ UNCHANGED commandVars => CommandType'
    /\ PubType /\ UNCHANGED pubVars => PubType'
    /\ CallType /\ UNCHANGED callVars => CallType'
    /\ PlaceType /\ UNCHANGED placeVars => PlaceType'
<1>1. LifeType /\ UNCHANGED lifeVars => LifeType' BY DEF LifeType, lifeVars
<1>2. OwnType /\ UNCHANGED ownVars => OwnType' BY DEF OwnType, ownVars
<1>3. ThreadType /\ UNCHANGED threadVars => ThreadType' BY DEF ThreadType, threadVars
<1>4. CommandType /\ UNCHANGED commandVars => CommandType' BY DEF CommandType,
                           commandVars
<1>5. PubType /\ UNCHANGED pubVars => PubType' BY DEF PubType, pubVars
<1>6. CallType /\ UNCHANGED callVars => CallType' BY DEF CallType, callVars
<1>7. PlaceType /\ UNCHANGED placeVars => PlaceType' BY DEF PlaceType, placeVars
<1> QED BY <1>1, <1>2, <1>3, <1>4, <1>5, <1>6, <1>7

\* The places of start and of finish_teardown, and the rest.
LEMMA PlaceSets ==
    /\ Places = StartPlaces \cup TeardownPlaces \cup {"none", "fail", "failstop", "failed", "enter"}
    /\ MayFail \subseteq TeardownPlaces /\ Roles \subseteq StartPlaces
    /\ AfterC \subseteq TeardownPlaces /\ AfterA \subseteq AfterC /\ AfterUpdate \subseteq AfterA
    /\ "release" \in AfterUpdate
    /\ StartPlaces \cap (TeardownPlaces \cup {"none", "fail", "failstop", "failed", "enter"}) = {}
    /\ TeardownPlaces \cap {"none", "fail", "failstop", "failed", "enter"} = {}
BY DEF Places, StartPlaces, TeardownPlaces, MayFail, Roles, AfterC, AfterA,
   AfterUpdate
-----------------------------------------------------------------------------
(* What a step leaves alone *)

Over == state \in {"Stopping", "Stopped", "Failed"}

\* the conjuncts of StartInv about a start whose caller holds startup_mutex_
Rollback ==
    /\ at = "fail" => error # "None"
    /\ at \in TeardownPlaces \cup {"failstop", "enter", "failed"} /\ Calling(startup_owner, "start") =>
           error # "None" /\ (state = "Stopping" \/ (at = "failed" /\ state \in {"Stopped", "Failed"}))

Starting == at # "none" /\ Calling(startup_owner, "start")

\* No start is committed by the step.
LEMMA StartFrame ==
    ASSUME StartInv, UNCHANGED data_plane_released,
           update_admission_open' => update_admission_open,
           state' \in {"Empty", "Initialized", "Starting"} =>
               state \in {"Empty", "Initialized", "Starting"},
           Over => Over',
           \A p \in Callers : returned'[p] \in {"Cancelled", "InitFailed"} =>
                                  returned[p] \in {"Cancelled", "InitFailed"},
           Starting' => Starting \/ NobodyServed, Rollback'
    PROVE  StartInv'
<1>1. NobodyServed => NobodyServed' BY DEF NobodyServed
<1> QED BY <1>1 DEF StartInv, Over, Starting, Rollback

\* A thread that is not there is not started by the step.
LEMMA ThreadFrame ==
    ASSUME ThreadInv, UNCHANGED <<supervisor, at>>, state' \in AtRest => state \in AtRest,
           \A r \in Roles : thread[r] = "none" => thread'[r] = "none"
    PROVE  ThreadInv'
<1>1. "A" \in Roles /\ "B" \in Roles /\ "C" \in Roles BY DEF Roles
<1> QED BY <1>1 DEF ThreadInv

\* The publication is left alone.
LEMMA RecordFrame ==
    ASSUME RecordInv, UNCHANGED <<pubVars, at>>, state' \in AtRest => state \in AtRest
    PROVE  RecordInv'
BY DEF RecordInv, pubVars

\* A caller that returns leaves the others alone.
LEMMA Returned ==
    ASSUME CallType, NEW p \in Callers, NEW code \in Codes, Return(p, code)
    PROVE  /\ CallType' /\ returned'[p] = code /\ stage'[p] = "idle"
           /\ \A q \in Callers : q # p => /\ calls'[q] = calls[q] /\ stage'[q] = stage[q]
                                          /\ returned'[q] = returned[q]
<1>1. DOMAIN calls' = Callers /\ \A q \in Callers : q # p => calls'[q] = calls[q]
  BY DEF Return, CallType
<1>2. "idle" \in Stages BY DEF Stages
<1>3. /\ stage' \in [Callers -> Stages] /\ stage'[p] = "idle"
      /\ \A q \in Callers : q # p => stage'[q] = stage[q]
  BY <1>2 DEF Return, CallType
<1>4. /\ returned' \in [Callers -> Codes] /\ returned'[p] = code
      /\ \A q \in Callers : q # p => returned'[q] = returned[q]
  BY DEF Return, CallType
<1> QED BY <1>1, <1>3, <1>4 DEF CallType

\* A caller that moves on inside its call leaves the others alone.
LEMMA MovedOn ==
    ASSUME CallType, NEW p \in Callers, NEW from, NEW to \in Stages, Moves(p, from, to),
           UNCHANGED <<calls, returned>>
    PROVE  /\ CallType' /\ stage'[p] = to /\ stage[p] = from
           /\ \A q \in Callers : q # p => stage'[q] = stage[q]
BY DEF Moves, CallType
-----------------------------------------------------------------------------
(* The control threads *)

\* A thread changes the state at most to Stopping, opens nothing and starts no thread.
LEMMA RoleFrame ==
    ASSUME TypeOK, InductiveInvariant, RunKeeps, LifeType', ThreadType', CommandType', PubType',
           UNCHANGED data_plane_released, update_admission_open' => update_admission_open,
           \/ UNCHANGED state
           \/ state \in {"Starting", "Active"} /\ state' = "Stopping",
           state \in AtRest => UNCHANGED stop_cause,
           stop_cause' # "None" \/ state' = "Starting" => health' = "Unavailable",
           \A r \in Roles : thread[r] = "none" => thread'[r] = "none",
           RecordInv'
    PROVE  (TypeOK /\ InductiveInvariant)'
<1> USE DEF InductiveInvariant
<1>1. UNCHANGED <<ownVars, callVars, placeVars>> BY Zenon DEF RunKeeps
<1>2. TypeOK' BY <1>1, TypeGroups, TypeGroupsNext, TypeFrames, Zenon
<1>3. UNCHANGED <<init_in_progress, owners, supervisor, calls, stage, returned, startup_owner,
                  at, error>>
  BY <1>1 DEF ownVars, callVars, placeVars
<1>4. /\ state' \in AtRest => state \in AtRest /\ UNCHANGED state
      /\ state = "Empty" => state' = "Empty"
  BY Zenon DEF AtRest
<1>5. CallerInv' BY <1>3, <1>4, ZenonT(40) DEF CallerInv, Calling
<1>6. StateInv'
  <2>1. owners' <=> state' \in {"Initialized", "Starting", "Active", "Stopping"}
    BY <1>3 DEF StateInv
  <2>2. state' \in {"Empty", "Initialized"} => stop_cause' = "None"
    BY <1>4, Zenon DEF StateInv, AtRest
  <2> QED BY <1>3, <2>1, <2>2, Zenon DEF StateInv
<1>7. StartInv'
  <2>1. /\ state' \in {"Empty", "Initialized", "Starting"} =>
               state \in {"Empty", "Initialized", "Starting"}
        /\ Over => Over'
    BY DEF Over
  <2>2. Starting' <=> Starting BY <1>3, Zenon DEF Starting, Calling
  <2>3. Rollback' BY <1>3, Zenon DEF StartInv, Rollback, Calling
  <2> QED BY <1>3, <2>1, <2>2, <2>3, StartFrame, Zenon
<1>8. ThreadInv' BY <1>3, <1>4, ThreadFrame
<1> QED BY <1>2, <1>5, <1>6, <1>7, <1>8, Zenon

\* A thread moves on in its main function.
LEMMA ThreadMoves ==
    ASSUME ThreadType, NEW r \in Roles, thread[r] # "none",
           NEW to \in Live \cup {"exited"}, thread' = [thread EXCEPT ![r] = to]
    PROVE  /\ thread' \in [Roles -> Live \cup {"none", "exited"}]
           /\ \A q \in Roles : thread[q] = "none" => thread'[q] = "none"
BY Zenon DEF ThreadType

\* ... and changes nothing but what it reports.
LEMMA ReportingStep ==
    ASSUME TypeOK, InductiveInvariant, RunKeeps, UNCHANGED <<lifeVars, commandVars, pubVars>>,
           NEW r \in Roles, thread[r] # "none",
           NEW to \in Live \cup {"exited"}, thread' = [thread EXCEPT ![r] = to],
           ready' \in [Roles -> Outcomes], result' \in [Roles -> BOOLEAN]
    PROVE  (TypeOK /\ InductiveInvariant)'
<1>1. ThreadType BY TypeGroups, Zenon
<1>2. ThreadType' /\ \A q \in Roles : thread[q] = "none" => thread'[q] = "none"
  BY <1>1, ThreadMoves, Zenon DEF ThreadType
<1>3. LifeType' /\ CommandType' /\ PubType' BY TypeGroups, TypeFrames
<1>4. UNCHANGED <<state, stop_cause, health, data_plane_released, update_admission_open>>
  BY DEF lifeVars, commandVars
<1>5. stop_cause' # "None" \/ state' = "Starting" => health' = "Unavailable"
  BY <1>4 DEF InductiveInvariant, StateInv
<1>6. RecordInv'
  BY <1>4, RecordFrame DEF InductiveInvariant, RunKeeps, placeVars
<1> QED BY <1>2, <1>3, <1>4, <1>5, <1>6, RoleFrame, Zenon

\* The mains of A, B and C, where they change nothing else.
LEMMA RunnerStep ==
    ASSUME TypeOK, InductiveInvariant,
           \/ \E r \in Roles : RunnerStarts(r) \/ PublishResult(r)
           \/ SupervisorStarts \/ ReclaimerReturns
    PROVE  (TypeOK /\ InductiveInvariant)'
<1>1. ready \in [Roles -> Outcomes] /\ result \in [Roles -> BOOLEAN]
  BY TypeGroups DEF ThreadType
<1>2. "ok" \in Outcomes /\ "failed" \in Outcomes BY Zenon DEF Outcomes
<1>3. ASSUME NEW r \in Roles, RunnerStarts(r) PROVE (TypeOK /\ InductiveInvariant)'
  <2>1. PICK to \in {"running", "exited"} : thread' = [thread EXCEPT ![r] = to]
    BY <1>3 DEF RunnerStarts
  <2>2. to \in Live \cup {"exited"} BY DEF Live
  <2>3. ready' \in [Roles -> Outcomes] BY <1>1, <1>2, <1>3 DEF RunnerStarts
  <2>4. result' \in [Roles -> BOOLEAN] BY <1>1, <1>3, Zenon DEF RunnerStarts
  <2> QED BY <1>3, <2>1, <2>2, <2>3, <2>4, ReportingStep, Zenon DEF RunnerStarts
<1>4. ASSUME NEW r \in Roles, PublishResult(r) PROVE (TypeOK /\ InductiveInvariant)'
  <2>1. "ended" \in Live \cup {"exited"} BY DEF Live
  <2>2. result' \in [Roles -> BOOLEAN] BY <1>1, <1>4 DEF PublishResult
  <2> QED BY <1>1, <1>4, <2>1, <2>2, ReportingStep, Zenon DEF PublishResult
<1>5. CASE SupervisorStarts
  <2>1. "running" \in Live \cup {"exited"} /\ "C" \in Roles BY DEF Live, Roles
  <2> QED BY <1>1, <1>5, <2>1, ReportingStep, Zenon DEF SupervisorStarts
<1>6. CASE ReclaimerReturns
  <2>1. "returned" \in Live \cup {"exited"} /\ "B" \in Roles BY DEF Live, Roles
  <2> QED BY <1>1, <1>6, <2>1, ReportingStep, Zenon DEF ReclaimerReturns,
             ReclaimerActive
<1> QED BY <1>3, <1>4, <1>5, <1>6, Zenon

\* Threads and the state of the service are left alone.
LEMMA QuietStep ==
    ASSUME TypeOK, InductiveInvariant, RunKeeps, UNCHANGED <<thread, result, data_plane_released>>,
           UNCHANGED <<state, stop_cause, startup_error, startup_stop, update_admission_open>>,
           stop_cause # "None" \/ state = "Starting" => UNCHANGED health,
           health' \in {"Healthy", "Degraded", "Unavailable"},
           ready' \in [Roles -> Outcomes], CommandType', PubType', RecordInv'
    PROVE  (TypeOK /\ InductiveInvariant)'
<1>1. LifeType' BY TypeGroups DEF LifeType
<1>2. ThreadType' BY TypeGroups DEF ThreadType
<1>3. stop_cause' # "None" \/ state' = "Starting" => health' = "Unavailable"
  BY DEF InductiveInvariant, StateInv
<1> QED BY <1>1, <1>2, <1>3, RoleFrame

\* C's reports: its workers are ready, active, and how healthy they are.
LEMMA PublishStep ==
    ASSUME TypeOK, InductiveInvariant, PublishStartup \/ PublishActivation \/ ReportHealth
    PROVE  (TypeOK /\ InductiveInvariant)'
<1>1. /\ RunKeeps /\ UNCHANGED <<thread, result, data_plane_released, pubVars>>
      /\ UNCHANGED <<state, stop_cause, startup_error, startup_stop, update_admission_open>>
  BY Zenon DEF PublishStartup, PublishActivation, ReportHealth, lifeVars,
     commandVars, threadVars
<1>2. PubType' /\ RecordInv'
  BY <1>1, TypeGroups, TypeFrames, RecordFrame, Zenon DEF InductiveInvariant,
     RunKeeps, placeVars
<1>3. LifeType /\ ThreadType /\ CommandType BY TypeGroups
<1>4. "ok" \in Outcomes BY Zenon DEF Outcomes
<1>5. CASE PublishStartup
  <2>1. UNCHANGED <<health, commandVars>> BY <1>5, Zenon DEF PublishStartup, lifeVars
  <2>2. ready' \in [Roles -> Outcomes] BY <1>3, <1>4, <1>5, Zenon DEF
                           PublishStartup, ThreadType
  <2>3. CommandType' BY <1>3, <2>1, TypeFrames
  <2> QED BY <1>1, <1>2, <1>3, <2>1, <2>2, <2>3, QuietStep, Zenon DEF LifeType
<1>6. CASE PublishActivation
  <2>1. UNCHANGED <<health, ready>> BY <1>6 DEF PublishActivation, lifeVars,
                           threadVars
  <2>2. CommandType' BY <1>3, <1>4, <1>6 DEF PublishActivation, CommandType
  <2> QED BY <1>1, <1>2, <1>3, <2>1, <2>2, QuietStep DEF LifeType, ThreadType
<1>7. CASE ReportHealth
  <2>1. /\ UNCHANGED <<ready, commandVars>> /\ state = "Active" /\ stop_cause = "None"
        /\ health' \in {"Healthy", "Degraded", "Unavailable"}
    BY <1>7, Zenon DEF ReportHealth, threadVars
  <2>2. CommandType' BY <1>3, <2>1, TypeFrames, Zenon
  <2> QED BY <1>1, <1>2, <1>3, <2>1, <2>2, QuietStep DEF ThreadType
<1> QED BY <1>5, <1>6, <1>7, Zenon

\* C's run returns and publishes what it still owes.
LEMMA SupervisorReturnsStep ==
    ASSUME TypeOK, InductiveInvariant, SupervisorReturns
    PROVE  (TypeOK /\ InductiveInvariant)'
<1> DEFINE why == IF SupervisorStopRequested THEN "Cancelled" ELSE "InitFailed"
           last(published) == IF published = "none" THEN why ELSE published
<1>1. /\ RunKeeps /\ UNCHANGED <<lifeVars, result, data_plane_released, pubVars, supervisor_stop,
                                 sealed, terminal_detach_requested, shutdown_requested,
                                 activation_requested>>
      /\ thread["C"] = "running" /\ thread' = [thread EXCEPT !["C"] = "returned"]
      /\ ready' = [ready EXCEPT !["C"] = last(ready["C"])]
      /\ activation_result' = last(activation_result)
  BY DEF SupervisorReturns
<1>2. ThreadType /\ CommandType BY TypeGroups
<1>3. "C" \in Roles /\ "returned" \in Live \cup {"exited"} BY Zenon DEF Roles, Live
<1>4. /\ thread' \in [Roles -> Live \cup {"none", "exited"}]
      /\ \A q \in Roles : thread[q] = "none" => thread'[q] = "none"
  BY <1>1, <1>2, <1>3, ThreadMoves, Zenon
<1>5. \A o \in Outcomes : last(o) \in Outcomes BY DEF Outcomes
<1> HIDE DEF last
<1>6. ThreadType' BY <1>1, <1>2, <1>3, <1>4, <1>5 DEF ThreadType
<1>7. CommandType' BY <1>1, <1>2, <1>5 DEF CommandType
<1>8. LifeType' /\ PubType' BY <1>1, TypeGroups, TypeFrames
<1>9. UNCHANGED <<state, stop_cause, health, update_admission_open>> BY <1>1 DEF
                           lifeVars
<1>10. stop_cause' # "None" \/ state' = "Starting" => health' = "Unavailable"
  BY <1>9 DEF InductiveInvariant, StateInv
<1>11. RecordInv' BY <1>1, <1>9, RecordFrame DEF InductiveInvariant, RunKeeps,
                     placeVars
<1> QED BY <1>1, <1>4, <1>6, <1>7, <1>8, <1>9, <1>10, <1>11, RoleFrame, Zenon

\* While A runs, the service is not at rest and nobody is past A's join.
LEMMA WhileCoordinating ==
    ASSUME InductiveInvariant, RunKeeps, UNCHANGED state, thread["A"] = "running"
    PROVE  RecordInv'
<1>1. state \notin AtRest /\ at \notin AfterA
  BY Zenon DEF InductiveInvariant, ThreadInv, Roles
<1>2. at' \notin AfterUpdate /\ state' \notin AtRest /\ at' # "release"
  BY <1>1, PlaceSets, Zenon DEF RunKeeps, placeVars
<1> QED BY <1>2 DEF RecordInv

\* A's updates, and B's reclaiming.
LEMMA UpdateStep ==
    ASSUME TypeOK, InductiveInvariant, CommitUpdate \/ UpdateConverges \/ Reclaim
    PROVE  (TypeOK /\ InductiveInvariant)'
<1>1. /\ RunKeeps /\ UNCHANGED <<lifeVars, threadVars, commandVars>>
  BY Zenon DEF CommitUpdate, UpdateConverges, Reclaim
<1>2. UNCHANGED <<state, stop_cause, startup_error, startup_stop, update_admission_open, health,
                  thread, ready, result, data_plane_released, at>>
  BY <1>1, Zenon DEF lifeVars, threadVars, commandVars, RunKeeps, placeVars
<1>3. LifeType /\ ThreadType /\ CommandType' /\ PubType BY <1>1, TypeGroups,
                           TypeFrames, Zenon
<1>4. PubType' BY <1>3, Zenon DEF PubType, CommitUpdate, UpdateConverges, Reclaim
<1>5. RecordInv'
  <2>1. CASE thread["A"] = "running" BY <1>1, <1>2, <2>1, WhileCoordinating
  <2>2. CASE Reclaim BY <1>2, <2>2 DEF InductiveInvariant, RecordInv, Reclaim
  <2> QED BY <2>1, <2>2 DEF CommitUpdate, UpdateConverges
<1> QED BY <1>1, <1>2, <1>3, <1>4, <1>5, QuietStep, Zenon DEF LifeType, ThreadType

\* A's run returns.
LEMMA CoordinatorReturnsStep ==
    ASSUME TypeOK, InductiveInvariant, CoordinatorDetaches \/ CoordinatorFails
    PROVE  (TypeOK /\ InductiveInvariant)'
<1>1. /\ RunKeeps /\ thread["A"] = "running" /\ thread' = [thread EXCEPT !["A"] = "returned"]
      /\ sealed' = TRUE
      /\ UNCHANGED <<lifeVars, ready, result, supervisor_stop, terminal_detach_requested,
                     shutdown_requested, activation_requested, activation_result,
                     data_plane_released>>
  BY DEF CoordinatorDetaches, CoordinatorFails, CoordinatorReturns
<1>2. ThreadType /\ CommandType /\ PubType BY TypeGroups
<1>3. "A" \in Roles /\ "returned" \in Live \cup {"exited"} BY DEF Roles, Live
<1>4. /\ thread' \in [Roles -> Live \cup {"none", "exited"}]
      /\ \A q \in Roles : thread[q] = "none" => thread'[q] = "none"
  BY <1>1, <1>2, <1>3, ThreadMoves, Zenon
<1>5. ThreadType' /\ CommandType' BY <1>1, <1>2, <1>4 DEF ThreadType, CommandType
<1>6. PubType' BY <1>2, Zenon DEF PubType, CoordinatorDetaches, CoordinatorFails
<1>7. UNCHANGED <<state, stop_cause, health, update_admission_open>> /\ LifeType'
  BY <1>1, TypeGroups, TypeFrames DEF lifeVars
<1>8. stop_cause' # "None" \/ state' = "Starting" => health' = "Unavailable"
  BY <1>7 DEF InductiveInvariant, StateInv
<1>9. RecordInv' BY <1>1, <1>7, WhileCoordinating
<1> QED BY <1>1, <1>4, <1>5, <1>6, <1>7, <1>8, <1>9, RoleFrame
\* A thread that changes the state of the service, and not the publication.
LEMMA StoppingRoleStep ==
    ASSUME TypeOK, InductiveInvariant, RunKeeps, LifeType', CommandType',
           UNCHANGED <<data_plane_released, pubVars, ready, result>>,
           update_admission_open' => update_admission_open,
           \/ UNCHANGED state
           \/ state \in {"Starting", "Active"} /\ state' = "Stopping",
           state \in AtRest => UNCHANGED stop_cause,
           stop_cause' # "None" \/ state' = "Starting" => health' = "Unavailable",
           NEW r \in Roles, thread[r] # "none",
           NEW to \in Live \cup {"exited"}, thread' = [thread EXCEPT ![r] = to]
    PROVE  (TypeOK /\ InductiveInvariant)'
<1>1. ThreadType /\ PubType' BY TypeGroups, TypeFrames, Zenon
<1>2. ThreadType' /\ \A q \in Roles : thread[q] = "none" => thread'[q] = "none"
  BY <1>1, ThreadMoves, Zenon DEF ThreadType
<1>3. state' \in AtRest => state \in AtRest BY Zenon DEF AtRest
<1>4. RecordInv' BY <1>3, RecordFrame, Zenon DEF InductiveInvariant, RunKeeps,
                    placeVars
<1> QED BY <1>1, <1>2, <1>4, RoleFrame, Zenon

\* accept_fatal_locked makes the first cause.
LEMMA FatalAccepted ==
    ASSUME LifeType, AcceptFatal
    PROVE  /\ LifeType' /\ update_admission_open' = FALSE /\ health' = "Unavailable"
           /\ state = "Active" /\ state' = "Stopping"
BY Zenon DEF AcceptFatal, LifeType, States, Causes

\* C reports a fatal failure.
LEMMA FailServiceStep ==
    ASSUME TypeOK, InductiveInvariant, FailService
    PROVE  (TypeOK /\ InductiveInvariant)'
<1>1. /\ RunKeeps /\ AcceptFatal /\ UNCHANGED <<ready, result, commandVars, pubVars>>
      /\ thread["C"] = "running" /\ thread' = [thread EXCEPT !["C"] = "fatal"]
  BY DEF FailService
<1>2. LifeType /\ CommandType' /\ UNCHANGED data_plane_released
  BY <1>1, TypeGroups, TypeFrames DEF commandVars
<1>3. /\ LifeType' /\ update_admission_open' = FALSE /\ health' = "Unavailable"
      /\ state = "Active" /\ state' = "Stopping"
  BY <1>1, <1>2, FatalAccepted, Zenon
<1>4. "C" \in Roles /\ "fatal" \in Live \cup {"exited"} /\ state \notin AtRest
  BY <1>3, Zenon DEF Roles, Live, AtRest
<1> QED BY <1>1, <1>2, <1>3, <1>4, StoppingRoleStep, Zenon

\* The section that ends each main.
LEMMA ReportExitStep ==
    ASSUME TypeOK, InductiveInvariant, NEW r \in Roles, ReportExit(r)
    PROVE  (TypeOK /\ InductiveInvariant)'
<1>1. /\ RunKeeps /\ UNCHANGED <<ready, result, commandVars, pubVars>> /\ thread[r] = "ended"
  BY Zenon DEF ReportExit
<1>2. LifeType /\ CommandType' /\ UNCHANGED data_plane_released
  BY <1>1, TypeGroups, TypeFrames, Zenon DEF commandVars
<1>3. PICK to \in {"exited", "stopping"} : thread' = [thread EXCEPT ![r] = to]
  BY DEF ReportExit
<1>4. to \in Live \cup {"exited"} BY Zenon DEF Live
<1>5. CASE UNCHANGED lifeVars
  <2>1. LifeType' BY <1>2, <1>5, TypeFrames
  <2>2. UNCHANGED <<state, stop_cause, health, update_admission_open>> BY <1>5 DEF
                           lifeVars
  <2>3. stop_cause' # "None" \/ state' = "Starting" => health' = "Unavailable"
    BY <2>2 DEF InductiveInvariant, StateInv
  <2> QED BY <1>1, <1>2, <1>3, <1>4, <2>1, <2>2, <2>3, StoppingRoleStep, Zenon
<1>6. CASE /\ state = "Starting" /\ Stopping("StartupFailure", "InitFailed")
           /\ UNCHANGED <<update_admission_open, health>>
  <2>1. LifeType' /\ state' = "Stopping"
    BY <1>2, <1>6 DEF LifeType, Stopping, States, Causes, Errors
  <2>2. health' = "Unavailable" BY <1>6 DEF InductiveInvariant, StateInv
  <2>3. state \notin AtRest BY <1>6 DEF AtRest
  <2> QED BY <1>1, <1>2, <1>3, <1>4, <1>6, <2>1, <2>2, <2>3, StoppingRoleStep, Zenon
<1>7. CASE AcceptFatal
  <2>1. /\ LifeType' /\ update_admission_open' = FALSE /\ health' = "Unavailable"
        /\ state = "Active" /\ state' = "Stopping"
    BY <1>2, <1>7, FatalAccepted
  <2>2. state \notin AtRest BY <2>1 DEF AtRest
  <2> QED BY <1>1, <1>2, <1>3, <1>4, <2>1, <2>2, StoppingRoleStep, Zenon
<1> QED BY <1>5, <1>6, <1>7, Zenon DEF ReportExit

\* request_runtime_stop closes the service and changes nothing of its state.
LEMMA RuntimeStopped ==
    ASSUME LifeType, CommandType, OwnType, RuntimeStop
    PROVE  /\ LifeType' /\ CommandType' /\ update_admission_open' = FALSE
           /\ UNCHANGED <<state, stop_cause, startup_error, health, data_plane_released>>
BY ZenonT(40) DEF RuntimeStop, LifeType, CommandType, OwnType

\* A thread whose failure was accepted stops the others.
LEMMA RoleStopsStep ==
    ASSUME TypeOK, InductiveInvariant, NEW r \in Roles, RoleStopsRuntime(r)
    PROVE  (TypeOK /\ InductiveInvariant)'
<1>1. /\ RunKeeps /\ RuntimeStop /\ UNCHANGED <<ready, result, pubVars>> /\ thread[r] # "none"
  BY DEF RoleStopsRuntime
<1>2. PICK to \in {"exited", "running"} : thread' = [thread EXCEPT ![r] = to]
  BY DEF RoleStopsRuntime
<1>3. to \in Live \cup {"exited"} BY DEF Live
<1>4. /\ LifeType' /\ CommandType' /\ update_admission_open' = FALSE
      /\ UNCHANGED <<state, stop_cause, health, data_plane_released>>
  BY <1>1, TypeGroups, RuntimeStopped
<1>5. stop_cause' # "None" \/ state' = "Starting" => health' = "Unavailable"
  BY <1>4 DEF InductiveInvariant, StateInv
<1> QED BY <1>1, <1>2, <1>3, <1>4, <1>5, StoppingRoleStep, Zenon
-----------------------------------------------------------------------------
(* start *)

\* start moves on or fails, with the service still Starting or told to stop.
LEMMA StartMoves ==
    ASSUME TypeOK, InductiveInvariant, StartKeeps, UNCHANGED <<lifeVars, owners, data_plane_released>>,
           at \in StartPlaces,
           \/ at' \in StartPlaces \ {"supervisor"} /\ UNCHANGED error /\ supervisor'
           \/ at' = "fail" /\ error' \in {"InitFailed", "Cancelled"},
           supervisor => supervisor', supervisor' \in BOOLEAN, ThreadType', CommandType',
           thread'["C"] # "none" => thread["C"] # "none" \/ supervisor'
    PROVE  (TypeOK /\ InductiveInvariant)'
<1> USE DEF InductiveInvariant
<1>1. /\ UNCHANGED <<pubVars, callVars, calls, stage, returned, startup_owner, join_failures,
                     init_in_progress, runtime_updates_enabled>>
      /\ UNCHANGED <<state, stop_cause, health, update_admission_open>>
  BY Zenon DEF StartKeeps, lifeVars, callVars
<1>2. TypeOK'
  <2>1. LifeType' /\ PubType' /\ CallType' BY <1>1, TypeGroups, TypeFrames, Zenon
  <2>2. OwnType' BY <1>1, TypeGroups, Zenon DEF OwnType
  <2>3. PlaceType' BY <1>1, TypeGroups, PlaceSets, Zenon DEF PlaceType, Errors
  <2> QED BY <2>1, <2>2, <2>3, TypeGroupsNext, Zenon
<1>3. /\ at # "none" /\ at' # "none" /\ at' \in StartPlaces \cup {"fail"}
      /\ at' \notin TeardownPlaces \cup {"failstop", "enter", "failed"}
  BY PlaceSets, Zenon
<1>4. Calling(startup_owner, "start") /\ state \in {"Starting", "Stopping"}
  BY Zenon DEF CallerInv, StateInv
<1>5. CallerInv'
  <2>1. Calling(startup_owner, "start")' BY <1>1, <1>4, Zenon DEF Calling
  <2>2. at' = "none" <=> startup_owner' = NoCaller BY <1>1, <1>3, Zenon DEF CallerInv
  <2>3. \A p \in Callers : stage'[p] \in {"stop", "lock"} => ~Calling(p, "start")'
    BY <1>1, Zenon DEF CallerInv, Calling
  <2> QED BY <1>1, <2>1, <2>2, <2>3, Zenon DEF CallerInv
<1>6. StateInv' BY <1>1, <1>3, <1>4, Zenon DEF StateInv
<1>7. StartInv'
  <2>1. Starting BY <1>3, <1>4, Zenon DEF Starting
  <2>2. at' = "fail" => error' # "None" BY PlaceSets, Zenon
  <2>3. Rollback' BY <1>3, <2>2, Zenon DEF Rollback
  <2> QED BY <1>1, <2>1, <2>3, StartFrame, Zenon DEF Over
<1>8. state' \notin AtRest /\ at' \notin AfterC /\ at' \notin AfterA /\ at' \notin AfterUpdate
      /\ at' # "release"
  BY <1>1, <1>3, <1>4, PlaceSets, Zenon DEF AtRest
<1>9. ThreadInv'
  <2>1. at' \in StartPlaces \ {"supervisor"} => supervisor' BY PlaceSets, Zenon
  <2>2. thread'["C"] # "none" => supervisor' BY Zenon DEF ThreadInv
  <2> QED BY <1>8, <2>1, <2>2, Zenon DEF ThreadInv
<1>10. RecordInv' BY <1>8, Zenon DEF RecordInv
<1> QED BY <1>2, <1>5, <1>6, <1>7, <1>9, <1>10

\* The steps of start up to commit_startup.
LEMMA StartingStep ==
    ASSUME TypeOK, InductiveInvariant,
           \/ CreateSupervisor
           \/ \E r \in Roles : CreateThread(r)
           \/ AwaitReady("B", "readyB", "readyA")
           \/ AwaitReady("A", "readyA", "startup")
           \/ AwaitSupervisor("startup", ready["C"], "activation")
           \/ RequestActivation
           \/ AwaitSupervisor("activated", activation_result, "commit")
    PROVE  (TypeOK /\ InductiveInvariant)'
<1>1. ThreadType /\ OwnType /\ CommandType BY TypeGroups, Zenon
<1>2. at \in StartPlaces \ {"supervisor"} => supervisor BY Zenon DEF
                           InductiveInvariant, ThreadInv
<1>3. CASE CreateSupervisor
  <2>1. /\ StartKeeps /\ UNCHANGED <<lifeVars, owners, threadVars, commandVars>> /\ at = "supervisor"
        /\ \/ at' \in {"B", "C"} /\ UNCHANGED error /\ supervisor' = TRUE
           \/ at' = "fail" /\ error' = "InitFailed" /\ UNCHANGED supervisor
    BY <1>3, Zenon DEF CreateSupervisor, Succeeds, FailsStart, Goes
  <2>2. ThreadType' /\ CommandType' BY <1>1, <2>1, TypeFrames, Zenon
  <2>3. UNCHANGED <<thread, data_plane_released>> BY <2>1, Zenon DEF threadVars,
                           commandVars
  <2>4. at \in StartPlaces /\ (at' \in {"B", "C"} => at' \in StartPlaces \ {"supervisor"})
    BY <2>1, Zenon DEF StartPlaces
  <2>5. supervisor' = TRUE \/ supervisor' = supervisor BY <2>1, Zenon
  <2>6. supervisor' \in BOOLEAN BY <1>1, <2>5, Zenon DEF OwnType
  <2>7. supervisor => supervisor' BY <1>1, <2>5, Zenon DEF OwnType
  <2>8. \/ at' \in StartPlaces \ {"supervisor"} /\ UNCHANGED error /\ supervisor'
        \/ at' = "fail" /\ error' \in {"InitFailed", "Cancelled"}
    BY <2>1, <2>4
  <2> QED BY <2>1, <2>2, <2>3, <2>4, <2>6, <2>7, <2>8, StartMoves, Zenon
<1>4. ASSUME NEW r \in Roles, CreateThread(r) PROVE (TypeOK /\ InductiveInvariant)'
  <2>1. /\ StartKeeps /\ UNCHANGED <<lifeVars, owners, supervisor, ready, result, commandVars>>
        /\ at = r
        /\ \/ /\ at' = AfterCreating(r) /\ UNCHANGED error
              /\ thread' = [thread EXCEPT ![r] = "created"]
           \/ at' = "fail" /\ error' = "InitFailed" /\ UNCHANGED thread
    BY <1>4 DEF CreateThread, Succeeds, FailsStart, Goes
  <2>2. r \in StartPlaces \ {"supervisor"} /\ AfterCreating(r) \in StartPlaces \ {"supervisor"}
    BY Zenon DEF Roles, StartPlaces, AfterCreating
  <2>3. supervisor BY <1>2, <2>1, <2>2, Zenon
  <2>4. "created" \in Live BY Zenon DEF Live
  <2>5. ThreadType' BY <1>1, <2>1, <2>4, Zenon DEF ThreadType
  <2>6. CommandType' /\ UNCHANGED data_plane_released BY <1>1, <2>1, TypeFrames,
                           Zenon DEF commandVars
  <2> QED BY <1>1, <2>1, <2>2, <2>3, <2>5, <2>6, StartMoves, ZenonT(40) DEF OwnType
<1>5. ASSUME StartKeeps, UNCHANGED <<lifeVars, owners, supervisor, threadVars, data_plane_released>>,
             CommandType', at \in StartPlaces \ {"supervisor"},
             \/ at' \in StartPlaces \ {"supervisor"} /\ UNCHANGED error
             \/ at' = "fail" /\ error' \in {"InitFailed", "Cancelled"}
      PROVE  (TypeOK /\ InductiveInvariant)'
  <2>1. ThreadType' /\ UNCHANGED thread BY <1>1, <1>5, TypeFrames, Zenon DEF
                           threadVars
  <2> QED BY <1>1, <1>2, <1>5, <2>1, StartMoves, Zenon DEF OwnType
<1>6. ASSUME NEW r \in Roles, NEW here \in StartPlaces \ {"supervisor"},
             NEW next \in StartPlaces \ {"supervisor"}, AwaitReady(r, here, next)
      PROVE  (TypeOK /\ InductiveInvariant)'
  <2>1. /\ StartKeeps /\ UNCHANGED <<lifeVars, owners, supervisor, threadVars, commandVars>>
        /\ at = here
        /\ \/ at' = next /\ UNCHANGED error
           \/ at' = "fail" /\ error' \in {"InitFailed", "Cancelled"}
    BY <1>6, Zenon DEF AwaitReady, Succeeds, FailsStart, Goes
  <2>2. CommandType' /\ UNCHANGED data_plane_released BY <1>1, <2>1, TypeFrames,
                           Zenon DEF commandVars
  <2> QED BY <1>5, <2>1, <2>2, Zenon
<1>7. ASSUME NEW outcome, NEW here \in StartPlaces \ {"supervisor"},
             NEW next \in StartPlaces \ {"supervisor"}, AwaitSupervisor(here, outcome, next)
      PROVE  (TypeOK /\ InductiveInvariant)'
  <2>1. /\ StartKeeps /\ UNCHANGED <<lifeVars, owners, supervisor, threadVars, commandVars>>
        /\ at = here
        /\ \/ at' = next /\ UNCHANGED error
           \/ at' = "fail" /\ error' \in {"InitFailed", "Cancelled"}
    BY <1>7, Zenon DEF AwaitSupervisor, Succeeds, FailsStart, Goes
  <2>2. CommandType' /\ UNCHANGED data_plane_released BY <1>1, <2>1, TypeFrames,
                           Zenon DEF commandVars
  <2> QED BY <1>5, <2>1, <2>2, Zenon
<1>8. CASE RequestActivation
  <2>1. /\ StartKeeps
        /\ UNCHANGED <<lifeVars, owners, supervisor, threadVars, supervisor_stop, sealed,
                       terminal_detach_requested, shutdown_requested, activation_result,
                       data_plane_released>>
        /\ at = "activation"
        /\ \/ at' = "activated" /\ UNCHANGED error /\ activation_requested' = TRUE
           \/ at' = "fail" /\ error' = "Cancelled" /\ UNCHANGED activation_requested
    BY <1>8, Zenon DEF RequestActivation, Succeeds, FailsStart, Goes
  <2>2. CommandType' BY <1>1, <2>1, Zenon DEF CommandType
  <2>3. "activation" \in StartPlaces \ {"supervisor"} /\ "activated" \in StartPlaces \ {"supervisor"}
    BY DEF StartPlaces
  <2> QED BY <1>5, <2>1, <2>2, <2>3, Zenon
<1>9. /\ {"readyB", "readyA", "startup", "activation", "activated", "commit"} \subseteq
             StartPlaces \ {"supervisor"}
      /\ "A" \in Roles /\ "B" \in Roles
  BY DEF StartPlaces, Roles
<1> QED BY <1>3, <1>4, <1>6, <1>7, <1>8, <1>9, Zenon
\* The holder of startup_mutex_ goes on.
LEMMA HolderFrame ==
    ASSUME CallerInv, UNCHANGED <<callVars, startup_owner, init_in_progress>>,
           at # "none", at' # "none", state = "Empty" => state' = "Empty",
           at' \in StartPlaces \cup {"fail", "failstop", "failed"} => Calling(startup_owner, "start")
    PROVE  CallerInv'
<1>1. UNCHANGED <<calls, stage>> BY Zenon DEF callVars
<1> QED BY <1>1 DEF CallerInv, Calling

\* The holder of startup_mutex_ returns and lets it go.
LEMMA HolderReturns ==
    ASSUME CallType, CallerInv, startup_owner \in Callers, NEW code \in Codes,
           Return(startup_owner, code), at' = "none", startup_owner' = NoCaller,
           UNCHANGED init_in_progress, state = "Empty" => state' = "Empty"
    PROVE  CallerInv'
<1>1. PICK p \in Callers : p = startup_owner BY Zenon
<1>2. /\ stage'[p] = "idle"
      /\ \A q \in Callers : q # p => calls'[q] = calls[q] /\ stage'[q] = stage[q]
  BY <1>1, Returned, ZenonT(40)
<1>3. \A q \in Callers : stage'[q] # "owner" /\ q # NoCaller
  BY <1>1, <1>2, CallersAssumption, Zenon DEF CallerInv
<1>4. \A q \in Callers : stage'[q] \in {"stop", "lock", "init"} => q # p BY <1>2,
                           Zenon
<1>5. \A q \in Callers : stage'[q] \in {"stop", "lock"} => ~Calling(q, "start")'
  BY <1>2, <1>4, Zenon DEF CallerInv, Calling
<1>6. /\ \A q, x \in Callers : stage'[q] = "init" /\ stage'[x] = "init" => q = x
      /\ \A q \in Callers : stage'[q] = "init" => init_in_progress' /\ state' = "Empty"
  BY <1>2, <1>4, ZenonT(40) DEF CallerInv
<1>7. at' \notin StartPlaces \cup {"fail", "failstop", "failed"} BY PlaceSets, Zenon
<1> QED BY <1>3, <1>5, <1>6, <1>7, Zenon DEF CallerInv

\* commit_startup fails, or lets the workers go and returns.
LEMMA CommitStep ==
    ASSUME TypeOK, InductiveInvariant, CommitStartup
    PROVE  (TypeOK /\ InductiveInvariant)'
<1> USE DEF InductiveInvariant
<1>1. /\ at = "commit" /\ at \in StartPlaces /\ at # "supervisor"
      /\ UNCHANGED <<stop_cause, startup_error, startup_stop, ownVars, threadVars, pubVars,
                     supervisor_stop, sealed, terminal_detach_requested, shutdown_requested,
                     activation_requested, activation_result, join_failures>>
  BY DEF CommitStartup, StartPlaces
<1>2. /\ LifeType /\ OwnType /\ ThreadType /\ CommandType /\ PubType /\ CallType /\ PlaceType
      /\ OwnType' /\ ThreadType' /\ PubType'
  BY <1>1, TypeGroups, TypeFrames
<1>3. startup_owner \in Callers /\ supervisor
  BY <1>1, <1>2, PlaceSets DEF CallerInv, PlaceType, ThreadInv
<1>4. UNCHANGED <<owners, supervisor, runtime_updates_enabled, init_in_progress, thread>>
  BY <1>1, Zenon DEF ownVars, threadVars
<1>5. CASE /\ CommitAllowed /\ state' = "Active" /\ health' = "Healthy" /\ data_plane_released' = TRUE
           /\ update_admission_open' = runtime_updates_enabled /\ Return(startup_owner, "ok")
           /\ startup_owner' = NoCaller /\ at' = "none" /\ UNCHANGED error
  <2>1. state = "Starting" /\ stop_cause' = "None" BY <1>1, <1>5, Zenon DEF
                           CommitAllowed
  <2>2. "ok" \in Codes BY Zenon DEF Codes
  <2>3. PICK p \in Callers : p = startup_owner BY <1>3, Zenon
  <2>4. /\ CallType' /\ returned'[p] = "ok"
        /\ \A q \in Callers : q # p => returned'[q] = returned[q]
    BY <1>2, <1>5, <2>2, <2>3, Returned, Zenon
  <2>5. LifeType' BY <1>1, <1>2, <1>5, Zenon DEF LifeType, States, OwnType
  <2>6. CommandType' BY <1>1, <1>2, <1>5, Zenon DEF CommandType
  <2>7. PlaceType' BY <1>1, <1>2, <1>5, PlaceSets, Zenon DEF PlaceType
  <2>8. TypeOK' BY <1>2, <2>4, <2>5, <2>6, <2>7, TypeGroupsNext, Zenon
  <2>9. CallerInv' BY <1>2, <1>3, <1>4, <1>5, <2>1, <2>2, HolderReturns, Zenon
  <2>10. at' \notin StartPlaces \cup TeardownPlaces \cup {"fail", "failstop", "enter", "failed"}
         /\ state' \notin AtRest
    BY <1>5, PlaceSets, Zenon DEF AtRest
  <2>11. StateInv' BY <1>4, <1>5, <2>1, <2>10, Zenon DEF StateInv
  <2>12. \A q \in Callers : returned'[q] \notin {"Cancelled", "InitFailed"}
    BY <2>1, <2>4, Zenon DEF StartInv
  <2>13. StartInv' BY <1>5, <2>10, <2>12, Zenon DEF StartInv
  <2>14. ThreadInv' BY <1>3, <1>4, <2>10, PlaceSets, Zenon DEF ThreadInv
  <2>15. RecordInv' BY <2>10, PlaceSets, Zenon DEF RecordInv
  <2> QED BY <2>8, <2>9, <2>11, <2>13, <2>14, <2>15, Zenon
<1>6. CASE /\ at' = "fail" /\ error' \in {"InitFailed", "Cancelled"}
           /\ UNCHANGED <<state, health, data_plane_released, update_admission_open, callVars,
                          startup_owner>>
  <2>1. StartKeeps /\ UNCHANGED <<lifeVars, owners, data_plane_released>>
    BY <1>1, <1>4, <1>6, Zenon DEF StartKeeps, lifeVars
  <2>2. CommandType' BY <1>1, <1>2, <1>6, Zenon DEF CommandType
  <2> QED BY <1>1, <1>2, <1>3, <1>4, <1>6, <2>1, <2>2, StartMoves, Zenon DEF OwnType
<1> QED BY <1>5, <1>6, Zenon DEF CommitStartup, FailsStart, Goes

\* The rollback of a failed start: a holder that does not start and is not yet in
\* finish_teardown, with the service told to stop.
LEMMA RollbackStep ==
    ASSUME TypeOK, InductiveInvariant, FailStart \/ FailStartStop
    PROVE  (TypeOK /\ InductiveInvariant)'
<1> USE DEF InductiveInvariant
<1>1. /\ StartKeeps /\ UNCHANGED <<owners, supervisor, threadVars, error>>
      /\ \/ at = "fail" /\ at' = "failstop"
         \/ at = "failstop" /\ at' = "enter"
  BY Zenon DEF FailStart, FailStartStop, Goes
<1>2. Calling(startup_owner, "start") /\ NobodyServed /\ state \in {"Starting", "Stopping"}
  BY <1>1, Zenon DEF CallerInv, StartInv, StateInv
<1>3. /\ LifeType /\ OwnType /\ ThreadType /\ CommandType /\ PubType /\ CallType /\ PlaceType
  BY TypeGroups, Zenon
<1>4. /\ LifeType' /\ CommandType' /\ UNCHANGED data_plane_released
      /\ update_admission_open' = FALSE /\ state' = "Stopping"
      /\ stop_cause' # "None" => health' = "Unavailable"
  <2>1. CASE FailStart
    <3>1. LifeType' BY <1>3, <2>1, Zenon DEF FailStart, Stopping, LifeType,
                       PlaceType, States, Causes
    <3>2. state' = "Stopping" BY <1>2, <2>1 DEF FailStart, Stopping
    <3>3. CommandType' /\ UNCHANGED data_plane_released
      BY <1>3, <2>1, TypeFrames DEF FailStart, commandVars
    <3> QED BY <2>1, <3>1, <3>2, <3>3 DEF FailStart
  <2>2. CASE FailStartStop
    <3>1. at = "failstop" /\ RuntimeStop BY <2>2, Zenon DEF FailStartStop, Goes
    <3>2. state = "Stopping" BY <1>2, <3>1, Zenon DEF StartInv
    <3>3. stop_cause # "None" => health = "Unavailable" BY Zenon DEF StateInv
    <3> QED BY <1>3, <3>1, <3>2, <3>3, RuntimeStopped, Zenon
  <2> QED BY <2>1, <2>2, Zenon
<1>5. UNCHANGED <<startup_owner, calls, stage, returned, init_in_progress, runtime_updates_enabled,
                  join_failures, pubVars, callVars, thread>>
  BY <1>1, Zenon DEF StartKeeps, callVars, threadVars
<1>6. TypeOK'
  <2>1. ThreadType' /\ PubType' /\ CallType' BY <1>1, <1>3, <1>5, TypeFrames, Zenon
  <2>2. OwnType' BY <1>1, <1>3, <1>5, Zenon DEF OwnType
  <2>3. PlaceType' BY <1>1, <1>3, <1>5, PlaceSets, Zenon DEF PlaceType
  <2> QED BY <1>4, <2>1, <2>2, <2>3, TypeGroupsNext, Zenon
<1>7. CallerInv' BY <1>1, <1>2, <1>5, HolderFrame, Zenon
<1>8. /\ at' \notin StartPlaces \cup TeardownPlaces \cup {"fail"} /\ at # "none"
      /\ state' \notin AtRest
  BY <1>1, <1>4, PlaceSets, Zenon DEF AtRest
<1>9. StateInv' BY <1>1, <1>2, <1>4, <1>8, Zenon DEF StateInv
<1>10. StartInv'
  <2>1. Starting BY <1>2, <1>8, Zenon DEF Starting
  <2>2. error # "None" BY <1>1, <1>2, Zenon DEF StartInv
  <2>3. Rollback' BY <1>1, <1>4, <1>8, <2>2, Zenon DEF Rollback
  <2> QED BY <1>4, <1>5, <2>1, <2>3, StartFrame, Zenon DEF Over
<1>11. ThreadInv' BY <1>1, <1>5, <1>8, PlaceSets, Zenon DEF ThreadInv
<1>12. RecordInv' BY <1>8, PlaceSets, Zenon DEF RecordInv
<1> QED BY <1>6, <1>7, <1>9, <1>10, <1>11, <1>12, Zenon

\* fail_start answers.
LEMMA FailStartReturnStep ==
    ASSUME TypeOK, InductiveInvariant, FailStartReturn
    PROVE  (TypeOK /\ InductiveInvariant)'
<1> USE DEF InductiveInvariant
<1>1. /\ at = "failed" /\ at' = "none" /\ startup_owner' = NoCaller
      /\ UNCHANGED <<lifeVars, ownVars, threadVars, commandVars, pubVars, error, join_failures>>
  BY Zenon DEF FailStartReturn, Goes
<1>2. /\ LifeType /\ PlaceType /\ CallType
      /\ LifeType' /\ OwnType' /\ ThreadType' /\ CommandType' /\ PubType'
  BY <1>1, TypeGroups, TypeFrames, Zenon
<1>3. UNCHANGED <<state, stop_cause, health, update_admission_open, init_in_progress, owners,
                  supervisor, thread, data_plane_released>>
  BY <1>1, Zenon DEF lifeVars, ownVars, threadVars, commandVars
<1>4. Calling(startup_owner, "start") /\ startup_owner \in Callers
  BY <1>1, <1>2, Zenon DEF CallerInv, PlaceType
<1>5. NobodyServed /\ error # "None" /\ Over BY <1>1, <1>4, Zenon DEF StartInv, Over
<1>6. PICK code \in {"Cancelled", "InitFailed"} : Return(startup_owner, code)
  BY <1>2, <1>5, Zenon DEF FailStartReturn, LifeType, PlaceType, Errors
<1>7. code \in Codes BY Zenon DEF Codes
<1>8. PICK p \in Callers : p = startup_owner BY <1>4, Zenon
<1>9. CallType' /\ \A q \in Callers : q # p => returned'[q] = returned[q]
  BY <1>2, <1>6, <1>7, <1>8, Returned, Zenon
<1>10. CallerInv' BY <1>1, <1>2, <1>3, <1>4, <1>6, <1>7, HolderReturns, Zenon
<1>11. PlaceType' BY <1>1, <1>2, PlaceSets, Zenon DEF PlaceType
<1>12. TypeOK' BY <1>2, <1>9, <1>11, TypeGroupsNext, Zenon
<1>13. at' \notin StartPlaces \cup TeardownPlaces \cup {"fail", "failstop", "enter", "failed"}
  BY <1>1, PlaceSets, Zenon
<1>14. StateInv'
  <2>1. state # "Starting" BY <1>5, Zenon DEF Over
  <2> QED BY <1>3, <1>13, <2>1, Zenon DEF StateInv
<1>15. StartInv'
  <2>1. NobodyServed' /\ Over' BY <1>3, <1>5, Zenon DEF NobodyServed, Over
  <2> QED BY <1>1, <1>13, <2>1, Zenon DEF StartInv, Over
<1>16. ThreadInv' BY <1>3, <1>13, PlaceSets, Zenon DEF ThreadInv
<1>17. RecordInv' BY <1>1, <1>3, <1>13, PlaceSets, Zenon DEF RecordInv, pubVars
<1> QED BY <1>10, <1>12, <1>14, <1>15, <1>16, <1>17, Zenon
-----------------------------------------------------------------------------
(* finish_teardown *)

\* finish_teardown goes on: it joins C before A, answers A's last update after it has
\* joined A, and reclaims after it has joined B.
LEMMA TeardownMoves ==
    ASSUME TypeOK, InductiveInvariant, TeardownKeeps, LifeKept, ThreadType', CommandType', PubType',
           UNCHANGED data_plane_released, at \in TeardownPlaces, at' \in TeardownPlaces,
           \A r \in Roles : thread[r] = "none" => thread'[r] = "none",
           at' \in AfterC => at \in AfterC \/ thread'["C"] = "none",
           at' \in AfterA => at \in AfterA \/ thread'["A"] = "none",
           at' \in AfterUpdate => update' = "none",
           at' = "release" => thread'["B"] = "none" /\ ~retired' /\ ~terminal'
    PROVE  (TypeOK /\ InductiveInvariant)'
<1> USE DEF InductiveInvariant
<1>1. UNCHANGED <<lifeVars, state, stop_cause, health, update_admission_open, owners, supervisor,
                  callVars, calls, stage, returned, startup_owner, join_failures, init_in_progress,
                  runtime_updates_enabled, error>>
  BY Zenon DEF TeardownKeeps, LifeKept, lifeVars, callVars
<1>2. TypeOK'
  <2>1. LifeType' /\ CallType' BY <1>1, TypeGroups, TypeFrames, Zenon
  <2>2. OwnType' BY <1>1, TypeGroups, Zenon DEF OwnType
  <2>3. PlaceType' BY <1>1, TypeGroups, PlaceSets, Zenon DEF PlaceType
  <2> QED BY <2>1, <2>2, <2>3, TypeGroupsNext, Zenon
<1>3. /\ at # "none" /\ at' # "none"
      /\ at' \notin StartPlaces \cup {"fail", "failstop", "failed", "enter"}
  BY PlaceSets, Zenon
<1>4. state \in {"Active", "Stopping"} /\ state' \notin AtRest BY <1>1, Zenon DEF
                           StateInv, AtRest
<1>5. CallerInv' BY <1>1, <1>3, HolderFrame, Zenon
<1>6. StateInv' BY <1>1, <1>3, <1>4, Zenon DEF StateInv
<1>7. StartInv'
  <2>1. Starting' => Starting BY <1>1, <1>3, Zenon DEF Starting, Calling
  <2>2. Calling(startup_owner, "start")' => Calling(startup_owner, "start") BY <1>1,
                           Zenon DEF Calling
  <2>3. Calling(startup_owner, "start") => error # "None" /\ state = "Stopping"
    BY <1>4, Zenon DEF StartInv
  <2>4. Rollback' BY <1>1, <1>3, <2>2, <2>3, Zenon DEF Rollback
  <2> QED BY <1>1, <2>1, <2>4, StartFrame, Zenon DEF Over
<1>8. ThreadInv'
  <2>1. "A" \in Roles /\ "B" \in Roles /\ "C" \in Roles BY Zenon DEF Roles
  <2> QED BY <1>1, <1>3, <1>4, <2>1, Zenon DEF ThreadInv
<1>9. RecordInv' BY <1>4, Zenon DEF RecordInv
<1> QED BY <1>2, <1>5, <1>6, <1>7, <1>8, <1>9, Zenon
\* A join leaves no thread of its role.
LEMMA JoinedThread ==
    ASSUME ThreadType, NEW r \in Roles, Joined(r), UNCHANGED <<ready, result>>
    PROVE  /\ ThreadType' /\ thread'[r] = "none"
           /\ \A q \in Roles : thread[q] = "none" => thread'[q] = "none"
BY Zenon DEF ThreadType, Joined

\* The joins of C and of A.
LEMMA JoinStep ==
    ASSUME TypeOK, InductiveInvariant, JoinSupervisor \/ JoinCoordinator
    PROVE  (TypeOK /\ InductiveInvariant)'
<1>1. /\ TeardownKeeps /\ LifeKept /\ UNCHANGED <<ready, result, commandVars, pubVars>>
      /\ \/ at = "joinC" /\ at' = "drain" /\ Joined("C")
         \/ at = "joinA" /\ at' = "successor" /\ Joined("A")
  BY Zenon DEF JoinSupervisor, JoinCoordinator, Goes
<1>2. ThreadType /\ CommandType' /\ PubType' /\ UNCHANGED data_plane_released
  BY <1>1, TypeGroups, TypeFrames, Zenon DEF commandVars
<1>3. /\ ThreadType' /\ \A r \in Roles : thread[r] = "none" => thread'[r] = "none"
      /\ at = "joinC" => thread'["C"] = "none"
      /\ at = "joinA" => thread'["A"] = "none"
  BY <1>1, <1>2, JoinedThread, Zenon DEF Roles
<1>4. /\ at \in TeardownPlaces /\ at' \in TeardownPlaces
      /\ at' \in AfterC => at \in AfterC \/ thread'["C"] = "none"
      /\ at' \in AfterA => at \in AfterA \/ thread'["A"] = "none"
      /\ at' \notin AfterUpdate /\ at' # "release"
  BY <1>1, <1>3, Zenon DEF TeardownPlaces, AfterC, AfterA, AfterUpdate
<1> QED BY <1>1, <1>2, <1>3, <1>4, TeardownMoves, Zenon

\* The joins of B, each followed by the reclamation of what B left.
LEMMA JoinReclaimerStep ==
    ASSUME TypeOK, InductiveInvariant,
           \/ JoinReclaimer("joinB1", "detach") \/ JoinReclaimer("joinB2", "waitA")
           \/ JoinReclaimer("joinB3", "successor") \/ JoinReclaimer("joinB4", "release")
    PROVE  (TypeOK /\ InductiveInvariant)'
<1>1. /\ TeardownKeeps /\ LifeKept /\ UNCHANGED <<ready, result, commandVars, update, detached>>
      /\ Joined("B") /\ retired' = FALSE /\ terminal' = FALSE
      /\ \/ at = "joinB1" /\ at' = "detach"
         \/ at = "joinB2" /\ at' = "waitA"
         \/ at = "joinB3" /\ at' = "successor"
         \/ at = "joinB4" /\ at' = "release"
  BY Zenon DEF JoinReclaimer, Goes
<1>2. ThreadType /\ CommandType' /\ UNCHANGED data_plane_released
  BY <1>1, TypeGroups, TypeFrames, Zenon DEF commandVars
<1>3. PubType' BY <1>1, TypeGroups, Zenon DEF PubType
<1>4. /\ ThreadType' /\ thread'["B"] = "none"
      /\ \A r \in Roles : thread[r] = "none" => thread'[r] = "none"
  BY <1>1, <1>2, JoinedThread DEF Roles
<1>5. /\ at \in TeardownPlaces /\ at' \in TeardownPlaces
      /\ at' \in AfterC => at \in AfterC
      /\ at' \in AfterA => at \in AfterA
      /\ at' \in AfterUpdate => at \in AfterUpdate
  BY <1>1 DEF TeardownPlaces, AfterC, AfterA, AfterUpdate
<1>6. at' \in AfterUpdate => update' = "none"
  BY <1>1, <1>5 DEF InductiveInvariant, RecordInv
<1> QED BY <1>1, <1>2, <1>3, <1>4, <1>5, <1>6, TeardownMoves, Zenon

\* The steps of finish_teardown that join nobody.
LEMMA TeardownCommandStep ==
    ASSUME TypeOK, InductiveInvariant,
           \/ DrainWorkers \/ RequestTerminalDetach \/ AwaitCoordinator
           \/ CompleteCommitted \/ DetachTerminal \/ ShutdownReclaimer
    PROVE  (TypeOK /\ InductiveInvariant)'
<1>1. /\ TeardownKeeps /\ LifeKept /\ UNCHANGED <<threadVars, data_plane_released>>
      /\ \/ at = "drain" /\ at' \in {"joinB1", "detach"} /\ UNCHANGED update
         \/ at = "detach" /\ at' \in {"waitA", "joinA"} /\ UNCHANGED update
         \/ at = "waitA" /\ at' \in {"joinA", "joinB2"} /\ UNCHANGED update
         \/ at = "successor" /\ at' = "terminal" /\ update' = "none"
         \/ at = "successor" /\ at' = "joinB3" /\ UNCHANGED update
         \/ at = "terminal" /\ at' = "shutdown" /\ UNCHANGED update
         \/ at = "shutdown" /\ at' = "joinB4" /\ UNCHANGED update
  BY Zenon DEF DrainWorkers, RequestTerminalDetach, AwaitCoordinator,
     CompleteCommitted, DetachTerminal, ShutdownReclaimer, Goes, commandVars,
     pubVars
<1>2. /\ CommandType /\ PubType /\ OwnType /\ ThreadType /\ ThreadType' /\ UNCHANGED thread
  BY <1>1, TypeGroups, TypeFrames, Zenon DEF threadVars
<1>3. CommandType' /\ PubType'
  <2>1. CASE DrainWorkers \/ AwaitCoordinator \/ CompleteCommitted
    <3>1. UNCHANGED <<commandVars, retired, terminal, detached>>
      BY <2>1, Zenon DEF DrainWorkers, AwaitCoordinator, CompleteCommitted, pubVars
    <3> QED BY <1>1, <1>2, <3>1, TypeFrames, Zenon DEF PubType
  <2>2. CASE RequestTerminalDetach
    <3>1. PubType' BY <1>2, <2>2, TypeFrames, Zenon DEF RequestTerminalDetach
    <3>2. CommandType' BY <1>2, <2>2, Zenon DEF RequestTerminalDetach, CommandType,
                          OwnType
    <3> QED BY <3>1, <3>2, Zenon
  <2>3. CASE DetachTerminal
    <3>1. PubType' BY <1>2, <2>3, Zenon DEF DetachTerminal, PubType
    <3>2. CommandType' BY <1>2, <2>3, Zenon DEF DetachTerminal, CommandType
    <3> QED BY <3>1, <3>2
  <2>4. CASE ShutdownReclaimer
    <3>1. PubType' BY <1>2, <2>4, TypeFrames, Zenon DEF ShutdownReclaimer
    <3>2. CommandType' BY <1>2, <2>4, Zenon DEF ShutdownReclaimer, CommandType
    <3> QED BY <3>1, <3>2
  <2> QED BY <2>1, <2>2, <2>3, <2>4, Zenon
<1>4. /\ at \in TeardownPlaces /\ at' \in TeardownPlaces
      /\ at' \in AfterC => at \in AfterC
      /\ at' \in AfterA => at \in AfterA
      /\ at' \in AfterUpdate => at \in AfterUpdate \/ update' = "none"
      /\ at' # "release"
  BY <1>1, Zenon DEF TeardownPlaces, AfterC, AfterA, AfterUpdate
<1>5. at' \in AfterUpdate => update' = "none"
  BY <1>1, <1>4, Zenon DEF InductiveInvariant, RecordInv, AfterUpdate
<1> QED BY <1>1, <1>2, <1>3, <1>4, <1>5, TeardownMoves, Zenon

\* finish_teardown begins.
LEMMA TeardownStopStep ==
    ASSUME TypeOK, InductiveInvariant, TeardownStop
    PROVE  (TypeOK /\ InductiveInvariant)'
<1> USE DEF InductiveInvariant
<1>1. /\ at = "enter" /\ at' = "joinC" /\ state \notin AtRest /\ RuntimeStop /\ TeardownKeeps
      /\ UNCHANGED <<owners, supervisor, threadVars, pubVars, callVars, startup_owner, join_failures>>
  BY DEF TeardownStop, Goes
<1>2. LifeType /\ OwnType /\ ThreadType /\ CommandType /\ PubType /\ CallType /\ PlaceType
  BY TypeGroups, Zenon
<1>3. /\ LifeType' /\ CommandType' /\ update_admission_open' = FALSE
      /\ UNCHANGED <<state, stop_cause, health, data_plane_released>>
  BY <1>1, <1>2, RuntimeStopped, Zenon
<1>4. UNCHANGED <<calls, stage, returned, thread, init_in_progress, runtime_updates_enabled, error>>
  BY <1>1, Zenon DEF callVars, threadVars, TeardownKeeps
<1>5. TypeOK'
  <2>1. ThreadType' /\ PubType' /\ CallType' BY <1>1, <1>2, TypeFrames, Zenon
  <2>2. OwnType' BY <1>1, <1>2, <1>4, Zenon DEF OwnType
  <2>3. "joinC" \in TeardownPlaces BY Zenon DEF TeardownPlaces
  <2>4. PlaceType' BY <1>1, <1>2, <1>4, <2>3, PlaceSets, Zenon DEF PlaceType
  <2> QED BY <1>3, <2>1, <2>2, <2>4, TypeGroupsNext, Zenon
<1>6. /\ at' \in TeardownPlaces /\ at' \notin AfterC /\ at' \notin AfterA /\ at' \notin AfterUpdate
      /\ at' \notin StartPlaces \cup {"none", "fail", "failstop", "failed", "enter", "release"}
      /\ at \notin StartPlaces \cup {"none", "fail"}
  BY <1>1, Zenon DEF TeardownPlaces, AfterC, AfterA, AfterUpdate, StartPlaces
<1>7. state \in {"Active", "Stopping"} /\ state' \notin AtRest
  BY <1>1, <1>2, <1>3, <1>6, Zenon DEF LifeType, States, AtRest, StateInv
<1>8. CallerInv' BY <1>1, <1>3, <1>4, <1>6, HolderFrame, Zenon
<1>9. StateInv' BY <1>1, <1>3, <1>6, <1>7, Zenon DEF StateInv
<1>10. StartInv'
  <2>1. Starting' => Starting BY <1>1, <1>4, <1>6, Zenon DEF Starting, Calling
  <2>2. Calling(startup_owner, "start")' => error # "None" /\ state = "Stopping"
    BY <1>1, <1>4, <1>7, Zenon DEF StartInv, Calling
  <2>3. Rollback' BY <1>3, <1>4, <1>6, <2>2, Zenon DEF Rollback
  <2> QED BY <1>3, <1>4, <2>1, <2>3, StartFrame, Zenon DEF Over
<1>11. ThreadInv' BY <1>1, <1>4, <1>6, <1>7, Zenon DEF ThreadInv
<1>12. RecordInv' BY <1>6, <1>7, Zenon DEF RecordInv
<1> QED BY <1>5, <1>8, <1>9, <1>10, <1>11, <1>12, ZenonT(40)
\* finish_teardown returns, to fail_start or to the caller of join or wait.
LEMMA FinishStep ==
    ASSUME TypeOK, InductiveInvariant, at \in TeardownPlaces \cup {"enter"},
           NEW code \in Codes, code \notin {"Cancelled", "InitFailed"}, Finish(code), TeardownKeeps,
           UNCHANGED <<stop_cause, update_admission_open, threadVars, commandVars, pubVars>>,
           LifeType', owners' \in BOOLEAN, supervisor' \in BOOLEAN,
           join_failures' \in 0 .. MaxJoinFailures,
           UNCHANGED state \/ state' \in {"Stopping", "Stopped", "Failed"},
           state = "Empty" => state' = "Empty",
           owners' <=> state' \in {"Initialized", "Starting", "Active", "Stopping"},
           stop_cause # "None" => health' = "Unavailable",
           ThreadInv /\ RecordInv =>
               /\ state' \in AtRest => /\ ~supervisor' /\ \A r \in Roles : thread[r] = "none"
                                       /\ update = "none" /\ ~retired /\ ~terminal
               /\ thread["C"] # "none" => supervisor'
    PROVE  (TypeOK /\ InductiveInvariant)'
<1> USE DEF InductiveInvariant
<1>1. LifeType /\ OwnType /\ ThreadType /\ CommandType /\ PubType /\ CallType /\ PlaceType
  BY TypeGroups, Zenon
<1>2. UNCHANGED <<init_in_progress, runtime_updates_enabled, error, data_plane_released, thread,
                  update, retired, terminal>>
  BY Zenon DEF TeardownKeeps, commandVars, threadVars, pubVars
<1>3. at # "none" /\ at \notin StartPlaces \cup {"fail"} BY PlaceSets, Zenon
<1>4. startup_owner \in Callers BY <1>1, <1>3, Zenon DEF CallerInv, PlaceType
<1>5. state # "Starting" /\ state' # "Starting" BY <1>3, Zenon DEF StateInv
<1>6. \/ at' = "failed" /\ Calling(startup_owner, "start") /\ UNCHANGED <<startup_owner, callVars>>
      \/ at' = "none" /\ startup_owner' = NoCaller /\ Return(startup_owner, code)
  BY Zenon DEF Finish
<1>7. /\ CallType' /\ startup_owner' \in Callers \cup {NoCaller}
      /\ \A q \in Callers : returned'[q] \in {"Cancelled", "InitFailed"} =>
                                returned[q] \in {"Cancelled", "InitFailed"}
  <2>1. CASE UNCHANGED <<startup_owner, callVars>> BY <1>1, <1>4, <2>1, TypeFrames,
                           Zenon DEF callVars
  <2>2. CASE startup_owner' = NoCaller /\ Return(startup_owner, code)
    <3>1. PICK p \in Callers : p = startup_owner BY <1>4
    <3> QED BY <1>1, <2>2, <3>1, Returned
  <2> QED BY <1>6, <2>1, <2>2, Zenon
<1>8. TypeOK'
  <2>1. ThreadType' /\ CommandType' /\ PubType' BY <1>1, TypeFrames, Zenon
  <2>2. OwnType' BY <1>1, <1>2, Zenon DEF OwnType
  <2>3. PlaceType' BY <1>1, <1>2, <1>6, <1>7, PlaceSets, Zenon DEF PlaceType
  <2> QED BY <1>7, <2>1, <2>2, <2>3, TypeGroupsNext, Zenon
<1>9. CallerInv'
  <2>1. CASE at' = "failed" /\ Calling(startup_owner, "start") /\ UNCHANGED <<startup_owner, callVars>>
    BY <1>2, <1>3, <2>1, HolderFrame, Zenon
  <2>2. CASE at' = "none" /\ startup_owner' = NoCaller /\ Return(startup_owner, code)
    BY <1>1, <1>2, <1>4, <2>2, HolderReturns, Zenon
  <2> QED BY <1>6, <2>1, <2>2, Zenon
<1>10. at' \notin StartPlaces \cup TeardownPlaces \cup {"fail", "failstop", "enter"}
  BY <1>6, PlaceSets, Zenon
<1>11. StateInv'
  <2>1. state' \in {"Empty", "Initialized"} => stop_cause' = "None" BY Zenon DEF
                           StateInv
  <2> QED BY <1>5, <1>10, <2>1, Zenon DEF StateInv
<1>12. StartInv'
  <2>1. Starting' => Starting /\ at' = "failed" BY <1>3, <1>6, Zenon DEF Starting,
                           Calling, callVars
  <2>2. Starting => error # "None" /\ state = "Stopping" BY <1>10, PlaceSets, Zenon
                           DEF StartInv, Starting
  <2>3. at' = "failed" => error # "None" /\ state' \in {"Stopping", "Stopped", "Failed"}
    BY <1>3, <1>6, <2>2, Zenon DEF Starting
  <2>4. Rollback' BY <1>2, <1>10, <2>3, Zenon DEF Rollback
  <2> QED BY <1>2, <1>5, <1>7, <2>1, <2>4, StartFrame, Zenon DEF Over
<1>13. ThreadInv' BY <1>2, <1>10, PlaceSets, Zenon DEF ThreadInv
<1>14. RecordInv' BY <1>2, <1>10, PlaceSets, Zenon DEF RecordInv
<1> QED BY <1>8, <1>9, <1>11, <1>12, <1>13, <1>14, Zenon

\* The three ways in which finish_teardown returns.
LEMMA TeardownReturnsStep ==
    ASSUME TypeOK, InductiveInvariant, TeardownNotNeeded \/ ReleaseOwners \/ TeardownIncomplete
    PROVE  (TypeOK /\ InductiveInvariant)'
<1> USE DEF InductiveInvariant
<1>1. LifeType /\ OwnType /\ PlaceType BY TypeGroups
<1>2. /\ ExitCode \in Codes /\ ExitCode \notin {"Cancelled", "InitFailed"}
      /\ "TeardownIncomplete" \in Codes
  BY Zenon DEF ExitCode, Codes
<1>3. CASE TeardownNotNeeded
  <2>1. /\ at \in TeardownPlaces \cup {"enter"} /\ Finish(ExitCode) /\ TeardownKeeps
        /\ UNCHANGED <<lifeVars, owners, supervisor, threadVars, commandVars, pubVars, join_failures>>
    BY <1>3, Zenon DEF TeardownNotNeeded
  <2>2. LifeType' /\ UNCHANGED <<state, stop_cause, health, update_admission_open>>
    BY <1>1, <2>1, TypeFrames, Zenon DEF lifeVars
  <2>3. /\ owners' \in BOOLEAN /\ supervisor' \in BOOLEAN /\ join_failures' \in 0 .. MaxJoinFailures
    BY <1>1, <2>1, Zenon DEF OwnType, PlaceType
  <2>4. /\ owners' <=> state' \in {"Initialized", "Starting", "Active", "Stopping"}
        /\ stop_cause # "None" => health' = "Unavailable"
    BY <2>1, <2>2, Zenon DEF StateInv
  <2>5. /\ state' \in AtRest => /\ ~supervisor' /\ \A r \in Roles : thread[r] = "none"
                                /\ update = "none" /\ ~retired /\ ~terminal
        /\ thread["C"] # "none" => supervisor'
    BY <2>1, <2>2, Zenon DEF ThreadInv, RecordInv
  <2> QED BY <1>2, <2>1, <2>2, <2>3, <2>4, <2>5, FinishStep, Zenon
<1>4. CASE ReleaseOwners
  <2>1. /\ at = "release" /\ Finish(ExitCode) /\ TeardownKeeps
        /\ owners' = FALSE /\ supervisor' = FALSE /\ health' = "Unavailable"
        /\ state' \in {"Stopped", "Failed"}
        /\ UNCHANGED <<stop_cause, startup_error, startup_stop, update_admission_open, threadVars,
                       commandVars, pubVars, join_failures>>
    BY <1>4, Zenon DEF ReleaseOwners
  <2>2. LifeType' BY <1>1, <2>1, Zenon DEF LifeType, States
  <2>3. join_failures' \in 0 .. MaxJoinFailures /\ at \in TeardownPlaces
    BY <1>1, <2>1, Zenon DEF PlaceType, TeardownPlaces
  <2>4. state # "Empty" BY <2>3, Zenon DEF StateInv
  <2>5. /\ \A r \in Roles : thread[r] = "none"
        /\ update = "none" /\ ~retired /\ ~terminal
    BY <2>1, PlaceSets, Zenon DEF ThreadInv, RecordInv, Roles
  <2>6. "C" \in Roles BY Zenon DEF Roles
  <2> QED BY <1>2, <2>1, <2>2, <2>3, <2>4, <2>5, <2>6, FinishStep, ZenonT(40)
<1>5. CASE TeardownIncomplete
  <2>1. /\ at \in MayFail /\ join_failures < MaxJoinFailures /\ join_failures' = join_failures + 1
        /\ state' = "Stopping" /\ health' = "Unavailable" /\ Finish("TeardownIncomplete")
        /\ TeardownKeeps
        /\ UNCHANGED <<stop_cause, startup_error, startup_stop, update_admission_open, owners,
                       supervisor, threadVars, commandVars, pubVars>>
    BY <1>5, Zenon DEF TeardownIncomplete
  <2>2. LifeType' BY <1>1, <2>1, Zenon DEF LifeType, States
  <2>3. join_failures' \in 0 .. MaxJoinFailures BY <1>1, <2>1, FailuresAssumption,
                           SMTT(30) DEF PlaceType
  <2>4. at \in TeardownPlaces BY <2>1, PlaceSets, Zenon
  <2>5. state \in {"Active", "Stopping"} BY <2>4, Zenon DEF StateInv
  <2>6. owners' /\ owners' \in BOOLEAN /\ supervisor' \in BOOLEAN
    BY <1>1, <2>1, <2>5, Zenon DEF OwnType, StateInv
  <2>7. state' \notin AtRest /\ (thread["C"] # "none" => supervisor')
    BY <2>1, Zenon DEF AtRest, ThreadInv
  <2> QED BY <1>2, <2>1, <2>2, <2>3, <2>4, <2>5, <2>6, <2>7, FinishStep, ZenonT(40)
<1> QED BY <1>3, <1>4, <1>5, Zenon
-----------------------------------------------------------------------------
(* The callers that do not hold startup_mutex_ *)

\* A caller that does not hold startup_mutex_ takes a step of its call.
LEMMA CallerFrame ==
    ASSUME TypeOK, InductiveInvariant, NEW p \in Callers, stage[p] # "owner", stage'[p] # "owner",
           UNCHANGED <<supervisor, threadVars, data_plane_released, pubVars, placeVars>>,
           LifeType', OwnType', CommandType', CallType',
           \A q \in Callers : q # p => /\ calls'[q] = calls[q] /\ stage'[q] = stage[q]
                                       /\ returned'[q] = returned[q],
           returned'[p] = returned[p] \/ returned'[p] \notin {"Cancelled", "InitFailed"},
           stage'[p] \in {"stop", "lock"} => ~Calling(p, "start")',
           \A q \in Callers : stage'[q] = "init" => init_in_progress' /\ state' = "Empty",
           \A q, x \in Callers : stage'[q] = "init" /\ stage'[x] = "init" => q = x,
           \/ UNCHANGED state
           \/ state = "Empty" /\ state' = "Initialized"
           \/ state = "Initialized" /\ state' = "Stopped"
           \/ state \in {"Starting", "Active", "Stopping"} /\ state' = "Stopping",
           owners' <=> state' \in {"Initialized", "Starting", "Active", "Stopping"},
           update_admission_open' => update_admission_open,
           state' \in {"Empty", "Initialized"} => stop_cause' = "None",
           stop_cause' # "None" \/ state' = "Starting" => health' = "Unavailable"
    PROVE  (TypeOK /\ InductiveInvariant)'
<1> USE DEF InductiveInvariant
<1>1. /\ ThreadType' /\ PubType' /\ PlaceType' /\ PlaceType BY TypeGroups,
                           TypeFrames, Zenon
<1>2. TypeOK' BY <1>1, TypeGroupsNext, Zenon
<1>3. UNCHANGED <<thread, startup_owner, at, error, update, retired, terminal>>
  BY Zenon DEF threadVars, placeVars, pubVars
<1>4. at # "none" => startup_owner \in Callers /\ startup_owner # p
  BY <1>1, Zenon DEF CallerInv, PlaceType
<1>5. at # "none" => (Calling(startup_owner, "start")' <=> Calling(startup_owner, "start"))
  BY <1>3, <1>4, Zenon DEF Calling
<1>6. CallerInv'
  <2>1. \A q \in Callers : stage'[q] = "owner" <=> startup_owner' = q
    BY <1>3, ZenonT(40) DEF CallerInv
  <2>2. at' \in StartPlaces \cup {"fail", "failstop", "failed"} => Calling(startup_owner, "start")'
    BY <1>3, <1>5, PlaceSets, Zenon DEF CallerInv
  <2>3. \A q \in Callers : stage'[q] \in {"stop", "lock"} => ~Calling(q, "start")'
    BY ZenonT(40) DEF CallerInv, Calling
  <2> QED BY <1>3, <2>1, <2>2, <2>3, ZenonT(40) DEF CallerInv
<1>7. StateInv' BY <1>3, Zenon DEF StateInv
<1>8. StartInv'
  <2>1. Starting' => Starting BY <1>3, <1>5, Zenon DEF Starting
  <2>2. Rollback' BY <1>3, <1>5, PlaceSets, Zenon DEF StartInv, Rollback
  <2>3. \A q \in Callers : returned'[q] \in {"Cancelled", "InitFailed"} =>
                               returned[q] \in {"Cancelled", "InitFailed"}
    BY Zenon
  <2> QED BY <2>1, <2>2, <2>3, StartFrame, Zenon DEF Over
<1>9. state' \in AtRest => state \in AtRest BY Zenon DEF AtRest
<1>10. ThreadInv' BY <1>3, <1>9, ThreadFrame, Zenon
<1>11. RecordInv' BY <1>3, <1>9, RecordFrame, Zenon
<1> QED BY <1>2, <1>6, <1>7, <1>8, <1>10, <1>11, Zenon
\* init, from its first section to its last.
LEMMA InitStep ==
    ASSUME TypeOK, InductiveInvariant, NEW p \in Callers, InitBegin(p) \/ InitEnd(p)
    PROVE  (TypeOK /\ InductiveInvariant)'
<1> USE DEF InductiveInvariant
<1>1. LifeType /\ OwnType /\ CommandType /\ CallType BY TypeGroups, Zenon
<1>2. CASE InitBegin(p)
  <2>1. /\ Moves(p, "idle", "init") /\ state = "Empty" /\ ~init_in_progress /\ init_in_progress' = TRUE
        /\ UNCHANGED <<lifeVars, owners, supervisor, runtime_updates_enabled, threadVars,
                       commandVars, pubVars, calls, returned, placeVars>>
    BY <1>2, Zenon DEF InitBegin
  <2>2. /\ LifeType' /\ CommandType' /\ UNCHANGED <<state, stop_cause, health, update_admission_open,
                                                    data_plane_released>>
    BY <1>1, <2>1, TypeFrames, Zenon DEF lifeVars, commandVars
  <2>3. OwnType' BY <1>1, <2>1, Zenon DEF OwnType
  <2>4. /\ CallType' /\ stage'[p] = "init" /\ stage[p] = "idle"
        /\ \A q \in Callers : q # p => stage'[q] = stage[q]
    BY <1>1, <2>1, MovedOn, Zenon DEF Stages
  <2>5. \A q \in Callers : stage'[q] = "init" => q = p BY <2>1, <2>4, Zenon DEF
                           CallerInv
  <2>6. /\ owners' <=> state' \in {"Initialized", "Starting", "Active", "Stopping"}
        /\ state' \in {"Empty", "Initialized"} => stop_cause' = "None"
        /\ stop_cause' # "None" \/ state' = "Starting" => health' = "Unavailable"
    BY <2>1, <2>2, Zenon DEF StateInv
  <2> QED BY <2>1, <2>2, <2>3, <2>4, <2>5, <2>6, CallerFrame, Zenon
<1>3. CASE InitEnd(p)
  <2>1. /\ stage[p] = "init" /\ init_in_progress' = FALSE
        /\ UNCHANGED <<stop_cause, startup_error, startup_stop, update_admission_open, health,
                       supervisor, runtime_updates_enabled, threadVars, commandVars, pubVars,
                       placeVars>>
    BY <1>3, Zenon DEF InitEnd
  <2>2. PICK code \in {"ok", "error"} : Return(p, code) BY <1>3, Zenon DEF InitEnd
  <2>3. code \in Codes BY Zenon DEF Codes
  <2>4. /\ CallType' /\ returned'[p] = code /\ stage'[p] = "idle"
        /\ \A q \in Callers : q # p => /\ calls'[q] = calls[q] /\ stage'[q] = stage[q]
                                       /\ returned'[q] = returned[q]
    BY <1>1, <2>2, <2>3, Returned, Zenon
  <2>5. state = "Empty" /\ \A q \in Callers : stage'[q] # "init"
    BY <2>1, <2>4, Zenon DEF CallerInv
  <2>6. \/ owners' = TRUE /\ state' = "Initialized"
        \/ UNCHANGED <<owners, state>>
    BY <1>3, Zenon DEF InitEnd
  <2>7. LifeType' BY <1>1, <2>1, <2>6, Zenon DEF LifeType, States
  <2>8. OwnType' BY <1>1, <2>1, <2>6, ZenonT(40) DEF OwnType
  <2>9. CommandType' /\ UNCHANGED data_plane_released BY <1>1, <2>1, TypeFrames DEF
                           commandVars
  <2>10. owners' <=> state' \in {"Initialized", "Starting", "Active", "Stopping"}
    BY <2>5, <2>6 DEF StateInv
  <2>11. stop_cause' = "None" BY <2>1, <2>5, Zenon DEF StateInv
  <2>12. state' # "Starting" /\ (UNCHANGED state \/ (state = "Empty" /\ state' = "Initialized"))
    BY <2>5, <2>6, Zenon
  <2> QED BY <2>1, <2>4, <2>5, <2>7, <2>8, <2>9, <2>10, <2>11, <2>12, CallerFrame,
             ZenonT(40)
<1> QED BY <1>2, <1>3, Zenon

\* A call that is refused, or that returns because the service is empty.
LEMMA RefusedStep ==
    ASSUME TypeOK, InductiveInvariant, NEW p \in Callers,
           InitRefused(p) \/ StartRefused(p) \/ (Wait(p) /\ state = "Empty")
    PROVE  (TypeOK /\ InductiveInvariant)'
<1> USE DEF InductiveInvariant
<1>1. LifeType /\ OwnType /\ CommandType /\ CallType BY TypeGroups, ZenonT(40)
<1>2. /\ stage[p] = "idle"
      /\ UNCHANGED <<lifeVars, ownVars, threadVars, commandVars, pubVars, placeVars>>
  BY DEF InitRefused, StartRefused, Wait
<1>3. /\ ExitCode \in Codes /\ ExitCode \notin {"Cancelled", "InitFailed"} /\ "error" \in Codes
  BY Zenon DEF ExitCode, Codes
<1>4. PICK code \in Codes : code \notin {"Cancelled", "InitFailed"} /\ Return(p, code)
  BY <1>3, Zenon DEF InitRefused, StartRefused, Wait
<1>5. /\ CallType' /\ returned'[p] = code /\ stage'[p] = "idle"
      /\ \A q \in Callers : q # p => /\ calls'[q] = calls[q] /\ stage'[q] = stage[q]
                                     /\ returned'[q] = returned[q]
  BY <1>1, <1>4, Returned, Zenon
<1>6. LifeType' /\ OwnType' /\ CommandType' BY <1>1, <1>2, TypeFrames, Zenon
<1>7. UNCHANGED <<state, stop_cause, health, update_admission_open, init_in_progress, owners,
                  supervisor, data_plane_released>>
  BY <1>2, Zenon DEF lifeVars, ownVars, commandVars
<1>8. /\ \A q \in Callers : stage'[q] = "init" => stage[q] = "init"
      /\ \A q \in Callers : stage'[q] = "init" => init_in_progress' /\ state' = "Empty"
      /\ \A q, x \in Callers : stage'[q] = "init" /\ stage'[x] = "init" => q = x
  BY <1>2, <1>5, <1>7, ZenonT(40) DEF CallerInv
<1>9. /\ owners' <=> state' \in {"Initialized", "Starting", "Active", "Stopping"}
      /\ state' \in {"Empty", "Initialized"} => stop_cause' = "None"
      /\ stop_cause' # "None" \/ state' = "Starting" => health' = "Unavailable"
  BY <1>7 DEF StateInv
<1> QED BY <1>2, <1>4, <1>5, <1>6, <1>7, <1>8, <1>9, CallerFrame, ZenonT(40)

\* A caller of request_stop, join or wait moves on or returns, and makes the state what
\* it may.
LEMMA StoppingCallerStep ==
    ASSUME TypeOK, InductiveInvariant, NEW p \in Callers, stage[p] \in {"idle", "stop"},
           ~Calling(p, "start"),
           \/ Return(p, "ok")
           \/ \E to \in {"stop", "lock"} : Moves(p, stage[p], to) /\ UNCHANGED <<calls, returned>>,
           UNCHANGED <<init_in_progress, supervisor, runtime_updates_enabled, threadVars,
                       data_plane_released, pubVars, placeVars>>,
           LifeType', owners' \in BOOLEAN, CommandType',
           \/ UNCHANGED <<state, owners>>
           \/ state = "Initialized" /\ state' = "Stopped" /\ ~owners'
           \/ state \in {"Starting", "Active", "Stopping"} /\ state' = "Stopping" /\ UNCHANGED owners,
           update_admission_open' => update_admission_open,
           state' \in {"Empty", "Initialized"} => UNCHANGED stop_cause,
           UNCHANGED <<stop_cause, health, state>> \/ health' = "Unavailable"
    PROVE  (TypeOK /\ InductiveInvariant)'
<1> USE DEF InductiveInvariant
<1>1. LifeType /\ OwnType /\ CommandType /\ CallType BY TypeGroups, Zenon
<1>2. /\ CallType' /\ stage'[p] \in {"idle", "stop", "lock"}
      /\ returned'[p] = returned[p] \/ returned'[p] = "ok"
      /\ stage'[p] \in {"stop", "lock"} => UNCHANGED calls
      /\ \A q \in Callers : q # p => /\ calls'[q] = calls[q] /\ stage'[q] = stage[q]
                                     /\ returned'[q] = returned[q]
  <2>1. CASE Return(p, "ok")
    <3>1. "ok" \in Codes BY Zenon DEF Codes
    <3> QED BY <1>1, <2>1, <3>1, Returned, ZenonT(40)
  <2>2. CASE \E to \in {"stop", "lock"} : Moves(p, stage[p], to) /\ UNCHANGED <<calls, returned>>
    <3>1. PICK to \in {"stop", "lock"} : Moves(p, stage[p], to) /\ UNCHANGED <<calls, returned>>
      BY <2>2, Zenon
    <3>2. to \in Stages BY Zenon DEF Stages
    <3> QED BY <1>1, <3>1, <3>2, MovedOn, Zenon
  <2> QED BY <2>1, <2>2, Zenon
<1>3. OwnType' BY <1>1, Zenon DEF OwnType
<1>4. stage'[p] \in {"stop", "lock"} => ~Calling(p, "start")' BY <1>2, Zenon DEF
                           Calling
<1>5. \A q \in Callers : stage'[q] = "init" => stage[q] = "init" /\ q # p BY <1>2,
                           Zenon
<1>6. /\ \A q, x \in Callers : stage'[q] = "init" /\ stage'[x] = "init" => q = x
      /\ \A q \in Callers : stage'[q] = "init" => init_in_progress' /\ state' = "Empty"
  BY <1>5, Zenon DEF CallerInv
<1>7. owners' <=> state' \in {"Initialized", "Starting", "Active", "Stopping"} BY
                           Zenon DEF StateInv
<1>8. /\ state' \in {"Empty", "Initialized"} => stop_cause' = "None"
      /\ stop_cause' # "None" \/ state' = "Starting" => health' = "Unavailable"
  BY Zenon DEF StateInv
<1>9. \/ UNCHANGED state
      \/ state = "Initialized" /\ state' = "Stopped"
      \/ state \in {"Starting", "Active", "Stopping"} /\ state' = "Stopping"
  BY Zenon
<1> QED BY <1>2, <1>3, <1>4, <1>6, <1>7, <1>8, <1>9, CallerFrame, ZenonT(40)
\* request_stop, its part of join, and wait up to startup_mutex_.
LEMMA StopStep ==
    ASSUME TypeOK, InductiveInvariant, NEW p \in Callers,
           RequestStop(p) \/ StopRuntime(p) \/ (Wait(p) /\ state # "Empty")
    PROVE  (TypeOK /\ InductiveInvariant)'
<1> USE DEF InductiveInvariant
<1>1. LifeType /\ OwnType /\ CommandType BY TypeGroups, Zenon
<1>2. CASE RequestStop(p)
  <2>1. /\ UNCHANGED <<init_in_progress, supervisor, runtime_updates_enabled, threadVars, commandVars,
                       pubVars, placeVars>>
    BY <1>2, Zenon DEF RequestStop
  <2>2. /\ stage[p] = "idle"
        /\ \/ Return(p, "ok")
           \/ \E to \in {"stop", "lock"} : Moves(p, stage[p], to) /\ UNCHANGED <<calls, returned>>
    BY <1>2, Zenon DEF RequestStop
  <2>3. CommandType' /\ UNCHANGED data_plane_released BY <1>1, <2>1, TypeFrames,
                           Zenon DEF commandVars
  <2>4. ~Calling(p, "start") BY <1>2, Zenon DEF RequestStop, Calling
  <2>5. CASE state \in {"Empty", "Stopped", "Failed"} /\ UNCHANGED <<lifeVars, owners>>
    <3>1. LifeType' /\ owners' \in BOOLEAN BY <1>1, <2>5, TypeFrames, Zenon DEF
                           OwnType
    <3>2. UNCHANGED <<state, owners, stop_cause, health, update_admission_open>>
      BY <2>5, Zenon DEF lifeVars
    <3> QED BY <2>1, <2>2, <2>3, <2>4, <3>1, <3>2, StoppingCallerStep, ZenonT(40)
  <2>6. CASE /\ state = "Initialized" /\ stop_cause' = "Explicit" /\ state' = "Stopped"
             /\ update_admission_open' = FALSE /\ health' = "Unavailable" /\ owners' = FALSE
             /\ UNCHANGED <<startup_error, startup_stop>>
    <3>1. LifeType' BY <1>1, <2>6, ZenonT(40) DEF LifeType, States, Causes
    <3> QED BY <2>1, <2>2, <2>3, <2>4, <2>6, <3>1, StoppingCallerStep, ZenonT(40)
  <2>7. CASE /\ state \in {"Starting", "Active", "Stopping"} /\ Stopping("Explicit", "None")
             /\ update_admission_open' = FALSE /\ health' = "Unavailable" /\ UNCHANGED owners
    <3>1. LifeType' BY <1>1, <2>7, Zenon DEF LifeType, Stopping, States, Causes,
                       Errors
    <3>2. state' = "Stopping" /\ owners' \in BOOLEAN BY <1>1, <2>7 DEF Stopping,
                           OwnType
    <3> QED BY <2>1, <2>2, <2>3, <2>4, <2>7, <3>1, <3>2, StoppingCallerStep
  <2> QED BY <1>2, <2>5, <2>6, <2>7, Zenon DEF RequestStop
<1>3. CASE StopRuntime(p)
  <2>1. /\ stage[p] = "stop" /\ RuntimeStop
        /\ UNCHANGED <<ownVars, threadVars, pubVars, placeVars>>
        /\ \/ Return(p, "ok")
           \/ \E to \in {"stop", "lock"} : Moves(p, stage[p], to) /\ UNCHANGED <<calls, returned>>
    BY <1>3, Zenon DEF StopRuntime
  <2>2. ~Calling(p, "start") BY <2>1, Zenon DEF CallerInv
  <2>3. /\ LifeType' /\ CommandType' /\ update_admission_open' = FALSE
        /\ UNCHANGED <<state, stop_cause, health, data_plane_released>>
    BY <1>1, <2>1, RuntimeStopped, Zenon
  <2>4. /\ UNCHANGED <<init_in_progress, owners, supervisor, runtime_updates_enabled>>
        /\ owners' \in BOOLEAN
    BY <1>1, <2>1, Zenon DEF ownVars, OwnType
  <2> QED BY <2>1, <2>2, <2>3, <2>4, StoppingCallerStep, Zenon
<1>4. CASE Wait(p) /\ state # "Empty"
  <2>1. /\ stage[p] = "idle" /\ Calling(p, "wait")
        /\ Moves(p, stage[p], "lock") /\ UNCHANGED <<calls, returned>>
        /\ UNCHANGED <<lifeVars, ownVars, threadVars, commandVars, pubVars, placeVars>>
    BY <1>4, Zenon DEF Wait
  <2>2. LifeType' /\ CommandType' BY <1>1, <2>1, TypeFrames, Zenon
  <2>3. UNCHANGED <<init_in_progress, supervisor, runtime_updates_enabled, data_plane_released,
                    state, owners, stop_cause, health, update_admission_open>>
    BY <2>1, Zenon DEF lifeVars, ownVars, commandVars
  <2>4. owners' \in BOOLEAN /\ ~Calling(p, "start") BY <1>1, <2>1, <2>3, Zenon DEF
                           OwnType, Calling
  <2> QED BY <2>1, <2>2, <2>3, <2>4, StoppingCallerStep, Zenon
<1> QED BY <1>2, <1>3, <1>4, Zenon

\* A caller takes startup_mutex_, for finish_teardown or for start.
LEMMA LockStep ==
    ASSUME TypeOK, InductiveInvariant, NEW p \in Callers, LockForTeardown(p) \/ Start(p)
    PROVE  (TypeOK /\ InductiveInvariant)'
<1> USE DEF InductiveInvariant
<1>1. /\ startup_owner = NoCaller /\ startup_owner' = p
      /\ UNCHANGED <<ownVars, thread, commandVars, pubVars, calls, returned, error, join_failures>>
      /\ \/ /\ Moves(p, "lock", "owner") /\ at' = "enter" /\ UNCHANGED <<lifeVars, threadVars>>
         \/ /\ Moves(p, "idle", "owner") /\ at' = "supervisor" /\ Calling(p, "start")
            /\ state = "Initialized" /\ state' = "Starting" /\ stop_cause' = "None"
            /\ startup_error' = "None" /\ update_admission_open' = FALSE /\ startup_stop' = FALSE
            /\ health' = "Unavailable" /\ ready' = [r \in Roles |-> "none"]
            /\ result' = [r \in Roles |-> FALSE]
  BY Zenon DEF LockForTeardown, Start, threadVars
<1>2. LifeType /\ OwnType /\ ThreadType /\ CommandType /\ PubType /\ CallType /\ PlaceType
  BY TypeGroups, Zenon
<1>3. /\ at = "none" /\ at' # "none" /\ \A q \in Callers : stage[q] # "owner"
      /\ at' \notin TeardownPlaces \cup {"fail", "failstop", "failed"}
  BY <1>1, CallersAssumption, PlaceSets, Zenon DEF CallerInv, StartPlaces
<1>4. /\ CallType' /\ stage'[p] = "owner"
      /\ \A q \in Callers : q # p => stage'[q] = stage[q]
  BY <1>1, <1>2, MovedOn, Zenon DEF Stages
<1>5. LifeType' BY <1>1, <1>2, TypeFrames, Zenon DEF LifeType, States, Causes, Errors
<1>6. ThreadType' BY <1>1, <1>2, TypeFrames, ZenonT(40) DEF ThreadType, Outcomes
<1>7. PlaceType' BY <1>1, <1>2, PlaceSets DEF PlaceType, StartPlaces
<1>8. TypeOK' BY <1>1, <1>2, <1>4, <1>5, <1>6, <1>7, TypeFrames, TypeGroupsNext,
                 ZenonT(40)
<1>9. UNCHANGED <<owners, supervisor, init_in_progress, data_plane_released, update, retired, terminal>>
  BY <1>1, Zenon DEF ownVars, commandVars, pubVars
<1>10. \/ at' = "enter" /\ ~Calling(p, "start") /\ UNCHANGED <<state, stop_cause, health,
                                                              update_admission_open>>
       \/ /\ at' = "supervisor" /\ Calling(p, "start") /\ state = "Initialized"
          /\ state' = "Starting" /\ stop_cause' = "None" /\ update_admission_open' = FALSE
          /\ health' = "Unavailable"
  BY <1>1, Zenon DEF CallerInv, lifeVars, Moves
<1>11. Calling(startup_owner, "start")' <=> Calling(p, "start") BY <1>1, Zenon DEF
                           Calling
<1>12. "supervisor" \in StartPlaces /\ "enter" \notin StartPlaces BY Zenon DEF
                           StartPlaces
<1>13. CallerInv'
  <2>1. \A q \in Callers : stage'[q] = "owner" <=> startup_owner' = q BY <1>1, <1>3,
                           <1>4, Zenon
  <2>2. at' \in StartPlaces \cup {"fail", "failstop", "failed"} => Calling(startup_owner, "start")'
    BY <1>3, <1>10, <1>11, <1>12, Zenon
  <2>3. \A q \in Callers : stage'[q] \in {"stop", "lock", "init"} => stage[q] = stage'[q]
    BY <1>4, Zenon
  <2>4. \A q \in Callers : stage'[q] \in {"stop", "lock"} => ~Calling(q, "start")'
    BY <1>1, <2>3, Zenon DEF CallerInv, Calling
  <2>5. \A q \in Callers : stage'[q] = "init" => init_in_progress' /\ state' = "Empty"
    BY <1>9, <1>10, <2>3, ZenonT(40) DEF CallerInv
  <2>6. \A q, x \in Callers : stage'[q] = "init" /\ stage'[x] = "init" => q = x
    BY <2>3, Zenon DEF CallerInv
  <2>7. startup_owner' # NoCaller BY <1>1, CallersAssumption, Zenon
  <2> QED BY <1>3, <2>1, <2>2, <2>4, <2>5, <2>6, <2>7, ZenonT(40) DEF CallerInv
<1>14. StateInv'
  <2>1. CASE at' = "enter" /\ UNCHANGED <<state, stop_cause, health>>
    <3>1. at' \notin StartPlaces \cup {"fail"} /\ at \notin StartPlaces \cup {"fail"}
      BY <1>3, <2>1, PlaceSets, Zenon
    <3> QED BY <1>3, <1>9, <2>1, <3>1, ZenonT(40) DEF StateInv
  <2>2. CASE /\ at' = "supervisor" /\ state = "Initialized" /\ state' = "Starting"
             /\ stop_cause' = "None" /\ health' = "Unavailable"
    BY <1>3, <1>9, <1>12, <2>2, ZenonT(40) DEF StateInv
  <2> QED BY <1>10, <2>1, <2>2, Zenon
<1>15. StartInv'
  <2>1. Starting' => NobodyServed BY <1>10, <1>11, Zenon DEF Starting, StartInv
  <2>2. Rollback' BY <1>3, <1>10, <1>11, <1>12, Zenon DEF Rollback
  <2>3. Over => Over' BY <1>10, Zenon DEF Over
  <2>4. /\ update_admission_open' => update_admission_open
        /\ state' \in {"Empty", "Initialized", "Starting"} =>
               state \in {"Empty", "Initialized", "Starting"}
    BY <1>10
  <2>5. UNCHANGED <<data_plane_released, returned>> BY <1>1, Zenon DEF commandVars
  <2>6. \A q \in Callers : returned'[q] \in {"Cancelled", "InitFailed"} =>
                               returned[q] \in {"Cancelled", "InitFailed"}
    BY <2>5, Zenon
  <2>7. StartInv /\ (Starting' => Starting \/ NobodyServed) BY <2>1, Zenon
  <2> QED BY <2>2, <2>3, <2>4, <2>5, <2>6, <2>7, StartFrame, Zenon
<1>16. state' \in AtRest => state \in AtRest BY <1>10, Zenon DEF AtRest
<1>17. at' \notin AfterC /\ at' \notin AfterA /\ at' \notin AfterUpdate /\ at' # "release"
  BY <1>3, <1>10, PlaceSets, Zenon
<1>18. ThreadInv' BY <1>1, <1>9, <1>10, <1>12, <1>16, <1>17, ZenonT(40) DEF ThreadInv
<1>19. RecordInv' BY <1>9, <1>16, <1>17, Zenon DEF RecordInv
<1> QED BY <1>8, <1>13, <1>14, <1>15, <1>18, <1>19, ZenonT(40)
-----------------------------------------------------------------------------
(* The invariant and what follows from it *)

\* The service as it is constructed.
LEMMA InitInvariant == Init => TypeOK /\ InductiveInvariant
<1> SUFFICES ASSUME Init PROVE TypeOK /\ InductiveInvariant
  OBVIOUS
<1>1. TypeOK
  <2>1. LifeType BY Zenon DEF Init, LifeType, States, Causes, Errors
  <2>2. OwnType BY Zenon DEF Init, OwnType
  <2>3. ThreadType BY DEF Init, ThreadType, Outcomes
  <2>4. CommandType BY Zenon DEF Init, CommandType, Outcomes
  <2>5. PubType BY Zenon DEF Init, PubType
  <2>6. CallType BY ProgramAssumption DEF Init, CallType, Stages, Codes
  <2>7. PlaceType BY FailuresAssumption, PlaceSets, SMTT(30) DEF Init, PlaceType,
                     Errors
  <2> QED BY <2>1, <2>2, <2>3, <2>4, <2>5, <2>6, <2>7, TypeGroups, ZenonT(40)
<1>2. at = "none" /\ at \notin StartPlaces /\ at \notin TeardownPlaces
  BY PlaceSets, Zenon DEF Init
<1>3. CallerInv
  <2>1. startup_owner = NoCaller /\ \A p \in Callers : stage[p] = "idle" BY Zenon
                           DEF Init
  <2> QED BY <1>2, <2>1, CallersAssumption, Zenon DEF CallerInv
<1>4. StateInv BY <1>2, Zenon DEF Init, StateInv
<1>5. StartInv
  <2>1. \A p \in Callers : returned[p] = "none" BY Zenon DEF Init
  <2> QED BY <1>2, <2>1, Zenon DEF Init, StartInv, NobodyServed
<1>6. ThreadInv
  <2>1. \A r \in Roles : thread[r] = "none" BY DEF Init
  <2>2. "C" \in Roles BY Zenon DEF Roles
  <2> QED BY <1>2, <2>1, <2>2, PlaceSets, Zenon DEF Init, ThreadInv
<1>7. RecordInv BY <1>2, PlaceSets, Zenon DEF Init, RecordInv
<1> QED BY <1>1, <1>3, <1>4, <1>5, <1>6, <1>7, Zenon DEF InductiveInvariant

\* Every step keeps the invariant.
LEMMA InvariantStep ==
    ASSUME TypeOK, InductiveInvariant, [Next]_vars
    PROVE  (TypeOK /\ InductiveInvariant)'
<1>1. ASSUME NEW p \in Callers, CallStep(p) PROVE (TypeOK /\ InductiveInvariant)'
  BY <1>1, InitStep, RefusedStep, StopStep, LockStep, Zenon DEF CallStep
<1>2. CASE StartStep
  BY <1>2, StartingStep, CommitStep, RollbackStep, FailStartReturnStep, Zenon DEF
     StartStep
<1>3. CASE TeardownStep \/ TeardownIncomplete
  BY <1>3, TeardownReturnsStep, TeardownStopStep, JoinStep, JoinReclaimerStep,
     TeardownCommandStep, Zenon DEF TeardownStep
<1>4. CASE RoleStep
  BY <1>4, RunnerStep, QuietStep, PublishStep, SupervisorReturnsStep, UpdateStep,
     CoordinatorReturnsStep, FailServiceStep, ReportExitStep, RoleStopsStep,
     ZenonT(40) DEF RoleStep
<1>5. CASE UNCHANGED vars
  <2>1. RunKeeps /\ UNCHANGED <<lifeVars, threadVars, commandVars, pubVars, placeVars>>
    BY <1>5, Zenon DEF vars, RunKeeps
  <2>2. CommandType' /\ PubType' /\ ThreadType' /\ LifeType' BY <2>1, TypeGroups,
                           TypeFrames, Zenon
  <2>3. UNCHANGED <<state, stop_cause, startup_error, startup_stop, update_admission_open, health,
                    thread, ready, result, data_plane_released, at>>
    BY <2>1, Zenon DEF lifeVars, threadVars, commandVars, placeVars
  <2>4. RecordInv' BY <2>1, <2>3, RecordFrame, Zenon DEF InductiveInvariant
  <2> QED BY <2>1, <2>2, <2>3, <2>4, QuietStep, Zenon DEF LifeType, ThreadType
<1> QED BY <1>1, <1>2, <1>3, <1>4, <1>5, Zenon DEF Next, Finished

\* The inductive invariant holds in every behaviour of the service: for any number of
\* callers, whatever each of them calls, and however many joins fail.
THEOREM Invariance == Spec => [](TypeOK /\ InductiveInvariant)
BY InitInvariant, InvariantStep, PTL DEF Spec

\* No control thread outlives what it borrows, whoever tears the service down.
THEOREM ThreadsAreOwned == Spec => []OwnersOutliveThreads
<1>1. TypeOK /\ InductiveInvariant => OwnersOutliveThreads
  <2> SUFFICES ASSUME TypeOK, InductiveInvariant, NEW r \in Roles, thread[r] \in Live
               PROVE  owners /\ (r = "C" => supervisor)
    BY Zenon DEF OwnersOutliveThreads
  <2>1. thread[r] # "none" BY Zenon DEF Live
  <2>2. state \notin AtRest BY <2>1, Zenon DEF InductiveInvariant, ThreadInv
  <2>3. state \in {"Starting", "Active", "Stopping"}
    BY <2>2, TypeGroups, ZenonT(40) DEF LifeType, States, AtRest
  <2> QED BY <2>1, <2>3, Zenon DEF InductiveInvariant, ThreadInv, StateInv
<1> QED BY <1>1, Invariance, PTL

\* A service that is Stopped or Failed has left no thread, no owner, no committed update
\* without an answer and no snapshot that was never reclaimed.
THEOREM EndLeavesNothing == Spec => []NothingLeftBehind
<1>1. TypeOK /\ InductiveInvariant => NothingLeftBehind
  BY Zenon DEF InductiveInvariant, ThreadInv, RecordInv, StateInv,
     NothingLeftBehind, AtRest
<1> QED BY <1>1, Invariance, PTL

\* A start that answers with its own failure has served nobody and admitted no update.
THEOREM FailedStartIsSilent == Spec => []FailedStartServesNobody
<1>1. TypeOK /\ InductiveInvariant => FailedStartServesNobody
  BY Zenon DEF InductiveInvariant, StartInv, NobodyServed, FailedStartServesNobody
<1> QED BY <1>1, Invariance, PTL

\* No step replaces a cause to stop.
LEMMA CauseStep ==
    ASSUME TypeOK, InductiveInvariant, [Next]_vars, stop_cause # "None"
    PROVE  stop_cause' = stop_cause
<1>1. state \notin {"Empty", "Initialized"} BY Zenon DEF InductiveInvariant, StateInv
<1>2. \A cause, why : Stopping(cause, why) => stop_cause' = stop_cause BY Zenon DEF
                           Stopping
<1>3. RuntimeStop => stop_cause' = stop_cause BY Zenon DEF RuntimeStop
<1>4. ~AcceptFatal BY Zenon DEF AcceptFatal
<1>5. UNCHANGED lifeVars => stop_cause' = stop_cause BY Zenon DEF lifeVars
<1>6. ASSUME NEW p \in Callers, CallStep(p) PROVE stop_cause' = stop_cause
  <2>1. CASE RequestStop(p) BY <1>1, <1>2, <1>5, <2>1, Zenon DEF RequestStop
  <2>2. CASE Start(p) BY <1>1, <2>2, Zenon DEF Start
  <2>3. CASE StopRuntime(p) BY <1>3, <2>3, Zenon DEF StopRuntime
  <2>4. CASE InitEnd(p) BY <2>4, Zenon DEF InitEnd
  <2> QED BY <1>5, <1>6, <2>1, <2>2, <2>3, <2>4, ZenonT(40) DEF CallStep, InitBegin,
             InitRefused, Wait, LockForTeardown, StartRefused
<1>7. CASE StartStep
  <2>1. CASE FailStart \/ FailStartStop BY <1>2, <1>3, <2>1, Zenon DEF FailStart,
                           FailStartStop
  <2>2. CASE CommitStartup BY <2>2, Zenon DEF CommitStartup
  <2> QED BY <1>5, <1>7, <2>1, <2>2, ZenonT(40) DEF StartStep, CreateSupervisor,
             CreateThread, AwaitReady, AwaitSupervisor, RequestActivation,
             FailStartReturn
<1>8. CASE TeardownStep \/ TeardownIncomplete
  <2>1. LifeKept => stop_cause' = stop_cause BY <1>5, Zenon DEF LifeKept
  <2>2. CASE TeardownStop BY <1>3, <2>2, Zenon DEF TeardownStop
  <2>3. CASE ReleaseOwners \/ TeardownIncomplete \/ TeardownNotNeeded
    BY <1>5, <2>3, Zenon DEF ReleaseOwners, TeardownIncomplete, TeardownNotNeeded
  <2> QED BY <1>8, <2>1, <2>2, <2>3, ZenonT(40) DEF TeardownStep, JoinSupervisor,
             DrainWorkers, JoinReclaimer, RequestTerminalDetach, AwaitCoordinator,
             JoinCoordinator, CompleteCommitted, DetachTerminal, ShutdownReclaimer
<1>9. CASE RoleStep
  <2>1. ASSUME NEW r \in Roles, ReportExit(r) \/ RoleStopsRuntime(r) PROVE stop_cause' = stop_cause
    BY <1>2, <1>3, <1>4, <1>5, <2>1, ZenonT(40) DEF ReportExit, RoleStopsRuntime
  <2>2. CASE FailService \/ ReportHealth BY <1>4, <2>2, Zenon DEF FailService,
                           ReportHealth
  <2> QED BY <1>5, <1>9, <2>1, <2>2, ZenonT(40) DEF RoleStep, RunnerStarts,
             PublishResult, SupervisorStarts, PublishStartup, PublishActivation,
             SupervisorReturns, CommitUpdate, UpdateConverges, CoordinatorDetaches,
             CoordinatorFails, Reclaim, ReclaimerReturns
<1>10. CASE UNCHANGED vars BY <1>5, <1>10, Zenon DEF vars
<1> QED BY <1>6, <1>7, <1>8, <1>9, <1>10, Zenon DEF Next, Finished

\* The first cause to stop is the only one, and from then on health is Unavailable.
THEOREM FirstCauseIsFinal == Spec => FirstCauseWins
<1>1. TypeOK /\ InductiveInvariant /\ [Next]_vars =>
          [/\ stop_cause # "None" => stop_cause' = stop_cause
           /\ stop_cause' # "None" => health' = "Unavailable"]_vars
  BY CauseStep, InvariantStep, Zenon DEF InductiveInvariant, StateInv
<1> QED BY <1>1, Invariance, PTL DEF Spec, FirstCauseWins

=============================================================================

----------------------- MODULE WorkerSupervisorProofs -----------------------
(***************************************************************************)
(* Proofs about WorkerSupervisor, for any non-empty set of workers, either *)
(* recovery policy and any valid recovery configuration.  The inductive    *)
(* invariant says, of each worker record,                                  *)
(*                                                                         *)
(*  InstanceInv  a thread has an instance, and an instance is not quiesced *)
(*  ThreadInv    how far the thread is, against what it reported to C      *)
(*  PlaneInv     the data plane is open only for a record that ran after   *)
(*               DNS released it                                           *)
(*  BudgetInv    what is left of the restart budget                        *)
(*                                                                         *)
(* and, of C, what each of its positions has already established           *)
(* (PhaseInv).  The closed form of the backoff delay is a second           *)
(* invariant, DelayInv, which rests on the first.                          *)
(***************************************************************************)
EXTENDS WorkerSupervisor, TLAPS

\* create_worker succeeded and its thread was not started yet
Fresh(w) == instance[w] /\ thread[w] = "none" /\ ready[w] = "none" /\ ~completion[w]

\* C is in monitor_active_workers
Supervising == {"monitor", "respawn", "createfailed", "exhausted", "failing", "joining", "decide"}

InstanceInv(w) ==
    /\ quiesced_through[w] <= instance_id[w]
    /\ instance[w] => quiesced_through[w] # instance_id[w]
    /\ thread[w] # "none" => instance[w]

ThreadInv(w) ==
    /\ thread[w] = "init" => ready[w] = "none"
    /\ thread[w] \in {"gate1", "gate2", "serving"} => ready[w] = "Ready"
    /\ thread[w] \in {"gate2", "serving"} => activated[w]
    /\ thread[w] = "serving" => data_plane_allowed[w]
    /\ completion[w] => thread[w] \in {"exited", "none"}
    /\ record_state[w] \in {"Ready", "Running"} => ready[w] = "Ready"
    /\ record_state[w] = "Exited" => completion[w]

PlaneInv(w) ==
    /\ data_plane_allowed[w] =>
           data_plane_released /\ record_state[w] \in {"Running", "Stopping", "Exited"}
    /\ recovery_episode[w] => data_plane_released
    /\ C \in Supervising /\ record_state[w] \in {"Creating", "Starting", "Ready", "Backoff"} =>
           data_plane_released

BudgetInv(w) ==
    /\ recovery_attempts[w] <= max_attempts
    /\ ~recovery_episode[w] => recovery_attempts[w] = 0
    /\ next_backoff[w] \in initial_backoff .. max_backoff
    /\ C \in Supervising /\ record_state[w] = "Backoff" /\ ~(C = "exhausted" /\ target = w) =>
           Restart /\ recovery_attempts[w] < max_attempts

PhaseInv ==
    /\ run_active <=> C # "done"
    /\ data_plane_released => activation_result = "ok"
    /\ C \notin {"create", "spawn", "ready"} => startup_result # "none"
    /\ C \in {"create", "spawn", "ready", "activate"} <=> activation_result = "none"
    /\ C = "create" => \A w \in Workers \ todo : Fresh(w)
    /\ C = "spawn" => \A w \in todo : Fresh(w)
    /\ C = "respawn" => Fresh(target)
    /\ C \in {"respawn", "createfailed", "exhausted", "failing", "joining", "decide", "joinwait"} =>
           target \in Workers
    /\ C \in {"respawn", "createfailed", "exhausted"} =>
           record_state[target] \in {"Creating", "Starting", "Backoff"}

RecordInv == \A w \in Workers : InstanceInv(w) /\ ThreadInv(w) /\ PlaneInv(w) /\ BudgetInv(w)

\* The inductive invariant: see the head of this module.
InductiveInvariant == RecordInv /\ PhaseInv
-----------------------------------------------------------------------------
(* The types, in the groups in which the actions change the variables *)

Flags == [Workers -> BOOLEAN]
Results == {"none", "ok", "error"}
Positions == {"create", "spawn", "ready", "activate", "monitor", "respawn", "createfailed",
              "exhausted", "failing", "joining", "decide", "stop", "abrupt", "joinall",
              "joinwait", "done"}

RecordType ==
    /\ instance_id \in [Workers -> 0 .. MaxInstance] /\ quiesced_through \in [Workers -> 0 .. MaxInstance]
    /\ record_state \in [Workers -> RecordStates] /\ instance \in Flags /\ stop_source \in Flags
GateType ==
    /\ ready \in [Workers -> {"none", "Ready", "InitError"}] /\ activated \in Flags
    /\ completion \in Flags /\ activation_allowed \in Flags /\ data_plane_allowed \in Flags
RecoveryType ==
    /\ recovery_episode \in Flags
    /\ recovery_attempts \in [Workers -> Nat] /\ next_backoff \in [Workers -> Nat]
TimeType == backoff_over \in Flags /\ window_over \in Flags /\ completed_stable \in Flags
ThreadType == thread \in [Workers -> Threads]
ResultType ==
    /\ startup_result \in Results /\ activation_result \in Results
    /\ run_active \in BOOLEAN /\ fatal_reported \in BOOLEAN
CommandType ==
    /\ stop_requested \in BOOLEAN /\ activation_requested \in BOOLEAN
    /\ data_plane_released \in BOOLEAN /\ stopping \subseteq Workers
CType == C \in Positions /\ todo \subseteq Workers /\ target \in Workers \cup {NoWorker}

FailureType == failure \in BOOLEAN

\* TypeOK is the conjunction of the groups.
LEMMA TypeGroups ==
    TypeOK <=> /\ RecordType /\ GateType /\ RecoveryType /\ TimeType /\ ThreadType
               /\ ResultType /\ CommandType /\ CType /\ FailureType
<1>1. (\A f \in {instance, stop_source, activated, completion, activation_allowed,
                 data_plane_allowed, recovery_episode, backoff_over, window_over,
                 completed_stable} : f \in [Workers -> BOOLEAN])
      <=> /\ instance \in Flags /\ stop_source \in Flags /\ activated \in Flags
          /\ completion \in Flags /\ activation_allowed \in Flags /\ data_plane_allowed \in Flags
          /\ recovery_episode \in Flags /\ backoff_over \in Flags /\ window_over \in Flags
          /\ completed_stable \in Flags
  BY Zenon DEF Flags
<1>2. (\A b \in {stop_requested, activation_requested, data_plane_released, run_active,
                 fatal_reported, failure} : b \in BOOLEAN)
      <=> /\ stop_requested \in BOOLEAN /\ activation_requested \in BOOLEAN
          /\ data_plane_released \in BOOLEAN /\ run_active \in BOOLEAN
          /\ fatal_reported \in BOOLEAN /\ failure \in BOOLEAN
  BY Zenon
<1> QED BY <1>1, <1>2, Zenon DEF TypeOK, RecordType, GateType, RecoveryType,
           TimeType, ThreadType, ResultType, CommandType, CType, FailureType,
           Results, Positions

\* The same after a step.
LEMMA TypeGroupsNext ==
    TypeOK' <=> /\ RecordType' /\ GateType' /\ RecoveryType' /\ TimeType' /\ ThreadType'
                /\ ResultType' /\ CommandType' /\ CType' /\ FailureType'
BY TypeGroups, PTL

\* A group keeps its types when it is left alone.
LEMMA TypeFrames ==
    /\ RecordType /\ UNCHANGED recordVars => RecordType'
    /\ GateType /\ UNCHANGED gateVars => GateType'
    /\ RecoveryType /\ UNCHANGED recoveryVars => RecoveryType'
    /\ TimeType /\ UNCHANGED timeVars => TimeType'
    /\ ThreadType /\ UNCHANGED thread => ThreadType'
    /\ ResultType /\ UNCHANGED resultVars => ResultType'
    /\ CommandType /\ UNCHANGED commandVars => CommandType'
    /\ CType /\ UNCHANGED cVars => CType'
    /\ FailureType /\ UNCHANGED failure => FailureType'
<1>1. RecordType /\ UNCHANGED recordVars => RecordType' BY DEF RecordType, recordVars
<1>2. GateType /\ UNCHANGED gateVars => GateType' BY DEF GateType, gateVars
<1>3. RecoveryType /\ UNCHANGED recoveryVars => RecoveryType' BY DEF RecoveryType,
                           recoveryVars
<1>4. TimeType /\ UNCHANGED timeVars => TimeType' BY DEF TimeType, timeVars
<1>5. ThreadType /\ UNCHANGED thread => ThreadType' BY DEF ThreadType
<1>6. ResultType /\ UNCHANGED resultVars => ResultType' BY DEF ResultType, resultVars
<1>7. CommandType /\ UNCHANGED commandVars => CommandType' BY DEF CommandType,
                           commandVars
<1>8. CType /\ UNCHANGED cVars => CType' BY DEF CType, cVars
<1>9. FailureType /\ UNCHANGED failure => FailureType' BY DEF FailureType
<1> QED BY <1>1, <1>2, <1>3, <1>4, <1>5, <1>6, <1>7, <1>8, <1>9


-----------------------------------------------------------------------------
(* What a step leaves alone *)

\* every field of x's record that the invariant speaks about
Same(x) ==
    /\ instance_id'[x] = instance_id[x] /\ quiesced_through'[x] = quiesced_through[x]
    /\ instance'[x] = instance[x] /\ record_state'[x] = record_state[x]
    /\ thread'[x] = thread[x] /\ ready'[x] = ready[x] /\ activated'[x] = activated[x]
    /\ completion'[x] = completion[x] /\ data_plane_allowed'[x] = data_plane_allowed[x]
    /\ recovery_episode'[x] = recovery_episode[x]
    /\ recovery_attempts'[x] = recovery_attempts[x] /\ next_backoff'[x] = next_backoff[x]

\* the conjuncts of RecordInv for one record
RecordOK(x) == InstanceInv(x) /\ ThreadInv(x) /\ PlaneInv(x) /\ BudgetInv(x)

\* C does not enter the monitoring loop, nor return to it having given up x's restart
Continues(x) ==
    C' \in Supervising =>
        C \in Supervising /\ (C = "exhausted" /\ target = x => C' = "exhausted" /\ target' = x)

\* A record that is left alone keeps its invariant.
LEMMA SameRecord ==
    ASSUME NEW x \in Workers, RecordOK(x), Same(x), Continues(x),
           data_plane_released => data_plane_released'
    PROVE  RecordOK(x)'
<1>1. InstanceInv(x)' BY Zenon DEF RecordOK, InstanceInv, Same
<1>2. ThreadInv(x)' BY Zenon DEF RecordOK, ThreadInv, Same
<1>3. PlaneInv(x)' BY Zenon DEF RecordOK, PlaneInv, Same, Continues
<1>4. BudgetInv(x)' BY DEF RecordOK, BudgetInv, Same, Continues
<1> QED BY <1>1, <1>2, <1>3, <1>4, Zenon DEF RecordOK

\* One record changes.
LEMMA OneRecord ==
    ASSUME RecordInv, NEW w \in Workers, RecordOK(w)',
           \A x \in Workers : x # w => Same(x) /\ Continues(x),
           data_plane_released => data_plane_released'
    PROVE  RecordInv'
<1>1. ASSUME NEW x \in Workers, x # w PROVE RecordOK(x)'
  BY <1>1, SameRecord DEF RecordInv, RecordOK
<1> QED BY <1>1 DEF RecordInv, RecordOK

\* No record changes.
LEMMA NoRecord ==
    ASSUME RecordInv, \A x \in Workers : Same(x) /\ Continues(x),
           data_plane_released => data_plane_released'
    PROVE  RecordInv'
<1>1. ASSUME NEW x \in Workers PROVE RecordOK(x)'
  BY SameRecord DEF RecordInv, RecordOK
<1> QED BY <1>1 DEF RecordInv, RecordOK

\* C stays where it is: it keeps what it established.
LEMMA PhaseFrame ==
    ASSUME CType, PhaseInv, UNCHANGED <<cVars, startup_result, activation_result, run_active>>,
           data_plane_released' => data_plane_released \/ activation_result = "ok",
           \A x \in Workers : Fresh(x) => Fresh(x)',
           C \in {"respawn", "createfailed", "exhausted"} =>
               record_state'[target] \in {"Creating", "Starting", "Backoff"}
    PROVE  PhaseInv'
<1>1. UNCHANGED <<C, todo, target>> BY DEF cVars
<1>2. C' = "create" => \A x \in Workers \ todo' : Fresh(x)' BY <1>1 DEF PhaseInv
<1>3. C' = "spawn" => \A x \in todo' : Fresh(x)' BY <1>1 DEF PhaseInv, CType
<1>4. C' = "respawn" => Fresh(target)' BY <1>1, Zenon DEF PhaseInv
<1> QED BY <1>1, <1>2, <1>3, <1>4 DEF PhaseInv
-----------------------------------------------------------------------------
(* The worker threads *)

\* A step of w's thread: C, the other records and w's place in the budget are left alone.
LEMMA ThreadStep ==
    ASSUME TypeOK, InductiveInvariant, NEW w \in Workers, Others(w),
           thread[w] # "none", NEW to \in Threads \ {"none"}, thread' = Set(thread, w, to),
           GateType', completed_stable' \in Flags,
           \A x \in Workers : x # w => /\ ready'[x] = ready[x] /\ activated'[x] = activated[x]
                                       /\ completion'[x] = completion[x],
           ThreadInv(w)'
    PROVE  (TypeOK /\ InductiveInvariant)'
<1> USE DEF InductiveInvariant
<1>1. /\ UNCHANGED <<activation_allowed, data_plane_allowed, recoveryVars, backoff_over,
                     window_over, recordVars, resultVars, commandVars, cVars, failure>>
  BY DEF Others
<1>2. thread \in [Workers -> Threads] BY TypeGroups DEF ThreadType
<1>3. /\ thread' \in [Workers -> Threads] /\ thread'[w] = to
      /\ \A x \in Workers : x # w => thread'[x] = thread[x]
  BY <1>2, Zenon DEF Set
<1>4. TypeOK'
  <2>1. TimeType' BY <1>1, TypeGroups DEF TimeType
  <2>2. ThreadType' BY <1>3, Zenon DEF ThreadType
  <2> QED BY <1>1, <2>1, <2>2, TypeGroups, TypeGroupsNext, TypeFrames, Zenon
<1>5. \A x \in Workers : x # w => Same(x)
  BY <1>1, <1>3, ZenonT(40) DEF Same, recordVars, recoveryVars
<1>6. \A x \in Workers : x # w => Continues(x)
  <2>1. UNCHANGED <<C, target, record_state>> BY <1>1 DEF cVars, recordVars
  <2> QED BY <2>1, Zenon DEF Continues
<1>7. RecordOK(w)'
  <2>1. RecordOK(w) BY Zenon DEF RecordInv, RecordOK
  <2>2. InstanceInv(w)' BY <1>1, <1>3, <2>1, Zenon DEF RecordOK, InstanceInv,
                           recordVars
  <2>3. PlaneInv(w)'
    BY <1>1, <2>1, Zenon DEF RecordOK, PlaneInv, recordVars, recoveryVars,
       commandVars, cVars
  <2>4. BudgetInv(w)'
    BY <1>1, <2>1, Zenon DEF RecordOK, BudgetInv, recordVars, recoveryVars, cVars
  <2> QED BY <2>2, <2>3, <2>4 DEF RecordOK
<1>8. RecordInv'
  BY <1>1, <1>5, <1>6, <1>7, OneRecord, Zenon DEF commandVars
<1>9. PhaseInv'
  <2>1. \A x \in Workers : Fresh(x) => Fresh(x)' BY <1>5 DEF Fresh, Same
  <2>2. CType BY TypeGroups, Zenon
  <2>3. C \in {"respawn", "createfailed", "exhausted"} =>
            record_state'[target] \in {"Creating", "Starting", "Backoff"}
    BY <1>1, Zenon DEF PhaseInv, recordVars
  <2> QED BY <1>1, <2>1, <2>2, <2>3, PhaseFrame, ZenonT(40) DEF resultVars,
             commandVars
<1> QED BY <1>4, <1>8, <1>9, Zenon
\* The thread moves on, and reports nothing.
LEMMA SilentStep ==
    ASSUME TypeOK, InductiveInvariant, NEW w \in Workers,
           AwaitWorkerDataPlane(w) \/ StopServing(w) \/ WorkerFails(w)
    PROVE  (TypeOK /\ InductiveInvariant)'
<1>1. /\ UNCHANGED <<ready, activated, completion, completed_stable>> /\ Others(w)
      /\ thread[w] \in {"gate1", "gate2", "serving"}
  BY Zenon DEF AwaitWorkerDataPlane, StopServing, WorkerFails, Moves
<1>2. PICK to \in {"serving", "leaving"} :
          /\ thread' = Set(thread, w, to)
          /\ to = "serving" => thread[w] = "gate2" /\ data_plane_allowed[w]
  BY DEF AwaitWorkerDataPlane, StopServing, WorkerFails, Moves
<1>3. to \in Threads \ {"none"} BY DEF Threads
<1>4. UNCHANGED <<data_plane_allowed, activation_allowed, record_state>>
  BY <1>1 DEF Others, recordVars
<1>5. GateType' /\ completed_stable' \in Flags
  BY <1>1, <1>4, TypeGroups, Zenon DEF GateType, TimeType
<1>6. ThreadInv(w)'
  <2>1. thread'[w] = to BY <1>2, TypeGroups DEF ThreadType, Set
  <2>2. ThreadInv(w) BY DEF InductiveInvariant, RecordInv
  <2> QED BY <1>1, <1>2, <1>4, <2>1, <2>2, Zenon DEF ThreadInv
<1> QED BY <1>1, <1>2, <1>3, <1>5, <1>6, ThreadStep, Zenon

\* The thread reports to C: initialisation, activation or completion.
LEMMA ReportStep ==
    ASSUME TypeOK, InductiveInvariant, NEW w \in Workers,
           ReportReady(w) \/ AwaitWorkerActivation(w) \/ ReportCompletion(w)
    PROVE  (TypeOK /\ InductiveInvariant)'
<1>1. Others(w) /\ thread[w] # "none"
  BY Zenon DEF ReportReady, AwaitWorkerActivation, ReportCompletion, Moves
<1>2. UNCHANGED <<data_plane_allowed, activation_allowed, record_state, window_over>>
  BY <1>1 DEF Others, recordVars
<1>3. /\ thread \in [Workers -> Threads] /\ ready \in [Workers -> {"none", "Ready", "InitError"}]
      /\ activated \in [Workers -> BOOLEAN] /\ completion \in [Workers -> BOOLEAN]
      /\ data_plane_allowed \in Flags /\ activation_allowed \in Flags
      /\ completed_stable \in [Workers -> BOOLEAN] /\ window_over \in [Workers -> BOOLEAN]
  BY TypeGroups DEF ThreadType, GateType, TimeType, Flags
<1>4. ThreadInv(w) BY DEF InductiveInvariant, RecordInv
<1>5. CASE ReportReady(w)
  <2>1. PICK to \in {"gate1", "leaving"}, r \in {"Ready", "InitError"} :
            /\ thread[w] = "init" /\ thread' = Set(thread, w, to) /\ ready' = Set(ready, w, r)
            /\ to = "gate1" => r = "Ready"
    BY <1>5 DEF ReportReady, Moves
  <2>2. UNCHANGED <<activated, completion, completed_stable>> BY <1>5 DEF ReportReady
  <2>3. to \in Threads \ {"none"} BY DEF Threads
  <2>4. thread'[w] = to /\ ready'[w] = r /\ \A x \in Workers : x # w => ready'[x] = ready[x]
    BY <1>3, <2>1 DEF Set
  <2>5. GateType' /\ completed_stable' \in Flags
    BY <1>2, <1>3, <2>1, <2>2 DEF GateType, Flags, Set
  <2>6. ThreadInv(w)' BY <1>2, <1>4, <2>1, <2>2, <2>4 DEF ThreadInv
  <2> QED BY <1>1, <2>1, <2>2, <2>3, <2>4, <2>5, <2>6, ThreadStep
<1>6. CASE AwaitWorkerActivation(w)
  <2>1. PICK to \in {"gate2", "leaving"} :
            /\ thread[w] = "gate1" /\ thread' = Set(thread, w, to)
            /\ \/ to = "gate2" /\ activated' = Set(activated, w, TRUE)
               \/ to = "leaving" /\ activated' = activated
    BY <1>6, ZenonT(40) DEF AwaitWorkerActivation, Moves
  <2>2. UNCHANGED <<ready, completion, completed_stable>> BY <1>6 DEF
                           AwaitWorkerActivation
  <2>3. to \in Threads \ {"none"} BY DEF Threads
  <2>4. /\ thread'[w] = to /\ activated' \in [Workers -> BOOLEAN]
        /\ to = "gate2" => activated'[w]
        /\ \A x \in Workers : x # w => activated'[x] = activated[x]
    BY <1>3, <2>1, Zenon DEF Set
  <2>5. GateType' /\ completed_stable' \in Flags
    BY <1>2, <1>3, <2>2, <2>4 DEF GateType, Flags
  <2>6. ThreadInv(w)' BY <1>2, <1>4, <2>1, <2>2, <2>4 DEF ThreadInv
  <2> QED BY <1>1, <2>1, <2>2, <2>3, <2>4, <2>5, <2>6, ThreadStep, Zenon
<1>7. CASE ReportCompletion(w)
  <2>1. /\ thread[w] = "leaving" /\ thread' = Set(thread, w, "exited")
        /\ completion' = Set(completion, w, TRUE)
        /\ completed_stable' = Set(completed_stable, w, window_over[w])
        /\ UNCHANGED <<ready, activated>>
    BY <1>7 DEF ReportCompletion, Moves
  <2>2. "exited" \in Threads \ {"none"} BY DEF Threads
  <2>3. /\ thread'[w] = "exited" /\ completion' \in [Workers -> BOOLEAN] /\ completion'[w]
        /\ completed_stable' \in [Workers -> BOOLEAN]
        /\ \A x \in Workers : x # w => completion'[x] = completion[x]
    BY <1>3, <2>1 DEF Set
  <2>4. GateType' /\ completed_stable' \in Flags
    BY <1>2, <1>3, <2>1, <2>3, Zenon DEF GateType, Flags
  <2>5. ThreadInv(w)' BY <1>2, <1>4, <2>1, <2>3, Zenon DEF ThreadInv
  <2> QED BY <1>1, <2>1, <2>2, <2>3, <2>4, <2>5, ThreadStep, ZenonT(40)
<1> QED BY <1>5, <1>6, <1>7, Zenon
-----------------------------------------------------------------------------
(* C leaves the records alone *)

\* Only C moves, and what its new position claims is established.
LEMMA UntouchedStep ==
    ASSUME TypeOK, InductiveInvariant, Untouched, ResultType', CType', FailureType',
           \A x \in Workers : Continues(x), PhaseInv'
    PROVE  (TypeOK /\ InductiveInvariant)'
<1>1. UNCHANGED <<gateVars, recoveryVars, timeVars, recordVars, thread, commandVars>>
  BY DEF Untouched
<1>2. TypeOK' BY <1>1, TypeGroups, TypeGroupsNext, TypeFrames
<1>3. RecordInv'
  <2>1. \A x \in Workers : Same(x) BY <1>1 DEF Same, gateVars, recoveryVars,
                           recordVars
  <2>2. data_plane_released => data_plane_released' BY <1>1, Zenon DEF commandVars
  <2>3. RecordInv BY Zenon DEF InductiveInvariant
  <2> QED BY <2>1, <2>2, <2>3, NoRecord, Zenon
<1> QED BY <1>2, <1>3 DEF InductiveInvariant

\* publish_startup and publish_activation set a result once.
LEMMA PublishOnce ==
    ASSUME ResultType, NEW s \in Results, NEW a \in Results, Publish(s, a)
    PROVE  /\ ResultType' /\ UNCHANGED <<run_active, fatal_reported>>
           /\ startup_result # "none" => UNCHANGED startup_result
           /\ activation_result # "none" => UNCHANGED activation_result
           /\ s # "none" => startup_result' # "none"
           /\ a # "none" => activation_result' # "none"
BY DEF Publish, ResultType, Results

\* C is on its way out, or past activation: both results are known.
LEMMA PastActivation ==
    ASSUME C' \in {"monitor", "stop", "abrupt", "joinall", "done"}, run_active' <=> C' # "done",
           startup_result' # "none", activation_result' # "none",
           data_plane_released' => activation_result' = "ok"
    PROVE  PhaseInv'
BY DEF PhaseInv

\* C gives up, and tells both waiters: at startup, on a stop, or by an exception.
LEMMA GiveUpPhase ==
    ASSUME TypeOK, InductiveInvariant, Publish("error", "error"), C' \in {"stop", "abrupt"},
           C # "done", UNCHANGED data_plane_released
    PROVE  PhaseInv' /\ ResultType'
<1>1. "error" \in Results /\ ResultType BY TypeGroups DEF Results
<1>2. /\ ResultType' /\ UNCHANGED run_active
      /\ startup_result' # "none" /\ activation_result' # "none"
      /\ activation_result # "none" => UNCHANGED activation_result
  BY <1>1, PublishOnce
<1>3. run_active BY DEF InductiveInvariant, PhaseInv
<1>4. data_plane_released' => activation_result' = "ok"
  BY <1>2 DEF InductiveInvariant, PhaseInv
<1> QED BY <1>2, <1>3, <1>4, PastActivation

\* GiveUp and the exceptions that leave run, with no record touched.
LEMMA GiveUpStep ==
    ASSUME TypeOK, InductiveInvariant, Untouched, UNCHANGED failure,
           Publish("error", "error"), C' \in {"stop", "abrupt"}, C # "done",
           todo' = Workers, target' \in Workers \cup {NoWorker}
    PROVE  (TypeOK /\ InductiveInvariant)'
<1>1. PhaseInv' /\ ResultType' BY GiveUpPhase DEF Untouched, commandVars
<1>2. CType' BY DEF CType, Positions
<1>3. \A x \in Workers : Continues(x) BY DEF Continues, Supervising
<1>4. FailureType' BY TypeGroups, TypeFrames
<1> QED BY <1>1, <1>2, <1>3, <1>4, UntouchedStep

\* C stops monitoring, or the failed replacement is left for the join.
LEMMA LeaveMonitorStep ==
    ASSUME TypeOK, InductiveInvariant, Untouched, FailureType',
           C \in Supervising \cup {"joinwait"}, C' \in {"stop", "abrupt", "joinall", "done"},
           UNCHANGED <<startup_result, activation_result>>, run_active' = (C' # "done"),
           fatal_reported' \in BOOLEAN,
           todo' \subseteq Workers, target' \in Workers \cup {NoWorker}
    PROVE  (TypeOK /\ InductiveInvariant)'
<1>1. ResultType' BY TypeGroups DEF ResultType
<1>2. PhaseInv'
  <2>1. /\ startup_result # "none" /\ activation_result # "none"
        /\ data_plane_released => activation_result = "ok"
    BY DEF InductiveInvariant, PhaseInv, Supervising
  <2> QED BY <2>1, PastActivation, Zenon DEF Untouched, commandVars
<1>3. CType' BY DEF CType, Positions
<1>4. \A x \in Workers : Continues(x) BY DEF Continues, Supervising
<1> QED BY <1>1, <1>2, <1>3, <1>4, UntouchedStep, Zenon

\* Cancelled and AbruptExit.
LEMMA CancelledStep ==
    ASSUME TypeOK, InductiveInvariant, (Cancelled \/ AbruptExit) /\ UNCHANGED failure
    PROVE  (TypeOK /\ InductiveInvariant)'
<1>1. /\ Untouched /\ Publish("error", "error") /\ C' \in {"stop", "abrupt"} /\ C # "done"
      /\ todo' = Workers
  BY DEF Cancelled, AbruptExit, GiveUp
<1>2. target' \in Workers \cup {NoWorker}
  BY TypeGroups DEF Cancelled, AbruptExit, GiveUp, CType
<1> QED BY <1>1, <1>2, GiveUpStep

\* StopSeen, RefreshRequestFails, DecideFailure and JoinFails.
LEMMA FatalStep ==
    ASSUME TypeOK, InductiveInvariant,
           (StopSeen /\ UNCHANGED failure) \/ RefreshRequestFails \/ DecideFailure \/ JoinFails
    PROVE  (TypeOK /\ InductiveInvariant)'
<1>1. ResultType /\ CType /\ FailureType /\ CommandType BY TypeGroups
<1>2. run_active <=> C # "done" BY DEF InductiveInvariant, PhaseInv
<1>3. /\ Untouched /\ FailureType' /\ UNCHANGED <<startup_result, activation_result>>
      /\ C \in Supervising \cup {"joinwait"} /\ C' \in {"stop", "abrupt", "joinall", "done"}
  BY <1>1 DEF StopSeen, RefreshRequestFails, DecideFailure, JoinFails, Monitoring,
     resultVars, Supervising, FailureType
<1>4. /\ run_active' = (C' # "done") /\ fatal_reported' \in BOOLEAN
  BY <1>1, <1>2 DEF StopSeen, RefreshRequestFails, DecideFailure, JoinFails,
     Monitoring, resultVars, ResultType, CommandType
<1>5. todo' \subseteq Workers /\ target' \in Workers \cup {NoWorker}
  BY <1>1 DEF StopSeen, RefreshRequestFails, DecideFailure, JoinFails, CType
<1> QED BY <1>3, <1>4, <1>5, LeaveMonitorStep
-----------------------------------------------------------------------------
(* Creating a worker *)

\* create_worker takes the next instance number, which was never quiesced, and
\* clears what the previous instance reported.
LEMMA NewInstanceRecord ==
    ASSUME TypeOK, InductiveInvariant, NEW w \in Workers, NEW created \in BOOLEAN,
           NewInstance(w, created), Attempted(w) <= max_attempts,
           C' \in Supervising => data_plane_released
    PROVE  /\ RecordType' /\ GateType' /\ RecoveryType'
           /\ UNCHANGED <<timeVars, thread, commandVars>>
           /\ RecordOK(w)' /\ \A x \in Workers : x # w => Same(x)
           /\ record_state'[w] = IF created THEN "Starting" ELSE "Creating"
           /\ created => Fresh(w)'
<1>1. RecordType /\ GateType /\ RecoveryType /\ ThreadType BY TypeGroups
<1>2. RecordOK(w) BY Zenon DEF InductiveInvariant, RecordInv, RecordOK
<1>3. UNCHANGED <<recovery_episode, next_backoff, timeVars, quiesced_through, thread, commandVars>>
      /\ thread[w] = "none" /\ instance_id[w] < MaxInstance
  BY Zenon DEF NewInstance
<1>4. /\ instance_id' \in [Workers -> 0 .. MaxInstance] /\ instance_id'[w] = instance_id[w] + 1
      /\ \A x \in Workers : x # w => instance_id'[x] = instance_id[x]
  <2>1. instance_id[w] + 1 \in 0 .. MaxInstance BY <1>1, <1>3, RecoveryAssumption
                           DEF RecordType
  <2> QED BY <1>1, <2>1, Zenon DEF NewInstance, Set, RecordType
<1>5. /\ instance' \in Flags /\ instance'[w] = created
      /\ \A x \in Workers : x # w => instance'[x] = instance[x]
  BY <1>1, Zenon DEF NewInstance, Set, RecordType, Flags
<1>6. /\ record_state' \in [Workers -> RecordStates]
      /\ record_state'[w] = IF created THEN "Starting" ELSE "Creating"
      /\ \A x \in Workers : x # w => record_state'[x] = record_state[x]
  BY <1>1 DEF NewInstance, Set, RecordType, RecordStates
<1>7. stop_source' \in Flags BY <1>1, Zenon DEF NewInstance, Set, RecordType, Flags
<1>8. /\ ready' \in [Workers -> {"none", "Ready", "InitError"}] /\ ready'[w] = "none"
      /\ \A x \in Workers : x # w => ready'[x] = ready[x]
  BY <1>1 DEF NewInstance, Set, GateType
<1>9. /\ activated' \in Flags /\ \A x \in Workers : x # w => activated'[x] = activated[x]
  BY <1>1, Zenon DEF NewInstance, Set, GateType, Flags
<1>10. /\ completion' \in Flags /\ completion'[w] = FALSE
       /\ \A x \in Workers : x # w => completion'[x] = completion[x]
  BY <1>1, Zenon DEF NewInstance, Set, GateType, Flags
<1>11. activation_allowed' \in Flags BY <1>1, Zenon DEF NewInstance, Set, GateType,
                           Flags
<1>12. /\ data_plane_allowed' \in Flags /\ data_plane_allowed'[w] = FALSE
       /\ \A x \in Workers : x # w => data_plane_allowed'[x] = data_plane_allowed[x]
  BY <1>1, Zenon DEF NewInstance, Set, GateType, Flags
<1>13. Attempted(w) \in Nat /\ (~recovery_episode[w] => Attempted(w) = recovery_attempts[w])
  BY <1>1, SMTT(30) DEF Attempted, RecoveryType
<1>14. /\ recovery_attempts' \in [Workers -> Nat] /\ recovery_attempts'[w] = Attempted(w)
       /\ \A x \in Workers : x # w => recovery_attempts'[x] = recovery_attempts[x]
  BY <1>1, <1>13 DEF NewInstance, Set, RecoveryType
<1>15. RecordType' /\ GateType' /\ RecoveryType'
  BY <1>1, <1>3, <1>4, <1>5, <1>6, <1>7, <1>8, <1>9, <1>10, <1>11, <1>12, <1>14,
     Zenon DEF RecordType, GateType, RecoveryType
<1>16. \A x \in Workers : x # w => Same(x)
  BY <1>3, <1>4, <1>5, <1>6, <1>8, <1>9, <1>10, <1>12, <1>14, ZenonT(40) DEF Same
<1>17. created => Fresh(w)' BY <1>3, <1>5, <1>8, <1>10, Zenon DEF Fresh
<1>18. InstanceInv(w)'
  <2>1. /\ quiesced_through[w] \in Nat /\ instance_id[w] \in Nat
        /\ quiesced_through[w] <= instance_id[w]
    <3>1. PICK q, n \in 0 .. MaxInstance : q = quiesced_through[w] /\ n = instance_id[w]
      BY <1>1, Zenon DEF RecordType
    <3>2. q \in Nat /\ n \in Nat BY RecoveryAssumption
    <3> QED BY <1>2, <3>1, <3>2, Zenon DEF RecordOK, InstanceInv
  <2>2. quiesced_through[w] <= instance_id[w] + 1 /\ quiesced_through[w] # instance_id[w] + 1
    BY <2>1
  <2> QED BY <1>3, <1>4, <2>2, Zenon DEF InstanceInv
<1>19. ThreadInv(w)' BY <1>3, <1>6, <1>10, Zenon DEF ThreadInv
<1>20. PlaneInv(w)'
  BY <1>2, <1>3, <1>6, <1>12, Zenon DEF RecordOK, PlaneInv, commandVars
<1>21. BudgetInv(w)'
  BY <1>2, <1>3, <1>6, <1>13, <1>14, Zenon DEF RecordOK, BudgetInv
<1> QED BY <1>3, <1>6, <1>15, <1>16, <1>17, <1>18, <1>19, <1>20, <1>21 DEF RecordOK

\* C works on one record: the others keep their invariants.
LEMMA RecordStep ==
    ASSUME TypeOK, InductiveInvariant, NEW w \in Workers, RecordOK(w)',
           \A x \in Workers : x # w => Same(x),
           \A x \in Workers : x # w => Continues(x),
           UNCHANGED commandVars, RecordType', GateType', RecoveryType', TimeType', ThreadType',
           ResultType', CType', FailureType', PhaseInv'
    PROVE  (TypeOK /\ InductiveInvariant)'
<1>1. RecordInv' BY OneRecord, Zenon DEF InductiveInvariant, commandVars
<1>2. TypeOK' BY TypeGroups, TypeGroupsNext, TypeFrames, Zenon
<1> QED BY <1>1, <1>2, Zenon DEF InductiveInvariant

\* Startup: create_workers.
LEMMA CreateStep ==
    ASSUME TypeOK, InductiveInvariant, CreateWorkers, UNCHANGED failure
    PROVE  (TypeOK /\ InductiveInvariant)'
<1>1. PICK w \in todo : \/ /\ NewInstance(w, TRUE)
                           /\ C' = (IF todo = {w} THEN "spawn" ELSE "create")
                           /\ todo' = (IF todo = {w} THEN Workers ELSE todo \ {w})
                           /\ UNCHANGED <<target, resultVars>>
                        \/ NewInstance(w, FALSE) /\ GiveUp
  BY Zenon DEF CreateWorkers
<1>2. C = "create" BY DEF CreateWorkers
<1>3. w \in Workers /\ CType /\ ResultType /\ TimeType /\ ThreadType /\ FailureType
  BY TypeGroups DEF CType
<1>4. Attempted(w) <= max_attempts
  <2>1. ~data_plane_released BY <1>2 DEF InductiveInvariant, PhaseInv
  <2>2. ~recovery_episode[w] /\ recovery_attempts[w] <= max_attempts
    BY <1>3, <2>1 DEF InductiveInvariant, RecordInv, PlaneInv, BudgetInv
  <2>3. recovery_attempts[w] \in Nat BY <1>3, TypeGroups DEF RecoveryType
  <2>4. Attempted(w) = recovery_attempts[w] BY <2>2, <2>3 DEF Attempted
  <2> QED BY <2>2, <2>4, Zenon
<1>5. C' \notin Supervising BY <1>1, Zenon DEF GiveUp, Supervising
<1>6. \A x \in Workers : Continues(x) BY <1>5 DEF Continues
<1>7. FailureType' BY <1>3, TypeFrames
<1>8. CASE NewInstance(w, TRUE) /\ ~(NewInstance(w, FALSE) /\ GiveUp)
  <2>1. /\ RecordType' /\ GateType' /\ RecoveryType'
        /\ UNCHANGED <<timeVars, thread, commandVars>> /\ RecordOK(w)'
        /\ (\A x \in Workers : x # w => Same(x)) /\ Fresh(w)'
    BY <1>3, <1>4, <1>5, <1>8, NewInstanceRecord, Zenon
  <2>2. /\ C' = (IF todo = {w} THEN "spawn" ELSE "create")
        /\ todo' = (IF todo = {w} THEN Workers ELSE todo \ {w})
        /\ UNCHANGED <<target, resultVars>>
    BY <1>1, <1>8, Zenon
  <2>3. TimeType' /\ ThreadType' /\ ResultType' BY <1>3, <2>1, <2>2, TypeFrames
  <2>4. CType' BY <1>3, <2>2 DEF CType, Positions
  <2>5. \A x \in Workers : x \notin todo => Fresh(x)'
    <3> SUFFICES ASSUME NEW x \in Workers, x \notin todo PROVE Fresh(x)'
      OBVIOUS
    <3>1. Fresh(x) BY <1>2, Zenon DEF InductiveInvariant, PhaseInv
    <3> QED BY <1>1, <2>1, <3>1 DEF Fresh, Same
  <2>6. PhaseInv'
    <3>1. /\ run_active /\ activation_result = "none" /\ ~data_plane_released
      BY <1>2, Zenon DEF InductiveInvariant, PhaseInv
    <3>2. UNCHANGED <<run_active, startup_result, activation_result, data_plane_released>>
      BY <2>1, <2>2, Zenon DEF resultVars, commandVars
    <3>3. \A x \in Workers \ todo' : C' = "create" => Fresh(x)' BY <2>1, <2>2, <2>5,
                           Zenon
    <3>4. \A x \in todo' : C' = "spawn" => Fresh(x)' BY <2>1, <2>2, <2>5
    <3>5. C' \in {"create", "spawn"} BY <2>2, Zenon
    <3> QED BY <3>1, <3>2, <3>3, <3>4, <3>5, Zenon DEF PhaseInv
  <2> QED BY <1>3, <1>6, <1>7, <2>1, <2>3, <2>4, <2>6, RecordStep
<1>9. CASE NewInstance(w, FALSE) /\ GiveUp
  <2>1. /\ RecordType' /\ GateType' /\ RecoveryType'
        /\ UNCHANGED <<timeVars, thread, commandVars>> /\ RecordOK(w)'
        /\ \A x \in Workers : x # w => Same(x)
    BY <1>3, <1>4, <1>5, <1>9, NewInstanceRecord, ZenonT(40)
  <2>2. TimeType' /\ ThreadType' BY <1>3, <2>1, TypeFrames
  <2>3. CType' BY <1>9 DEF CType, Positions, GiveUp
  <2>4. PhaseInv' /\ ResultType' BY <1>2, <1>9, <2>1, GiveUpPhase DEF GiveUp,
                           commandVars
  <2> QED BY <1>3, <1>6, <1>7, <2>1, <2>2, <2>3, <2>4, RecordStep, Zenon
<1> QED BY <1>1, <1>8, <1>9, Zenon
-----------------------------------------------------------------------------
(* Starting the thread of a worker *)

\* start_worker_thread: the thread starts on a fresh instance.
LEMMA SpawnedRecord ==
    ASSUME TypeOK, InductiveInvariant, NEW w \in Workers, Fresh(w), Spawned(w), Continues(w)
    PROVE  /\ RecordType' /\ GateType' /\ RecoveryType' /\ TimeType' /\ ThreadType'
           /\ RecordOK(w)' /\ UNCHANGED commandVars
           /\ \A x \in Workers : x # w => Same(x)
<1>1. UNCHANGED <<gateVars, recoveryVars, timeVars, recordVars, commandVars>>
  BY DEF Spawned
<1>2. RecordOK(w) BY DEF InductiveInvariant, RecordInv, RecordOK
<1>3. /\ thread' \in [Workers -> Threads] /\ thread'[w] = "init"
      /\ \A x \in Workers : x # w => thread'[x] = thread[x]
  BY TypeGroups DEF ThreadType, Spawned, Set, Threads
<1>4. RecordType' /\ GateType' /\ RecoveryType' /\ TimeType' BY <1>1, TypeGroups,
                           TypeFrames
<1>5. \A x \in Workers : x # w => Same(x)
  BY <1>1, <1>3 DEF Same, gateVars, recoveryVars, recordVars
<1>6. InstanceInv(w)' BY <1>1, <1>2, <1>3, Zenon DEF RecordOK, InstanceInv, Fresh,
                         recordVars
<1>7. ThreadInv(w)' BY <1>1, <1>2, <1>3, Zenon DEF RecordOK, ThreadInv, Fresh,
                       recordVars, gateVars
<1>8. PlaneInv(w)'
  BY <1>1, <1>2, ZenonT(40) DEF RecordOK, PlaneInv, Continues, recordVars, gateVars,
     recoveryVars, commandVars
<1>9. BudgetInv(w)'
  BY <1>1, <1>2 DEF RecordOK, BudgetInv, Continues, recordVars, recoveryVars
<1> QED BY <1>1, <1>3, <1>4, <1>5, <1>6, <1>7, <1>8, <1>9 DEF RecordOK, ThreadType

\* Startup: start_worker_threads.
LEMMA StartStep ==
    ASSUME TypeOK, InductiveInvariant, StartWorkerThreads, UNCHANGED failure
    PROVE  (TypeOK /\ InductiveInvariant)'
<1>1. PICK w \in todo : \/ /\ Spawned(w)
                           /\ C' = (IF todo = {w} THEN "ready" ELSE "spawn")
                           /\ todo' = todo \ {w}
                           /\ UNCHANGED <<target, resultVars>>
                        \/ Untouched /\ GiveUp
  BY DEF StartWorkerThreads
<1>2. C = "spawn" BY DEF StartWorkerThreads
<1>3. w \in Workers /\ CType /\ ResultType /\ FailureType
  BY TypeGroups DEF CType
<1>4. C' \notin Supervising BY <1>1 DEF GiveUp, Supervising
<1>5. \A x \in Workers : Continues(x) BY <1>4 DEF Continues
<1>6. CASE Untouched /\ GiveUp
  BY <1>2, <1>6, GiveUpStep, Zenon DEF GiveUp
<1>7. CASE ~(Untouched /\ GiveUp)
  <2>1. /\ Spawned(w) /\ C' = (IF todo = {w} THEN "ready" ELSE "spawn")
        /\ todo' = todo \ {w} /\ UNCHANGED <<target, resultVars>>
    BY <1>1, <1>7, Zenon
  <2>2. Fresh(w) BY <1>2, Zenon DEF InductiveInvariant, PhaseInv
  <2>3. /\ RecordType' /\ GateType' /\ RecoveryType' /\ TimeType' /\ ThreadType'
        /\ RecordOK(w)' /\ UNCHANGED commandVars /\ \A x \in Workers : x # w => Same(x)
    BY <1>3, <1>5, <2>1, <2>2, SpawnedRecord, Zenon
  <2>4. ResultType' /\ FailureType' BY <1>3, <2>1, TypeFrames, Zenon
  <2>5. CType' BY <1>3, <2>1, Zenon DEF CType, Positions
  <2>6. PhaseInv'
    <3>1. /\ run_active /\ activation_result = "none" /\ ~data_plane_released
      BY <1>2, Zenon DEF InductiveInvariant, PhaseInv
    <3>2. UNCHANGED <<run_active, startup_result, activation_result, data_plane_released>>
      BY <2>1, <2>3, ZenonT(40) DEF resultVars, commandVars
    <3>3. \A x \in todo' : Fresh(x)'
      <4> SUFFICES ASSUME NEW x \in todo, x # w PROVE Fresh(x)'
        BY <2>1, ZenonT(40)
      <4>1. Fresh(x) /\ Same(x) BY <1>2, <1>3, <2>3 DEF InductiveInvariant,
                           PhaseInv, CType
      <4> QED BY <4>1 DEF Fresh, Same
    <3>4. C' \in {"ready", "spawn"} BY <2>1
    <3> QED BY <3>1, <3>2, <3>3, <3>4, Zenon DEF PhaseInv
  <2> QED BY <1>3, <1>5, <2>3, <2>4, <2>5, <2>6, RecordStep, Zenon
<1> QED BY <1>6, <1>7

\* A replacement is started, or could not be.
LEMMA RespawnStep ==
    ASSUME TypeOK, InductiveInvariant, Respawn, UNCHANGED failure
    PROVE  (TypeOK /\ InductiveInvariant)'
<1>1. C = "respawn" /\ UNCHANGED <<todo, resultVars>> BY Zenon DEF Respawn
<1>2. /\ target \in Workers /\ Fresh(target) /\ run_active /\ startup_result # "none"
      /\ activation_result # "none" /\ (data_plane_released => activation_result = "ok")
      /\ record_state[target] \in {"Creating", "Starting", "Backoff"}
  BY <1>1, Zenon DEF InductiveInvariant, PhaseInv
<1>3. CType /\ ResultType' /\ FailureType' BY <1>1, TypeGroups, TypeFrames
<1>4. UNCHANGED <<run_active, startup_result, activation_result>> BY <1>1 DEF
                           resultVars
<1>5. \A x \in Workers : Continues(x) BY <1>1, Zenon DEF Continues, Supervising
<1>6. CASE Spawned(target) /\ C' = "monitor" /\ target' = NoWorker
  <2>1. PICK w \in Workers : w = target BY <1>2, Zenon
  <2>2. /\ RecordType' /\ GateType' /\ RecoveryType' /\ TimeType' /\ ThreadType'
        /\ RecordOK(w)' /\ UNCHANGED commandVars /\ \A x \in Workers : x # w => Same(x)
    BY <1>2, <1>5, <1>6, <2>1, SpawnedRecord, Zenon
  <2>3. CType' BY <1>1, <1>3, <1>6, Zenon DEF CType, Positions
  <2>4. PhaseInv' BY <1>2, <1>4, <1>6, <2>2, PastActivation, Zenon DEF commandVars
  <2> QED BY <1>3, <1>5, <2>2, <2>3, <2>4, RecordStep, Zenon
<1>7. CASE Untouched /\ C' = "createfailed" /\ UNCHANGED target
  <2>1. CType' BY <1>1, <1>3, <1>7, Zenon DEF CType, Positions
  <2>2. PhaseInv' BY <1>2, <1>4, <1>7, Zenon DEF PhaseInv, Untouched, commandVars,
                     recordVars
  <2> QED BY <1>3, <1>5, <1>7, <2>1, <2>2, UntouchedStep, Zenon
<1> QED BY <1>6, <1>7 DEF Respawn
-----------------------------------------------------------------------------
(* C moves one record from a state to the next *)

\* Promote changes one record's state and nothing else of the record.
LEMMA PromoteFields ==
    ASSUME RecordType, NEW w \in Workers, NEW from, NEW to \in RecordStates, Promote(w, from, to)
    PROVE  /\ RecordType' /\ record_state[w] = from /\ record_state'[w] = to
           /\ \A x \in Workers : x # w => record_state'[x] = record_state[x]
           /\ UNCHANGED <<instance_id, instance, stop_source, quiesced_through>>
BY Zenon DEF Promote, RecordType, Set

\* A worker that reported Ready is Ready or Running, one that completed has Exited.
LEMMA PromotedRecord ==
    ASSUME TypeOK, InductiveInvariant, NEW w \in Workers, Continues(w),
           NEW to \in {"Ready", "Running", "Exited"}, record_state'[w] = to,
           to = "Ready" => record_state[w] = "Starting" /\ ready[w] = "Ready",
           to = "Running" => ready[w] = "Ready",
           to = "Exited" => completion[w],
           UNCHANGED <<instance_id, instance, quiesced_through, ready, activated, completion,
                       recoveryVars, thread, commandVars>>,
           data_plane_allowed[w] => data_plane_allowed'[w],
           data_plane_allowed'[w] =>
               data_plane_allowed[w] \/ (data_plane_released /\ to = "Running")
    PROVE  RecordOK(w)'
<1>1. RecordOK(w) BY Zenon DEF InductiveInvariant, RecordInv, RecordOK
<1>2. InstanceInv(w)' BY <1>1, Zenon DEF RecordOK, InstanceInv
<1>3. ThreadInv(w)' BY <1>1, Zenon DEF RecordOK, ThreadInv
<1>4. PlaneInv(w)'
  <2>1. UNCHANGED <<data_plane_released, recovery_episode>> BY Zenon DEF
                           commandVars, recoveryVars
  <2>2. PlaneInv(w) BY <1>1, Zenon DEF RecordOK
  <2> QED BY <2>1, <2>2, Zenon DEF PlaneInv, Continues
<1>5. BudgetInv(w)' BY <1>1, Zenon DEF RecordOK, BudgetInv, recoveryVars
<1> QED BY <1>2, <1>3, <1>4, <1>5, Zenon DEF RecordOK

\* C stays where it is, having taken a record past a gate.
LEMMA PromoteStep ==
    ASSUME TypeOK, InductiveInvariant, NEW w \in Workers,
           C \in {"ready", "activate", "monitor"}, UNCHANGED <<cVars, resultVars, failure>>,
           NEW from, NEW to \in {"Ready", "Running"}, Promote(w, from, to),
           to = "Ready" => from = "Starting", ready[w] = "Ready",
           UNCHANGED <<ready, activated, completion, recoveryVars, thread, commandVars>>,
           GateType', TimeType',
           data_plane_allowed[w] => data_plane_allowed'[w],
           data_plane_allowed'[w] =>
               data_plane_allowed[w] \/ (data_plane_released /\ to = "Running"),
           \A x \in Workers : x # w => data_plane_allowed'[x] = data_plane_allowed[x]
    PROVE  (TypeOK /\ InductiveInvariant)'
<1>1. to \in RecordStates BY Zenon DEF RecordStates
<1>2. /\ RecordType' /\ record_state[w] = from /\ record_state'[w] = to
      /\ \A x \in Workers : x # w => record_state'[x] = record_state[x]
      /\ UNCHANGED <<instance_id, instance, stop_source, quiesced_through>>
  BY <1>1, TypeGroups, PromoteFields, Zenon
<1>3. UNCHANGED <<C, todo, target>> BY Zenon DEF cVars
<1>4. \A x \in Workers : Continues(x) BY <1>3, Zenon DEF Continues
<1>5. RecordOK(w)' BY <1>2, <1>4, PromotedRecord, Zenon
<1>6. \A x \in Workers : x # w => Same(x) BY <1>2, Zenon DEF Same, recoveryVars
<1>7. RecoveryType' /\ ThreadType' /\ ResultType' /\ CType' /\ FailureType'
  BY TypeGroups, TypeFrames, Zenon
<1>8. PhaseInv'
  <2>1. \A x \in Workers : Fresh(x) => Fresh(x)' BY <1>2, Zenon DEF Fresh
  <2> QED BY <2>1, TypeGroups, PhaseFrame, Zenon DEF resultVars, commandVars,
             InductiveInvariant
<1> QED BY <1>2, <1>4, <1>5, <1>6, <1>7, <1>8, RecordStep, Zenon

\* Startup: await_worker_readiness.
LEMMA ReadinessStep ==
    ASSUME TypeOK, InductiveInvariant, AwaitReadiness, UNCHANGED failure
    PROVE  (TypeOK /\ InductiveInvariant)'
<1>1. C = "ready" BY Zenon DEF AwaitReadiness
<1>2. ASSUME NEW w \in Workers, ready[w] = "Ready", Promote(w, "Starting", "Ready"),
             UNCHANGED <<gateVars, recoveryVars, timeVars, thread, commandVars, resultVars, cVars>>
      PROVE  (TypeOK /\ InductiveInvariant)'
  <2>1. GateType' /\ TimeType' BY <1>2, TypeGroups, TypeFrames, Zenon
  <2>2. UNCHANGED <<ready, activated, completion, data_plane_allowed>> BY <1>2,
                           Zenon DEF gateVars
  <2> QED BY <1>1, <1>2, <2>1, <2>2, PromoteStep, Zenon
<1>3. CASE Untouched /\ GiveUp BY <1>1, <1>3, GiveUpStep, Zenon DEF GiveUp
<1>4. CASE /\ Publish("ok", "none") /\ C' = "activate"
           /\ Untouched /\ UNCHANGED <<todo, target>>
  <2>1. ResultType /\ CType /\ FailureType' BY TypeGroups, TypeFrames, Zenon
  <2>2. "ok" \in Results /\ "none" \in Results BY Zenon DEF Results
  <2>3. ResultType' /\ UNCHANGED run_active /\ startup_result' # "none"
    BY <1>4, <2>1, <2>2, PublishOnce, ZenonT(40)
  <2>4. activation_result = "none" /\ run_active /\ ~data_plane_released
    BY <1>1, Zenon DEF InductiveInvariant, PhaseInv
  <2>5. activation_result' = "none" BY <1>4, <2>4, Zenon DEF Publish
  <2>6. CType' BY <1>4, <2>1, Zenon DEF CType, Positions
  <2>7. PhaseInv'
    BY <1>4, <2>3, <2>4, <2>5, Zenon DEF PhaseInv, Untouched, commandVars
  <2>8. \A x \in Workers : Continues(x) BY <1>4, Zenon DEF Continues, Supervising
  <2> QED BY <1>4, <2>1, <2>3, <2>6, <2>7, <2>8, UntouchedStep, ZenonT(40)
<1> QED BY <1>2, <1>3, <1>4, Zenon DEF AwaitReadiness

\* A record that is Running makes no claim that C's arrival in the monitoring
\* loop could disturb.
LEMMA RunningRecord ==
    ASSUME NEW x \in Workers, RecordOK(x), Same(x), record_state[x] = "Running",
           UNCHANGED data_plane_released
    PROVE  RecordOK(x)'
<1>1. InstanceInv(x)' BY Zenon DEF RecordOK, InstanceInv, Same
<1>2. ThreadInv(x)' BY Zenon DEF RecordOK, ThreadInv, Same
<1>3. PlaneInv(x)' BY Zenon DEF RecordOK, PlaneInv, Same
<1>4. BudgetInv(x)' BY Zenon DEF RecordOK, BudgetInv, Same
<1> QED BY <1>1, <1>2, <1>3, <1>4, Zenon DEF RecordOK

\* Startup: await_activation_command_and_workers.
LEMMA ActivationStep ==
    ASSUME TypeOK, InductiveInvariant, AwaitActivation, UNCHANGED failure
    PROVE  (TypeOK /\ InductiveInvariant)'
<1>1. C = "activate" BY Zenon DEF AwaitActivation
<1>2. ASSUME NEW w \in Workers, completion[w], Promote(w, record_state[w], "Exited"), GiveUp,
             UNCHANGED <<gateVars, recoveryVars, timeVars, thread, commandVars>>
      PROVE  (TypeOK /\ InductiveInvariant)'
  <2>1. "Exited" \in RecordStates BY Zenon DEF RecordStates
  <2>2. /\ RecordType' /\ record_state'[w] = "Exited"
        /\ \A x \in Workers : x # w => record_state'[x] = record_state[x]
        /\ UNCHANGED <<instance_id, instance, stop_source, quiesced_through>>
    BY <1>2, <2>1, TypeGroups, PromoteFields, Zenon
  <2>3. UNCHANGED <<ready, activated, completion, data_plane_allowed>> BY <1>2,
                           Zenon DEF gateVars
  <2>4. C' \notin Supervising BY <1>2, Zenon DEF GiveUp, Supervising
  <2>5. \A x \in Workers : Continues(x) BY <2>4, Zenon DEF Continues
  <2>6. RecordOK(w)' BY <1>2, <2>2, <2>3, <2>5, PromotedRecord, Zenon
  <2>7. \A x \in Workers : x # w => Same(x) BY <1>2, <2>2, <2>3, Zenon DEF Same,
                           recoveryVars
  <2>8. GateType' /\ RecoveryType' /\ TimeType' /\ ThreadType' /\ FailureType'
    BY <1>2, TypeGroups, TypeFrames, Zenon
  <2>9. CType' BY <1>2, Zenon DEF GiveUp, CType, Positions
  <2>10. PhaseInv' /\ ResultType' BY <1>1, <1>2, GiveUpPhase, Zenon DEF GiveUp,
                           commandVars
  <2> QED BY <1>2, <2>2, <2>5, <2>6, <2>7, <2>8, <2>9, <2>10, RecordStep, Zenon
<1>3. ASSUME NEW w \in Workers, Promote(w, "Ready", "Running"),
             UNCHANGED <<gateVars, recoveryVars, timeVars, thread, commandVars, resultVars, cVars>>
      PROVE  (TypeOK /\ InductiveInvariant)'
  <2>1. GateType' /\ TimeType' BY <1>3, TypeGroups, TypeFrames, Zenon
  <2>2. UNCHANGED <<ready, activated, completion, data_plane_allowed>> BY <1>3,
                           Zenon DEF gateVars
  <2>3. ready[w] = "Ready" BY <1>3, Zenon DEF InductiveInvariant, RecordInv,
                           ThreadInv, Promote
  <2> QED BY <1>1, <1>3, <2>1, <2>2, <2>3, PromoteStep, Zenon
<1>4. CASE /\ \A w \in Workers : ~completion[w] /\ record_state[w] = "Running"
           /\ Publish("none", "ok") /\ C' = "monitor"
           /\ Untouched /\ UNCHANGED <<todo, target>>
  <2>1. ResultType /\ CType BY TypeGroups, Zenon
  <2>2. "ok" \in Results /\ "none" \in Results BY DEF Results
  <2>3. ResultType' /\ UNCHANGED run_active /\ activation_result' # "none"
        /\ (startup_result # "none" => UNCHANGED startup_result)
    BY <1>4, <2>1, <2>2, PublishOnce, Zenon
  <2>4. activation_result = "none" /\ run_active /\ ~data_plane_released
        /\ startup_result # "none"
    BY <1>1, Zenon DEF InductiveInvariant, PhaseInv
  <2>5. UNCHANGED <<gateVars, recoveryVars, timeVars, recordVars, thread, commandVars>>
    BY <1>4, Zenon DEF Untouched
  <2>6. UNCHANGED data_plane_released BY <2>5, Zenon DEF commandVars
  <2>7. CType' BY <1>4, <2>1, Zenon DEF CType, Positions
  <2>8. PhaseInv' BY <1>4, <2>3, <2>4, <2>6, PastActivation, Zenon
  <2>9. RecordInv'
    <3> SUFFICES ASSUME NEW x \in Workers PROVE RecordOK(x)'
      BY Zenon DEF RecordInv, RecordOK
    <3>1. RecordOK(x) BY Zenon DEF InductiveInvariant, RecordInv, RecordOK
    <3>2. Same(x) BY <2>5, Zenon DEF Same, gateVars, recoveryVars, recordVars
    <3> QED BY <1>4, <2>6, <3>1, <3>2, RunningRecord, Zenon
  <2>10. TypeOK' BY <2>3, <2>5, <2>7, TypeGroups, TypeGroupsNext, TypeFrames, Zenon
  <2> QED BY <2>8, <2>9, <2>10, Zenon DEF InductiveInvariant
<1> QED BY <1>2, <1>3, <1>4, Zenon DEF AwaitActivation
-----------------------------------------------------------------------------
(* C replaces a worker *)

\* What C knows while it monitors.
LEMMA WhileMonitoring ==
    ASSUME InductiveInvariant, C \in Supervising
    PROVE  /\ run_active /\ startup_result # "none" /\ activation_result # "none"
           /\ data_plane_released => activation_result = "ok"
           /\ C \in {"respawn", "createfailed", "exhausted", "failing", "joining", "decide"} =>
                  target \in Workers
BY Zenon DEF InductiveInvariant, PhaseInv, Supervising

\* A replacement passes its ready and its activation gate.
LEMMA ReplacementStep ==
    ASSUME TypeOK, InductiveInvariant, NEW w \in Workers,
           ReplacementReady(w) \/ ReplacementActivated(w), UNCHANGED failure
    PROVE  (TypeOK /\ InductiveInvariant)'
<1>1. GateType /\ TimeType BY TypeGroups, Zenon
<1>2. C = "monitor" BY Zenon DEF ReplacementReady, ReplacementActivated, Monitoring
<1>3. CASE ReplacementReady(w)
  <2>1. GateType' /\ UNCHANGED data_plane_allowed
    BY <1>1, <1>3, ZenonT(40) DEF ReplacementReady, GateType, Set, Flags
  <2>2. TimeType' BY <1>1, <1>3, TypeFrames, Zenon DEF ReplacementReady
  <2> QED BY <1>2, <1>3, <2>1, <2>2, PromoteStep, Zenon DEF ReplacementReady
<1>4. CASE ReplacementActivated(w)
  <2>1. /\ GateType' /\ data_plane_allowed'[w]
        /\ \A x \in Workers : x # w => data_plane_allowed'[x] = data_plane_allowed[x]
    BY <1>1, <1>4, Zenon DEF ReplacementActivated, GateType, Set, Flags
  <2>2. TimeType' BY <1>1, <1>4, ZenonT(40) DEF ReplacementActivated, TimeType, Set,
                     Flags
  <2>3. ready[w] = "Ready" /\ data_plane_released
    BY <1>2, <1>4, Zenon DEF ReplacementActivated, InductiveInvariant, RecordInv,
       ThreadInv, PlaneInv, Promote, Supervising
  <2> QED BY <1>2, <1>4, <2>1, <2>2, <2>3, PromoteStep, Zenon DEF ReplacementActivated
<1> QED BY <1>3, <1>4, Zenon

\* The recovery episode is over: the budget is whole again.
LEMMA StabilisedStep ==
    ASSUME TypeOK, InductiveInvariant, NEW w \in Workers, Stabilised(w), UNCHANGED failure
    PROVE  (TypeOK /\ InductiveInvariant)'
<1>1. UNCHANGED <<gateVars, timeVars, recordVars, thread, commandVars, resultVars, cVars>>
  BY Zenon DEF Stabilised
<1>2. /\ recovery_episode' \in Flags /\ recovery_episode'[w] = FALSE
      /\ \A x \in Workers : x # w => recovery_episode'[x] = recovery_episode[x]
  BY TypeGroups, Zenon DEF Stabilised, RecoveryType, Set, Flags
<1>3. /\ recovery_attempts' \in [Workers -> Nat] /\ recovery_attempts'[w] = 0
      /\ \A x \in Workers : x # w => recovery_attempts'[x] = recovery_attempts[x]
  BY TypeGroups, Zenon DEF Stabilised, RecoveryType, Set
<1>4. /\ next_backoff' \in [Workers -> Nat] /\ next_backoff'[w] = initial_backoff
      /\ \A x \in Workers : x # w => next_backoff'[x] = next_backoff[x]
  BY TypeGroups, RecoveryAssumption, Zenon DEF Stabilised, RecoveryType, Set
<1>5. RecoveryType' BY <1>2, <1>3, <1>4, Zenon DEF RecoveryType
<1>6. \A x \in Workers : x # w => Same(x)
  BY <1>1, <1>2, <1>3, <1>4, Zenon DEF Same, gateVars, recordVars
<1>7. UNCHANGED <<C, todo, target>> /\ record_state[w] = "Running" /\ UNCHANGED record_state
  BY <1>1, Zenon DEF cVars, recordVars, Stabilised
<1>8. \A x \in Workers : Continues(x) BY <1>7, Zenon DEF Continues
<1>9. RecordOK(w)'
  <2>1. RecordOK(w) BY Zenon DEF InductiveInvariant, RecordInv, RecordOK
  <2>2. InstanceInv(w)' BY <1>1, <2>1, Zenon DEF RecordOK, InstanceInv, recordVars
  <2>3. ThreadInv(w)' BY <1>1, <2>1, Zenon DEF RecordOK, ThreadInv, recordVars,
                         gateVars
  <2>4. PlaneInv(w)'
    BY <1>1, <1>2, <1>7, <2>1, Zenon DEF RecordOK, PlaneInv, gateVars, commandVars
  <2>5. BudgetInv(w)'
    <3>1. 0 <= max_attempts /\ initial_backoff \in initial_backoff .. max_backoff
      BY RecoveryAssumption
    <3>2. record_state'[w] # "Backoff" BY <1>7
    <3> QED BY <1>3, <1>4, <3>1, <3>2, Zenon DEF BudgetInv
  <2> QED BY <2>2, <2>3, <2>4, <2>5, Zenon DEF RecordOK
<1>10. PhaseInv'
  <2>1. \A x \in Workers : Fresh(x) => Fresh(x)' BY <1>1, Zenon DEF Fresh, gateVars,
                           recordVars
  <2>2. C \notin {"respawn", "createfailed", "exhausted"} BY DEF Stabilised, Monitoring
  <2>3. CType /\ PhaseInv BY TypeGroups, Zenon DEF InductiveInvariant
  <2>4. UNCHANGED <<cVars, startup_result, activation_result, run_active, data_plane_released>>
    BY <1>1, Zenon DEF resultVars, commandVars
  <2> QED BY <2>1, <2>2, <2>3, <2>4, PhaseFrame, Zenon
<1>11. /\ RecordType' /\ GateType' /\ TimeType' /\ ThreadType'
       /\ ResultType' /\ CType' /\ FailureType'
  BY <1>1, TypeGroups, TypeFrames, Zenon
<1> QED BY <1>1, <1>5, <1>6, <1>8, <1>9, <1>10, <1>11, RecordStep, ZenonT(40)

\* C takes up a record and leaves the monitoring loop for a replacement's next step.
LEMMA TargetPhase ==
    ASSUME InductiveInvariant, C \in Supervising, C' \in Supervising \ {"respawn"},
           target' \in Workers,
           UNCHANGED <<run_active, startup_result, activation_result, data_plane_released>>,
           C' \in {"createfailed", "exhausted"} =>
               record_state'[target'] \in {"Creating", "Starting", "Backoff"}
    PROVE  PhaseInv'
BY WhileMonitoring, Zenon DEF PhaseInv, Supervising

\* The backoff is over and C creates the replacement.
LEMMA RecreateStep ==
    ASSUME TypeOK, InductiveInvariant, NEW w \in Workers, Recreate(w), UNCHANGED failure
    PROVE  (TypeOK /\ InductiveInvariant)'
<1>1. /\ C = "monitor" /\ record_state[w] = "Backoff" /\ target' = w
      /\ UNCHANGED <<todo, resultVars>> /\ C' \in {"respawn", "createfailed", "exhausted"}
  BY Zenon DEF Recreate, Monitoring
<1>2. C \in Supervising /\ C' \in Supervising BY <1>1 DEF Supervising
<1>3. recovery_attempts[w] < max_attempts /\ data_plane_released
  BY <1>1, <1>2, Zenon DEF InductiveInvariant, RecordInv, BudgetInv, PlaneInv
<1>4. recovery_attempts[w] \in Nat /\ CType /\ FailureType' /\ ResultType'
  BY <1>1, TypeGroups, TypeFrames, Zenon DEF RecoveryType
<1>5. /\ Attempted(w) \in Nat /\ Attempted(w) <= max_attempts
      /\ ~recovery_episode[w] => Attempted(w) = recovery_attempts[w]
  BY <1>3, <1>4, RecoveryAssumption, SMTT(30) DEF Attempted
<1>6. \A x \in Workers : Continues(x) BY <1>1, <1>2, Zenon DEF Continues
<1>7. CType' BY <1>1, <1>4, Zenon DEF CType, Positions
<1>8. /\ run_active /\ startup_result # "none" /\ activation_result # "none"
      /\ data_plane_released => activation_result = "ok"
      /\ UNCHANGED <<run_active, startup_result, activation_result>>
  BY <1>1, <1>2, WhileMonitoring, Zenon DEF resultVars
<1>9. ASSUME NEW created \in BOOLEAN, NewInstance(w, created),
             C' = IF created THEN "respawn" ELSE "createfailed"
      PROVE  (TypeOK /\ InductiveInvariant)'
  <2>1. /\ RecordType' /\ GateType' /\ RecoveryType'
        /\ UNCHANGED <<timeVars, thread, commandVars>>
        /\ RecordOK(w)' /\ \A x \in Workers : x # w => Same(x)
        /\ record_state'[w] = IF created THEN "Starting" ELSE "Creating"
        /\ created => Fresh(w)'
    BY <1>3, <1>5, <1>9, NewInstanceRecord, Zenon
  <2>2. TimeType' /\ ThreadType' BY <2>1, TypeGroups, TypeFrames, Zenon
  <2>3. PhaseInv' BY <1>1, <1>8, <1>9, <2>1, Zenon DEF PhaseInv, commandVars
  <2> QED BY <1>4, <1>6, <1>7, <2>1, <2>2, <2>3, RecordStep, Zenon
<1>10. CASE NoMoreInstances(w) /\ C' = "exhausted"
  <2>1. /\ UNCHANGED <<gateVars, recovery_episode, next_backoff, timeVars, recordVars, thread,
                       commandVars>>
        /\ recovery_attempts' = Set(recovery_attempts, w, Attempted(w))
    BY <1>10, Zenon DEF NoMoreInstances
  <2>2. /\ recovery_attempts' \in [Workers -> Nat] /\ recovery_attempts'[w] = Attempted(w)
        /\ \A x \in Workers : x # w => recovery_attempts'[x] = recovery_attempts[x]
    BY <1>5, <2>1, TypeGroups, Zenon DEF RecoveryType, Set
  <2>3. RecoveryType' BY <2>1, <2>2, TypeGroups, Zenon DEF RecoveryType
  <2>4. RecordType' /\ GateType' /\ TimeType' /\ ThreadType' BY <2>1, TypeGroups,
                           TypeFrames, Zenon
  <2>5. \A x \in Workers : x # w => Same(x) BY <2>1, <2>2, Zenon DEF Same, gateVars,
                           recordVars
  <2>6. RecordOK(w)'
    <3>1. RecordOK(w) BY DEF InductiveInvariant, RecordInv, RecordOK
    <3>2. InstanceInv(w)' BY <2>1, <3>1, Zenon DEF RecordOK, InstanceInv, recordVars
    <3>3. ThreadInv(w)' BY <2>1, <3>1, Zenon DEF RecordOK, ThreadInv, recordVars,
                           gateVars
    <3>4. PlaneInv(w)'
      BY <1>3, <2>1, <3>1, Zenon DEF RecordOK, PlaneInv, gateVars, recordVars,
         commandVars
    <3>5. BudgetInv(w)' BY <1>1, <1>5, <1>10, <2>1, <2>2, <3>1, Zenon DEF RecordOK,
                           BudgetInv
    <3> QED BY <3>2, <3>3, <3>4, <3>5 DEF RecordOK
  <2>7. PhaseInv'
    BY <1>1, <1>2, <1>8, <1>10, <2>1, TargetPhase, Zenon DEF recordVars,
       commandVars, Supervising
  <2> QED BY <1>4, <1>6, <1>7, <2>1, <2>3, <2>4, <2>5, <2>6, <2>7, RecordStep, Zenon
<1> QED BY <1>9, <1>10, Zenon DEF Recreate
\* The first critical section of handle_worker_failure, for a worker or a
\* replacement: an episode begins or goes on, and the record waits for the join.
LEMMA FailingStep ==
    ASSUME TypeOK, InductiveInvariant, NEW w \in Workers, Failing(w), FailureType',
           C \in Supervising, C = "exhausted" => target = w
    PROVE  (TypeOK /\ InductiveInvariant)'
<1> DEFINE stable == record_state[w] = "Running" /\ recovery_episode[w] /\ completed_stable[w]
           fresh == stable \/ ~recovery_episode[w]
<1>1. /\ C' = "failing" /\ target' = w
      /\ UNCHANGED <<todo, gateVars, timeVars, thread, commandVars, resultVars>>
      /\ Promote(w, record_state[w], IF completion[w] THEN "Exited" ELSE "Stopping")
  BY Zenon DEF Failing
<1>2. RecoveryType /\ RecordType /\ CommandType /\ CType BY TypeGroups, Zenon
<1>3. RecordOK(w) BY Zenon DEF InductiveInvariant, RecordInv, RecordOK
<1>4. PICK to \in {"Exited", "Stopping"} :
          to = (IF completion[w] THEN "Exited" ELSE "Stopping")
  BY Zenon
<1>5. to \in RecordStates BY Zenon DEF RecordStates
<1>6. /\ RecordType' /\ record_state'[w] = to
      /\ \A x \in Workers : x # w => record_state'[x] = record_state[x]
      /\ UNCHANGED <<instance_id, instance, stop_source, quiesced_through>>
  BY <1>1, <1>2, <1>4, <1>5, PromoteFields, Zenon
<1>7. /\ recovery_episode' \in Flags
      /\ recovery_episode'[w] = (IF fresh THEN data_plane_released ELSE TRUE)
      /\ \A x \in Workers : x # w => recovery_episode'[x] = recovery_episode[x]
  <2>1. (IF fresh THEN data_plane_released ELSE TRUE) \in BOOLEAN BY <1>2, Zenon DEF
                           CommandType
  <2>2. recovery_episode' = Set(recovery_episode, w, IF fresh THEN data_plane_released ELSE TRUE)
    BY Zenon DEF Failing
  <2> HIDE DEF fresh, stable
  <2> QED BY <1>2, <2>1, <2>2, Zenon DEF RecoveryType, Flags, Set
<1>8. /\ recovery_attempts' \in [Workers -> Nat]
      /\ recovery_attempts'[w] = (IF stable THEN 0 ELSE recovery_attempts[w])
      /\ \A x \in Workers : x # w => recovery_attempts'[x] = recovery_attempts[x]
  <2>1. recovery_attempts' = Set(recovery_attempts, w, IF stable THEN 0 ELSE recovery_attempts[w])
    BY Zenon DEF Failing
  <2> HIDE DEF stable
  <2> QED BY <1>2, <2>1, Zenon DEF RecoveryType, Set
<1>9. /\ next_backoff' \in [Workers -> Nat]
      /\ next_backoff'[w] = (IF fresh THEN initial_backoff ELSE next_backoff[w])
      /\ \A x \in Workers : x # w => next_backoff'[x] = next_backoff[x]
  <2>1. next_backoff' = Set(next_backoff, w, IF fresh THEN initial_backoff ELSE next_backoff[w])
    BY Zenon DEF Failing
  <2> HIDE DEF fresh, stable
  <2> QED BY <1>2, <2>1, RecoveryAssumption, Zenon DEF RecoveryType, Set
<1>10. RecoveryType' BY <1>7, <1>8, <1>9, Zenon DEF RecoveryType
<1>11. GateType' /\ TimeType' /\ ThreadType' /\ ResultType' BY <1>1, TypeGroups,
                           TypeFrames, Zenon
<1>12. CType' BY <1>1, <1>2, Zenon DEF CType, Positions
<1>13. \A x \in Workers : x # w => Same(x)
  BY <1>1, <1>6, <1>7, <1>8, <1>9, ZenonT(40) DEF Same, gateVars
<1>14. \A x \in Workers : x # w => Continues(x) BY <1>1, Zenon DEF Continues
<1>15. RecordOK(w)'
  <2>1. InstanceInv(w)' BY <1>1, <1>3, <1>6, Zenon DEF RecordOK, InstanceInv
  <2>2. ThreadInv(w)' BY <1>1, <1>3, <1>4, <1>6, Zenon DEF RecordOK, ThreadInv,
                         gateVars
  <2>3. PlaneInv(w)'
    <3>1. recovery_episode'[w] => data_plane_released
      BY <1>3, <1>7, Zenon DEF RecordOK, PlaneInv
    <3> QED BY <1>1, <1>3, <1>6, <3>1, Zenon DEF RecordOK, PlaneInv, gateVars,
               commandVars
  <2>4. BudgetInv(w)'
    <3>1. recovery_attempts'[w] <= max_attempts
      <4>1. 0 <= max_attempts /\ recovery_attempts[w] <= max_attempts
        <5>1. BudgetInv(w) BY <1>3, Zenon DEF RecordOK
        <5>2. recovery_attempts[w] <= max_attempts BY <5>1, Zenon DEF BudgetInv
        <5>3. 0 <= max_attempts BY RecoveryAssumption
        <5> QED BY <5>2, <5>3, Zenon
      <4> QED BY <1>8, <4>1, Zenon
    <3>2. ~recovery_episode'[w] => recovery_attempts'[w] = 0
      BY <1>3, <1>7, <1>8, Zenon DEF RecordOK, BudgetInv, PlaneInv
    <3>3. next_backoff'[w] \in initial_backoff .. max_backoff
      <4>1. initial_backoff \in initial_backoff .. max_backoff BY RecoveryAssumption
      <4>2. next_backoff[w] \in initial_backoff .. max_backoff BY <1>3, Zenon DEF RecordOK, BudgetInv
      <4> QED BY <1>9, <4>1, <4>2, Zenon
    <3> QED BY <1>6, <3>1, <3>2, <3>3, Zenon DEF BudgetInv
  <2> QED BY <2>1, <2>2, <2>3, <2>4, Zenon DEF RecordOK
<1>16. PhaseInv'
  BY <1>1, TargetPhase DEF Supervising, resultVars, commandVars
<1> QED BY <1>1, <1>6, <1>10, <1>11, <1>12, <1>13, <1>14, <1>15, <1>16, RecordStep,
           Zenon

\* WorkerFailed and ReplacementFailed.
LEMMA FailedStep ==
    ASSUME TypeOK, InductiveInvariant,
           \/ \E w \in Workers : WorkerFailed(w) /\ UNCHANGED failure
           \/ ReplacementFailed
    PROVE  (TypeOK /\ InductiveInvariant)'
<1>1. ASSUME NEW w \in Workers, WorkerFailed(w), UNCHANGED failure
      PROVE  (TypeOK /\ InductiveInvariant)'
  <2>1. C = "monitor" /\ Failing(w) BY <1>1 DEF WorkerFailed, Monitoring
  <2>2. FailureType' BY <1>1, TypeGroups, TypeFrames, Zenon
  <2> QED BY <2>1, <2>2, FailingStep DEF Supervising
<1>2. CASE ReplacementFailed
  <2>1. C \in {"createfailed", "exhausted"} /\ Failing(target) /\ FailureType'
    BY <1>2, Zenon DEF ReplacementFailed, FailureType
  <2>2. PICK w \in Workers : w = target BY <2>1, WhileMonitoring, Zenon DEF
                           Supervising
  <2> QED BY <2>1, <2>2, FailingStep, Zenon DEF Supervising
<1> QED BY <1>1, <1>2

\* The delay doubles up to the maximal one.
LEMMA DoubledBackoff ==
    ASSUME NEW c \in initial_backoff .. max_backoff
    PROVE  doubled_backoff(c) \in initial_backoff .. max_backoff /\ doubled_backoff(c) \in Nat
BY RecoveryAssumption, SMTT(30) DEF doubled_backoff

\* handle_worker_failure decides for a restart: an attempt is left.
LEMMA DecideStep ==
    ASSUME TypeOK, InductiveInvariant, DecideRestart
    PROVE  (TypeOK /\ InductiveInvariant)'
<1>1. C = "decide" BY Zenon DEF DecideRestart
<1>2. PICK w \in Workers : w = target BY <1>1, WhileMonitoring, Zenon DEF Supervising
<1>3. /\ data_plane_released /\ Restart /\ recovery_attempts[w] < max_attempts
      /\ Promote(w, "Offline", "Backoff")
      /\ backoff_over' = Set(backoff_over, w, FALSE)
      /\ next_backoff' = Set(next_backoff, w, doubled_backoff(next_backoff[w]))
      /\ C' = "monitor" /\ target' = NoWorker
      /\ UNCHANGED <<failure, todo, gateVars, recovery_episode, recovery_attempts, window_over,
                     completed_stable, thread, commandVars, resultVars>>
  BY <1>2, Zenon DEF DecideRestart
<1>4. RecordOK(w) BY Zenon DEF InductiveInvariant, RecordInv, RecordOK
<1>5. RecoveryType /\ RecordType /\ CType /\ TimeType BY TypeGroups, Zenon
<1>6. "Backoff" \in RecordStates BY Zenon DEF RecordStates
<1>7. /\ RecordType' /\ record_state[w] = "Offline" /\ record_state'[w] = "Backoff"
      /\ \A x \in Workers : x # w => record_state'[x] = record_state[x]
      /\ UNCHANGED <<instance_id, instance, stop_source, quiesced_through>>
  BY <1>3, <1>5, <1>6, PromoteFields, Zenon
<1>8. /\ doubled_backoff(next_backoff[w]) \in initial_backoff .. max_backoff
      /\ doubled_backoff(next_backoff[w]) \in Nat
  BY <1>4, DoubledBackoff, Zenon DEF RecordOK, BudgetInv
<1>9. /\ next_backoff' \in [Workers -> Nat]
      /\ next_backoff'[w] = doubled_backoff(next_backoff[w])
      /\ \A x \in Workers : x # w => next_backoff'[x] = next_backoff[x]
  BY <1>3, <1>5, <1>8, Zenon DEF RecoveryType, Set
<1>10. RecoveryType' BY <1>3, <1>5, <1>9, Zenon DEF RecoveryType
<1>11. TimeType' BY <1>3, <1>5, ZenonT(40) DEF TimeType, Set, Flags
<1>12. GateType' /\ ThreadType' /\ ResultType' /\ FailureType' BY <1>3, TypeGroups,
                           TypeFrames, Zenon
<1>13. CType' BY <1>3, <1>5, Zenon DEF CType, Positions
<1>14. \A x \in Workers : x # w => Same(x) BY <1>3, <1>7, <1>9, Zenon DEF Same,
                           gateVars
<1>15. \A x \in Workers : Continues(x) BY <1>1, Zenon DEF Continues, Supervising
<1>16. RecordOK(w)'
  <2>1. InstanceInv(w)' BY <1>3, <1>4, <1>7, Zenon DEF RecordOK, InstanceInv
  <2>2. ThreadInv(w)' BY <1>3, <1>4, <1>7, Zenon DEF RecordOK, ThreadInv, gateVars
  <2>3. PlaneInv(w)' BY <1>3, <1>4, <1>7, Zenon DEF RecordOK, PlaneInv, gateVars,
                        commandVars
  <2>4. BudgetInv(w)' BY <1>3, <1>4, <1>8, <1>9, Zenon DEF RecordOK, BudgetInv
  <2> QED BY <2>1, <2>2, <2>3, <2>4, Zenon DEF RecordOK
<1>17. PhaseInv'
  <2>1. C \in Supervising BY <1>1, Zenon DEF Supervising
  <2> QED BY <1>3, <2>1, WhileMonitoring, PastActivation, Zenon DEF resultVars,
             commandVars
<1> QED BY <1>3, <1>7, <1>10, <1>11, <1>12, <1>13, <1>14, <1>15, <1>16, <1>17,
           RecordStep, ZenonT(40)
-----------------------------------------------------------------------------
(* Stopping and joining *)

\* request_all_worker_stops and the end of run.
LEMMA StopAllStep ==
    ASSUME TypeOK, InductiveInvariant, StopAll
    PROVE  (TypeOK /\ InductiveInvariant)'
<1>1. /\ C \in {"stop", "abrupt"}
      /\ UNCHANGED <<gateVars, recoveryVars, timeVars, instance_id, record_state, instance,
                     quiesced_through, thread, commandVars, startup_result, activation_result,
                     fatal_reported, target, failure>>
  BY DEF StopAll
<1>2. RecordType /\ CType /\ ResultType BY TypeGroups, Zenon
<1>3. /\ run_active /\ startup_result # "none" /\ activation_result # "none"
      /\ data_plane_released => activation_result = "ok"
  BY <1>1, Zenon DEF InductiveInvariant, PhaseInv
<1>4. stop_source' \in Flags
  BY <1>2, Zenon DEF StopAll, RecordType, CType, Set, Flags
<1>5. /\ C' \in {"stop", "abrupt", "joinall", "done"} /\ todo' \subseteq Workers
      /\ run_active' \in BOOLEAN /\ (run_active' <=> C' # "done")
  BY <1>1, <1>2, <1>3, ZenonT(40) DEF StopAll, CType
<1>6. RecordType' BY <1>1, <1>2, <1>4 DEF RecordType
<1>7. CType' /\ ResultType' BY <1>1, <1>2, <1>5 DEF CType, ResultType, Positions
<1>8. TypeOK' BY <1>1, <1>6, <1>7, TypeGroups, TypeGroupsNext, TypeFrames, Zenon
<1>9. PhaseInv' BY <1>1, <1>3, <1>5, PastActivation, Zenon DEF commandVars
<1>10. \A x \in Workers : Same(x) BY <1>1, Zenon DEF Same, gateVars, recoveryVars
<1>11. \A x \in Workers : Continues(x) BY <1>5, Zenon DEF Continues, Supervising
<1>12. RecordInv' BY <1>1, <1>10, <1>11, NoRecord, Zenon DEF InductiveInvariant,
                     commandVars
<1> QED BY <1>8, <1>9, <1>12, ZenonT(40) DEF InductiveInvariant

\* join_and_reset up to the join.
LEMMA JoinBeginStep ==
    ASSUME TypeOK, InductiveInvariant, JoinBegin
    PROVE  (TypeOK /\ InductiveInvariant)'
<1>1. /\ \/ C = "failing" /\ C' = "joining"
         \/ C = "joinall" /\ C' = "joinwait"
      /\ UNCHANGED <<gateVars, recoveryVars, timeVars, instance_id, instance, quiesced_through,
                     thread, commandVars, resultVars, todo, failure>>
  BY Zenon DEF JoinBegin
<1>2. target' \in Workers
  <2>1. CASE C = "failing" BY <2>1, WhileMonitoring, Zenon DEF JoinBegin, Supervising
  <2>2. CASE C = "joinall" BY <2>2, TypeGroups, Zenon DEF JoinBegin, CType
  <2> QED BY <1>1, <2>1, <2>2, Zenon
<1>3. PICK w \in Workers : w = target' BY <1>2, Zenon
<1>4. RecordType /\ CType BY TypeGroups, ZenonT(40)
<1>5. /\ record_state' \in [Workers -> RecordStates]
      /\ record_state'[w] = record_state[w] \/ record_state'[w] = "Stopping"
      /\ \A x \in Workers : x # w => record_state'[x] = record_state[x]
  BY <1>3, <1>4 DEF JoinBegin, RecordType, RecordStates, Set
<1>6. stop_source' \in Flags BY <1>2, <1>4, ZenonT(40) DEF JoinBegin, RecordType,
                           Set, Flags
<1>7. RecordType' BY <1>1, <1>4, <1>5, <1>6, Zenon DEF RecordType
<1>8. CType' BY <1>1, <1>2, <1>4, Zenon DEF CType, Positions
<1>9. /\ GateType' /\ RecoveryType' /\ TimeType' /\ ThreadType' /\ ResultType' /\ FailureType'
  BY <1>1, TypeGroups, TypeFrames, Zenon
<1>10. \A x \in Workers : x # w => Same(x) BY <1>1, <1>5, Zenon DEF Same, gateVars,
                           recoveryVars
<1>11. \A x \in Workers : Continues(x) BY <1>1, Zenon DEF Continues, Supervising
<1>12. RecordOK(w)'
  <2>1. RecordOK(w) BY DEF InductiveInvariant, RecordInv, RecordOK
  <2>2. CASE record_state'[w] = record_state[w]
    <3>1. Same(w) BY <1>1, <2>2, Zenon DEF Same, gateVars, recoveryVars
    <3> QED BY <1>1, <1>11, <2>1, <3>1, SameRecord, ZenonT(40) DEF commandVars
  <2>3. CASE record_state'[w] = "Stopping"
    <3>1. InstanceInv(w)' BY <1>1, <2>1, Zenon DEF RecordOK, InstanceInv
    <3>2. ThreadInv(w)' BY <1>1, <2>1, <2>3, Zenon DEF RecordOK, ThreadInv, gateVars
    <3>3. PlaneInv(w)'
      BY <1>1, <2>1, <2>3, Zenon DEF RecordOK, PlaneInv, gateVars, recoveryVars,
         commandVars
    <3>4. BudgetInv(w)' BY <1>1, <2>1, <2>3, Zenon DEF RecordOK, BudgetInv,
                           recoveryVars
    <3> QED BY <3>1, <3>2, <3>3, <3>4 DEF RecordOK
  <2> QED BY <1>5, <2>2, <2>3, Zenon
<1>13. PhaseInv'
  BY <1>1, <1>2, Zenon DEF InductiveInvariant, PhaseInv, resultVars, commandVars
<1> QED BY <1>1, <1>7, <1>8, <1>9, <1>10, <1>11, <1>12, <1>13, RecordStep, ZenonT(40)

\* join_and_reset after the join: thread and instance are gone when the epoch is quiesced.
LEMMA ResetRecord ==
    ASSUME TypeOK, InductiveInvariant, NEW w \in Workers, Reset(w)
    PROVE  /\ RecordType' /\ GateType' /\ RecoveryType' /\ TimeType' /\ ThreadType' /\ FailureType'
           /\ RecordOK(w)' /\ \A x \in Workers : x # w => Same(x)
           /\ UNCHANGED <<commandVars, startup_result, activation_result, fatal_reported>>
<1>1. UNCHANGED <<ready, activated, completion, recoveryVars, timeVars, instance_id, stop_source,
                  commandVars, startup_result, activation_result, fatal_reported, failure>>
  BY Zenon DEF Reset
<1>2. RecordType /\ GateType /\ ThreadType BY TypeGroups, Zenon
<1>3. RecordOK(w) BY ZenonT(40) DEF InductiveInvariant, RecordInv, RecordOK
<1>4. /\ thread' \in [Workers -> Threads] /\ thread'[w] = "none"
      /\ \A x \in Workers : x # w => thread'[x] = thread[x]
  BY <1>2 DEF Reset, Set, ThreadType, Threads
<1>5. /\ instance' \in Flags /\ instance'[w] = FALSE
      /\ \A x \in Workers : x # w => instance'[x] = instance[x]
  BY <1>2, Zenon DEF Reset, Set, RecordType, Flags
<1>6. /\ quiesced_through' \in [Workers -> 0 .. MaxInstance]
      /\ quiesced_through'[w] = instance_id[w]
      /\ \A x \in Workers : x # w => quiesced_through'[x] = quiesced_through[x]
  <2> HIDE DEF Reset
  <2>1. instance_id[w] \in 0 .. MaxInstance BY <1>2, Zenon DEF RecordType
  <2>2. quiesced_through' = Set(quiesced_through, w, instance_id[w]) BY Zenon DEF
                           Reset
  <2> QED BY <1>2, <2>1, <2>2, ZenonT(40) DEF Set, RecordType
<1>7. /\ record_state' \in [Workers -> RecordStates] /\ record_state'[w] = "Offline"
      /\ \A x \in Workers : x # w => record_state'[x] = record_state[x]
  BY <1>2, Zenon DEF Reset, Set, RecordType, RecordStates
<1>8. activation_allowed' \in Flags BY <1>2, Zenon DEF Reset, Set, GateType, Flags
<1>9. /\ data_plane_allowed' \in Flags /\ data_plane_allowed'[w] = FALSE
      /\ \A x \in Workers : x # w => data_plane_allowed'[x] = data_plane_allowed[x]
  BY <1>2, ZenonT(40) DEF Reset, Set, GateType, Flags
<1>10. RecordType' /\ GateType' /\ ThreadType'
  BY <1>1, <1>2, <1>4, <1>5, <1>6, <1>7, <1>8, <1>9, Zenon DEF RecordType, GateType,
     ThreadType
<1>11. RecoveryType' /\ TimeType' /\ FailureType' BY <1>1, TypeGroups, TypeFrames,
                           Zenon
<1>12. \A x \in Workers : x # w => Same(x)
  BY <1>1, <1>4, <1>5, <1>6, <1>7, <1>9, Zenon DEF Same, recoveryVars
<1>13. InstanceInv(w)'
  <2>1. instance_id[w] \in 0 .. MaxInstance /\ instance_id'[w] = instance_id[w]
    BY <1>1, <1>2, Zenon DEF RecordType
  <2>2. PICK n \in 0 .. MaxInstance : n = instance_id[w] BY <2>1, Zenon
  <2>3. n <= n BY RecoveryAssumption
  <2> QED BY <1>4, <1>5, <1>6, <2>1, <2>2, <2>3, Zenon DEF InstanceInv
<1>14. ThreadInv(w)' BY <1>4, <1>7, Zenon DEF ThreadInv
<1>15. PlaneInv(w)'
  BY <1>1, <1>3, <1>7, <1>9, Zenon DEF RecordOK, PlaneInv, recoveryVars, commandVars
<1>16. BudgetInv(w)' BY <1>1, <1>3, <1>7, Zenon DEF RecordOK, BudgetInv, recoveryVars
<1> QED BY <1>1, <1>10, <1>11, <1>12, <1>13, <1>14, <1>15, <1>16, ZenonT(40) DEF
           RecordOK

\* C's own join, of one failed worker or of all.
LEMMA JoinEndStep ==
    ASSUME TypeOK, InductiveInvariant, JoinEnd
    PROVE  (TypeOK /\ InductiveInvariant)'
<1>1. /\ C \in {"joining", "joinwait"} /\ Reset(target) BY Zenon DEF JoinEnd
<1>2. /\ target \in Workers /\ run_active /\ startup_result # "none" /\ activation_result # "none"
      /\ data_plane_released => activation_result = "ok"
  BY <1>1, Zenon DEF InductiveInvariant, PhaseInv
<1>3. PICK w \in Workers : w = target BY <1>2, Zenon
<1>4. /\ RecordType' /\ GateType' /\ RecoveryType' /\ TimeType' /\ ThreadType' /\ FailureType'
      /\ RecordOK(w)' /\ \A x \in Workers : x # w => Same(x)
      /\ UNCHANGED <<commandVars, startup_result, activation_result, fatal_reported>>
  BY <1>1, <1>3, ResetRecord, ZenonT(40)
<1>5. \/ /\ C = "joining" /\ C' = "decide" /\ UNCHANGED <<todo, target, run_active>>
      \/ /\ C = "joinwait" /\ todo' = todo \ {target} /\ target' = NoWorker
         /\ C' = (IF todo = {target} THEN "done" ELSE "joinall")
         /\ run_active' = (todo # {target})
  BY DEF JoinEnd
<1>6. CType /\ ResultType BY TypeGroups, Zenon
<1>7. CType' /\ ResultType' BY <1>4, <1>5, <1>6, ZenonT(40) DEF CType, ResultType,
                           Positions
<1>8. \A x \in Workers : Continues(x) BY <1>5 DEF Continues, Supervising
<1>9. PhaseInv'
  <2>1. UNCHANGED data_plane_released BY <1>4 DEF commandVars
  <2>2. CASE C = "joining" BY <1>2, <1>4, <1>5, <2>1, <2>2 DEF PhaseInv
  <2>3. CASE C = "joinwait" BY <1>2, <1>4, <1>5, <2>1, <2>3, PastActivation,
                           ZenonT(40)
  <2> QED BY <1>1, <2>2, <2>3
<1> QED BY <1>4, <1>7, <1>8, <1>9, RecordStep, Zenon

\* emergency_join_all, once C is gone.
LEMMA EmergencyJoinStep ==
    ASSUME TypeOK, InductiveInvariant, NEW w \in Workers, EmergencyJoin(w)
    PROVE  (TypeOK /\ InductiveInvariant)'
<1>1. ~run_active /\ Reset(w) /\ UNCHANGED <<cVars, run_active>> BY Zenon DEF
                           EmergencyJoin
<1>2. /\ RecordType' /\ GateType' /\ RecoveryType' /\ TimeType' /\ ThreadType' /\ FailureType'
      /\ RecordOK(w)' /\ \A x \in Workers : x # w => Same(x)
      /\ UNCHANGED <<commandVars, startup_result, activation_result, fatal_reported>>
  BY <1>1, ResetRecord, Zenon
<1>3. CType' /\ ResultType' BY <1>1, <1>2, TypeGroups, TypeFrames, Zenon DEF
                           resultVars
<1>4. C = "done" /\ UNCHANGED C BY <1>1, Zenon DEF InductiveInvariant, PhaseInv, cVars
<1>5. \A x \in Workers : Continues(x) BY <1>4, Zenon DEF Continues
<1>6. PhaseInv'
  BY <1>1, <1>2, <1>4, PastActivation, Zenon DEF InductiveInvariant, PhaseInv,
     commandVars
<1> QED BY <1>2, <1>3, <1>5, <1>6, RecordStep
-----------------------------------------------------------------------------
(* The commands of DNS, and the clock *)

\* C and every field the invariant speaks about are left alone.
LEMMA QuietStep ==
    ASSUME TypeOK, InductiveInvariant, TypeOK', \A x \in Workers : Same(x),
           UNCHANGED <<resultVars, cVars, data_plane_released>>
    PROVE  (TypeOK /\ InductiveInvariant)'
<1>1. UNCHANGED <<C, todo, target>> BY Zenon DEF cVars
<1>2. \A x \in Workers : Continues(x) BY <1>1, Zenon DEF Continues
<1>3. RecordInv' BY <1>2, NoRecord, Zenon DEF InductiveInvariant
<1>4. PhaseInv'
  <2>1. \A x \in Workers : Fresh(x) => Fresh(x)' BY Zenon DEF Fresh, Same
  <2>2. C \in {"respawn", "createfailed", "exhausted"} =>
            record_state'[target] \in {"Creating", "Starting", "Backoff"}
    BY Zenon DEF InductiveInvariant, PhaseInv, Same
  <2>3. CType BY TypeGroups, Zenon
  <2> QED BY <2>1, <2>2, <2>3, PhaseFrame, Zenon DEF resultVars, InductiveInvariant
<1> QED BY <1>3, <1>4, Zenon DEF InductiveInvariant

\* RequestActivation, RequestStop, StopWorker and TimePasses.
LEMMA CommandStep ==
    ASSUME TypeOK, InductiveInvariant,
           \/ RequestActivation \/ RequestStop
           \/ \E w \in Workers : StopWorker(w) \/ TimePasses(w)
    PROVE  (TypeOK /\ InductiveInvariant)'
<1>1. /\ RecordType /\ GateType /\ RecoveryType /\ TimeType /\ ThreadType
      /\ ResultType /\ CommandType /\ CType /\ FailureType
  BY TypeGroups, Zenon
<1>2. CASE RequestActivation
  <2>1. /\ UNCHANGED <<ready, activated, completion, data_plane_allowed, recoveryVars, timeVars,
                       recordVars, thread, resultVars, stop_requested, data_plane_released,
                       stopping, cVars, failure>>
        /\ activation_requested' = TRUE /\ activation_allowed' = All(TRUE)
    BY <1>2 DEF RequestActivation
  <2>2. activation_allowed' \in Flags BY <2>1, ZenonT(40) DEF All, Flags
  <2>3. GateType' BY <1>1, <2>1, <2>2, ZenonT(40) DEF GateType
  <2>4. CommandType' BY <1>1, <2>1 DEF CommandType
  <2>5. TypeOK' BY <1>1, <2>1, <2>3, <2>4, TypeGroupsNext, TypeFrames
  <2>6. \A x \in Workers : Same(x) BY <2>1, Zenon DEF Same, recordVars, recoveryVars
  <2> QED BY <2>1, <2>5, <2>6, QuietStep, ZenonT(40)
<1>3. CASE RequestStop
  <2>1. /\ UNCHANGED <<gateVars, recoveryVars, timeVars, recordVars, thread, resultVars,
                       activation_requested, data_plane_released, cVars, failure>>
        /\ stop_requested' = TRUE /\ stopping' = Workers
    BY <1>3, Zenon DEF RequestStop
  <2>2. CommandType' BY <1>1, <2>1, Zenon DEF CommandType
  <2>3. TypeOK' BY <1>1, <2>1, <2>2, TypeGroupsNext, TypeFrames, Zenon
  <2>4. \A x \in Workers : Same(x) BY <2>1, Zenon DEF Same, gateVars, recordVars,
                           recoveryVars
  <2> QED BY <2>1, <2>3, <2>4, QuietStep, Zenon
<1>4. ASSUME NEW w \in Workers, StopWorker(w) PROVE (TypeOK /\ InductiveInvariant)'
  <2>1. /\ UNCHANGED <<gateVars, recoveryVars, timeVars, instance_id, record_state, instance,
                       quiesced_through, thread, resultVars, stop_requested, activation_requested,
                       data_plane_released, cVars, failure>>
        /\ stopping' = stopping \ {w} /\ stop_source' = Set(stop_source, w, TRUE)
    BY <1>4, Zenon DEF StopWorker
  <2>2. CommandType' BY <1>1, <2>1 DEF CommandType
  <2>3. stop_source' \in Flags BY <1>1, <2>1, ZenonT(40) DEF RecordType, Set, Flags
  <2>4. RecordType' BY <1>1, <2>1, <2>3, ZenonT(40) DEF RecordType
  <2>5. TypeOK' BY <1>1, <2>1, <2>2, <2>4, TypeGroupsNext, TypeFrames
  <2>6. \A x \in Workers : Same(x) BY <2>1, Zenon DEF Same, gateVars, recoveryVars
  <2> QED BY <2>1, <2>5, <2>6, QuietStep, Zenon
<1>5. ASSUME NEW w \in Workers, TimePasses(w) PROVE (TypeOK /\ InductiveInvariant)'
  <2>1. UNCHANGED <<gateVars, recoveryVars, completed_stable, recordVars, thread, resultVars,
                    commandVars, cVars, failure>>
    BY <1>5, Zenon DEF TimePasses
  <2>2. backoff_over' \in Flags /\ window_over' \in Flags
    BY <1>1, <1>5, Zenon DEF TimePasses, TimeType, Set, Flags
  <2>3. TimeType' BY <1>1, <2>1, <2>2, Zenon DEF TimeType
  <2>4. TypeOK' BY <1>1, <2>1, <2>3, TypeGroupsNext, TypeFrames, Zenon
  <2>5. \A x \in Workers : Same(x) BY <2>1, Zenon DEF Same, gateVars, recordVars,
                           recoveryVars
  <2> QED BY <2>1, <2>4, <2>5, QuietStep, Zenon DEF commandVars
<1> QED BY <1>2, <1>3, <1>4, <1>5, Zenon

\* release_data_plane: every worker is Running.
LEMMA ReleaseStep ==
    ASSUME TypeOK, InductiveInvariant, ReleaseDataPlane
    PROVE  (TypeOK /\ InductiveInvariant)'
<1>1. /\ UNCHANGED <<ready, activated, completion, activation_allowed, recoveryVars, timeVars,
                     recordVars, thread, resultVars, stop_requested, activation_requested, stopping,
                     cVars, failure>>
      /\ data_plane_released' = TRUE /\ data_plane_allowed' = All(TRUE)
      /\ activation_result = "ok" /\ \A w \in Workers : record_state[w] = "Running"
  BY DEF ReleaseDataPlane
<1>2. data_plane_allowed' \in Flags BY <1>1, ZenonT(40) DEF All, Flags
<1>3. GateType' /\ CommandType' BY <1>1, <1>2, TypeGroups, ZenonT(40) DEF GateType,
                           CommandType
<1>4. TypeOK' BY <1>1, <1>3, TypeGroups, TypeGroupsNext, TypeFrames
<1>5. UNCHANGED <<C, todo, target>> BY <1>1, Zenon DEF cVars
<1>6. RecordInv'
  <2> SUFFICES ASSUME NEW x \in Workers PROVE RecordOK(x)'
    BY Zenon DEF RecordInv, RecordOK
  <2>1. RecordOK(x) BY DEF InductiveInvariant, RecordInv, RecordOK
  <2>2. data_plane_allowed'[x] = TRUE BY <1>1, Zenon DEF All
  <2>3. InstanceInv(x)' BY <1>1, <2>1, Zenon DEF RecordOK, InstanceInv, recordVars
  <2>4. ThreadInv(x)' BY <1>1, <2>1, <2>2, Zenon DEF RecordOK, ThreadInv, recordVars
  <2>5. PlaneInv(x)' BY <1>1, Zenon DEF PlaneInv, recordVars
  <2>6. BudgetInv(x)' BY <1>1, <1>5, <2>1, Zenon DEF RecordOK, BudgetInv,
                         recordVars, recoveryVars
  <2> QED BY <2>3, <2>4, <2>5, <2>6 DEF RecordOK
<1>7. PhaseInv'
  <2>1. \A x \in Workers : Fresh(x) => Fresh(x)' BY <1>1, Zenon DEF Fresh, recordVars
  <2>2. C \in {"respawn", "createfailed", "exhausted"} =>
            record_state'[target] \in {"Creating", "Starting", "Backoff"}
    BY <1>1, Zenon DEF InductiveInvariant, PhaseInv, recordVars
  <2>3. CType BY TypeGroups, Zenon
  <2> QED BY <1>1, <2>1, <2>2, <2>3, PhaseFrame, Zenon DEF resultVars,
             InductiveInvariant
<1> QED BY <1>4, <1>6, <1>7, ZenonT(40) DEF InductiveInvariant

\* Nothing happens.
LEMMA StutterStep ==
    ASSUME TypeOK, InductiveInvariant, UNCHANGED vars
    PROVE  (TypeOK /\ InductiveInvariant)'
<1>1. UNCHANGED <<gateVars, recoveryVars, timeVars, recordVars, thread, resultVars, commandVars,
                  cVars, failure>>
  BY Zenon DEF vars
<1>2. TypeOK' BY <1>1, TypeGroups, TypeGroupsNext, TypeFrames, Zenon
<1>3. \A x \in Workers : Same(x) BY <1>1, Zenon DEF Same, gateVars, recordVars,
                           recoveryVars
<1> QED BY <1>1, <1>2, <1>3, QuietStep, Zenon DEF commandVars
-----------------------------------------------------------------------------
(* The theorems *)

\* Before C creates a worker the invariant holds.
LEMMA InitInvariant == Init => TypeOK /\ InductiveInvariant
<1> SUFFICES ASSUME Init PROVE TypeOK /\ InductiveInvariant
  BY Zenon
<1>1. RecordType
  <2>1. instance_id \in [Workers -> 0 .. MaxInstance] /\ quiesced_through \in [Workers -> 0 .. MaxInstance]
    BY RecoveryAssumption, SMTT(30) DEF Init, All
  <2>2. record_state \in [Workers -> RecordStates] BY DEF Init, All, RecordStates
  <2>3. instance \in Flags /\ stop_source \in Flags BY Zenon DEF Init, All, Flags
  <2> QED BY <2>1, <2>2, <2>3, Zenon DEF RecordType
<1>2. GateType
  <2>1. ready \in [Workers -> {"none", "Ready", "InitError"}] BY DEF Init, All
  <2>2. /\ activated \in Flags /\ completion \in Flags /\ activation_allowed \in Flags
        /\ data_plane_allowed \in Flags
    BY Zenon DEF Init, All, Flags
  <2> QED BY <2>1, <2>2, ZenonT(40) DEF GateType
<1>3. RecoveryType
  <2>1. recovery_episode \in Flags BY ZenonT(40) DEF Init, All, Flags
  <2>2. recovery_attempts \in [Workers -> Nat] BY ZenonT(40) DEF Init, All
  <2>3. next_backoff \in [Workers -> Nat] BY RecoveryAssumption DEF Init, All
  <2> QED BY <2>1, <2>2, <2>3 DEF RecoveryType
<1>4. TimeType BY ZenonT(40) DEF Init, All, TimeType, Flags
<1>5. ThreadType BY Zenon DEF Init, All, ThreadType, Threads
<1>6. ResultType /\ CommandType /\ CType /\ FailureType
  BY Zenon DEF Init, ResultType, CommandType, CType, FailureType, Results, Positions
<1>7. TypeOK BY <1>1, <1>2, <1>3, <1>4, <1>5, <1>6, TypeGroups
<1>8. RecordInv
  <2> SUFFICES ASSUME NEW w \in Workers PROVE RecordOK(w)
    BY ZenonT(40) DEF RecordInv, RecordOK
  <2>1. InstanceInv(w) BY DEF Init, All, InstanceInv
  <2>2. ThreadInv(w) BY Zenon DEF Init, All, ThreadInv
  <2>3. PlaneInv(w) BY Zenon DEF Init, All, PlaneInv
  <2>4. BudgetInv(w) BY RecoveryAssumption, SMTT(30) DEF Init, All, BudgetInv
  <2> QED BY <2>1, <2>2, <2>3, <2>4 DEF RecordOK
<1>9. PhaseInv BY Zenon DEF Init, PhaseInv
<1> QED BY <1>7, <1>8, <1>9, Zenon DEF InductiveInvariant

\* Every step keeps the invariant.
LEMMA InvariantStep == TypeOK /\ InductiveInvariant /\ [Next]_vars => (TypeOK /\ InductiveInvariant)'
<1> SUFFICES ASSUME TypeOK, InductiveInvariant, [Next]_vars
             PROVE  (TypeOK /\ InductiveInvariant)'
  BY Zenon
<1>1. CASE CStep
  <2>1. ASSUME \/ CreateWorkers \/ StartWorkerThreads \/ AwaitReadiness \/ AwaitActivation
               \/ Cancelled \/ StopSeen \/ Respawn,
               UNCHANGED failure
        PROVE  (TypeOK /\ InductiveInvariant)'
    BY <2>1, CreateStep, StartStep, ReadinessStep, ActivationStep, CancelledStep,
       FatalStep, RespawnStep, Zenon
  <2>2. ASSUME NEW w \in Workers, MonitorStep(w) PROVE (TypeOK /\ InductiveInvariant)'
    BY <2>2, FailedStep, ReplacementStep, StabilisedStep, RecreateStep, Zenon DEF
       MonitorStep
  <2>3. CASE ReplacementFailed \/ DecideRestart \/ DecideFailure \/ StopAll \/ JoinBegin \/ JoinEnd
    BY <2>3, FailedStep, DecideStep, FatalStep, StopAllStep, JoinBeginStep,
       JoinEndStep, Zenon
  <2> QED BY <1>1, <2>1, <2>2, <2>3, Zenon DEF CStep
<1>2. CASE (AbruptExit /\ UNCHANGED failure) \/ RefreshRequestFails \/ JoinFails
  BY <1>2, CancelledStep, FatalStep, Zenon
<1>3. CASE RequestActivation \/ ReleaseDataPlane \/ RequestStop
  BY <1>3, CommandStep, ReleaseStep, Zenon
<1>4. ASSUME NEW w \in Workers,
             \/ WorkerStep(w) \/ WorkerFails(w) \/ TimePasses(w) \/ StopWorker(w) \/ EmergencyJoin(w)
      PROVE  (TypeOK /\ InductiveInvariant)'
  BY <1>4, SilentStep, ReportStep, CommandStep, EmergencyJoinStep, Zenon DEF
     WorkerStep
<1>5. CASE Terminated \/ UNCHANGED vars BY <1>5, StutterStep, Zenon DEF Terminated
<1> QED BY <1>1, <1>2, <1>3, <1>4, <1>5, Zenon DEF Next

\* The supervisor's types and its inductive invariant hold in every reachable
\* state, for any workers and any valid recovery configuration.
THEOREM Invariance == Spec => [](TypeOK /\ InductiveInvariant)
BY InitInvariant, InvariantStep, PTL DEF Spec

\* Once quiesced_through_instance_id_ reaches an instance, its thread and its
\* WorkerLoop are gone: what join_and_reset promises thread B.
THEOREM QuiescedInstancesAreGone == Spec => []QuiescedMeansGone
<1>1. InductiveInvariant => QuiescedMeansGone
  BY ZenonT(40) DEF InductiveInvariant, RecordInv, InstanceInv, QuiescedMeansGone
<1> QED BY <1>1, Invariance, PTL

\* A worker serves clients only behind both gates, on a record C has not given up.
THEOREM ServingIsReleased == Spec => []ServesOnlyWhenReleased
<1>1. TypeOK /\ InductiveInvariant => ServesOnlyWhenReleased
  <2> SUFFICES ASSUME TypeOK, InductiveInvariant, NEW w \in Workers, thread[w] = "serving"
               PROVE  /\ data_plane_released /\ activation_result = "ok"
                      /\ activated[w] /\ instance[w]
                      /\ record_state[w] \in {"Running", "Stopping"}
    BY Zenon DEF ServesOnlyWhenReleased
  <2>1. InstanceInv(w) /\ ThreadInv(w) /\ PlaneInv(w) /\ PhaseInv
    BY Zenon DEF InductiveInvariant, RecordInv
  <2>2. activated[w] /\ data_plane_allowed[w] /\ instance[w] /\ record_state[w] # "Exited"
    BY <2>1, Zenon DEF InstanceInv, ThreadInv
  <2>3. data_plane_released /\ record_state[w] \in {"Running", "Stopping"}
    BY <2>1, <2>2, ZenonT(40) DEF PlaneInv
  <2> QED BY <2>1, <2>2, <2>3, Zenon DEF PhaseInv
<1> QED BY <1>1, Invariance, PTL

\* Whatever ends run, wait_for_startup and wait_for_activation have an answer.
THEOREM NobodyWaitsForever == Spec => []WaitersAreAnswered
<1>1. InductiveInvariant => WaitersAreAnswered
  BY DEF InductiveInvariant, PhaseInv, WaitersAreAnswered
<1> QED BY <1>1, Invariance, PTL

\* what RestartBudget asks of a step
Forgives(w) ==
    recovery_attempts[w] > 0 /\ recovery_attempts'[w] = 0 =>
        IF completion[w] THEN completed_stable[w] ELSE window_over[w]

\* A created replacement costs an attempt.
LEMMA ChargedAttempt ==
    ASSUME TypeOK, NEW w \in Workers, recovery_attempts' = Set(recovery_attempts, w, Attempted(w)),
           NEW x \in Workers
    PROVE  Forgives(x)
<1>1. recovery_attempts \in [Workers -> Nat] BY TypeGroups, Zenon DEF RecoveryType
<1>2. Attempted(w) \in Nat /\ Attempted(w) >= recovery_attempts[w] BY <1>1, SMTT(30)
                           DEF Attempted
<1>3. recovery_attempts'[x] = IF x = w THEN Attempted(w) ELSE recovery_attempts[x]
  BY <1>1, Zenon DEF Set
<1>4. recovery_attempts[x] \in Nat BY <1>1, Zenon
<1>5. CASE x = w
  <2>1. recovery_attempts[x] > 0 => recovery_attempts'[x] # 0 BY <1>2, <1>3, <1>4, <1>5
  <2> QED BY <2>1, Zenon DEF Forgives
<1>6. CASE x # w
  <2>1. recovery_attempts[x] > 0 => recovery_attempts[x] # 0 BY <1>4
  <2> QED BY <1>3, <1>6, <2>1, Zenon DEF Forgives
<1> QED BY <1>5, <1>6

\* A failure gives the attempts back to a worker that completed after its window.
LEMMA FailingForgives ==
    ASSUME TypeOK, InductiveInvariant, NEW w \in Workers, Failing(w),
           record_state[w] = "Running" => completion[w], NEW x \in Workers
    PROVE  Forgives(x)
<1> DEFINE stable == record_state[w] = "Running" /\ recovery_episode[w] /\ completed_stable[w]
<1>1. recovery_attempts \in [Workers -> Nat] BY TypeGroups, Zenon DEF RecoveryType
<1>2. recovery_attempts' = Set(recovery_attempts, w, IF stable THEN 0 ELSE recovery_attempts[w])
  BY Zenon DEF Failing
<1>3. recovery_attempts'[x] = IF x = w /\ stable THEN 0 ELSE recovery_attempts[x]
  <2> HIDE DEF stable
  <2> QED BY <1>1, <1>2, Zenon DEF Set
<1>4. recovery_attempts[x] > 0 => recovery_attempts[x] # 0
  <2>1. PICK k \in Nat : k = recovery_attempts[x] BY <1>1, Zenon
  <2> QED BY <2>1
<1>5. CASE x = w /\ stable BY <1>5, Zenon DEF Forgives
<1>6. CASE ~(x = w /\ stable) BY <1>3, <1>4, <1>6, Zenon DEF Forgives
<1> QED BY <1>5, <1>6, Zenon

\* Of all steps only Failing and Stabilised give attempts back.
LEMMA ForgivingStep ==
    TypeOK /\ InductiveInvariant /\ [Next]_vars => [\A w \in Workers : Forgives(w)]_vars
<1> SUFFICES ASSUME TypeOK, InductiveInvariant, [Next]_vars, NEW x \in Workers PROVE Forgives(x)
  BY Zenon
<1>1. UNCHANGED recovery_attempts => Forgives(x)
  <2>1. recovery_attempts[x] \in Nat BY TypeGroups, Zenon DEF RecoveryType
  <2> QED BY <2>1, SMTT(30) DEF Forgives
<1>2. CASE CStep
  <2>1. CASE CreateWorkers
    <3>1. PICK w \in todo, c \in BOOLEAN : NewInstance(w, c) BY <2>1, Zenon DEF
                           CreateWorkers
    <3>2. w \in Workers BY TypeGroups DEF CType
    <3> QED BY <3>1, <3>2, ChargedAttempt, Zenon DEF NewInstance
  <2>2. CASE StartWorkerThreads \/ AwaitReadiness \/ AwaitActivation \/ Cancelled \/ StopSeen \/ Respawn
    BY <1>1, <2>2, Zenon DEF StartWorkerThreads, AwaitReadiness, AwaitActivation,
       Cancelled, StopSeen, Respawn, Spawned, Untouched, recoveryVars
  <2>3. ASSUME NEW w \in Workers, WorkerFailed(w) PROVE Forgives(x)
    <3>1. record_state[w] = "Running" => completion[w]
      BY <2>3, Zenon DEF WorkerFailed, InductiveInvariant, RecordInv, ThreadInv
    <3> QED BY <2>3, <3>1, FailingForgives, Zenon DEF WorkerFailed
  <2>4. ASSUME NEW w \in Workers, Stabilised(w) PROVE Forgives(x)
    <3>1. recovery_attempts \in [Workers -> Nat] BY TypeGroups, Zenon DEF RecoveryType
    <3>2. /\ recovery_attempts' = Set(recovery_attempts, w, 0) /\ ~completion[w] /\ window_over[w]
      BY <2>4, Zenon DEF Stabilised
    <3>3. recovery_attempts'[x] = IF x = w THEN 0 ELSE recovery_attempts[x] BY <3>1,
                           <3>2, Zenon DEF Set
    <3>4. recovery_attempts[x] > 0 => recovery_attempts[x] # 0
      <4>1. PICK k \in Nat : k = recovery_attempts[x] BY <3>1, Zenon
      <4> QED BY <4>1
    <3> QED BY <3>2, <3>3, <3>4, Zenon DEF Forgives
  <2>5. ASSUME NEW w \in Workers, Recreate(w) PROVE Forgives(x)
    <3>1. recovery_attempts' = Set(recovery_attempts, w, Attempted(w))
      BY <2>5, Zenon DEF Recreate, NewInstance, NoMoreInstances
    <3> QED BY <3>1, ChargedAttempt, Zenon
  <2>6. ASSUME NEW w \in Workers, ReplacementReady(w) \/ ReplacementActivated(w) PROVE Forgives(x)
    BY <1>1, <2>6, Zenon DEF ReplacementReady, ReplacementActivated, recoveryVars
  <2>7. CASE ReplacementFailed
    <3>1. C \in {"createfailed", "exhausted"} /\ Failing(target) BY <2>7, Zenon DEF
                           ReplacementFailed
    <3>2. PICK w \in Workers : w = target BY <3>1, WhileMonitoring, Zenon DEF
                           Supervising
    <3>3. record_state[w] # "Running" BY <3>1, <3>2, Zenon DEF InductiveInvariant,
                           PhaseInv
    <3> QED BY <3>1, <3>2, <3>3, FailingForgives, Zenon
  <2>8. CASE DecideRestart \/ DecideFailure \/ StopAll \/ JoinBegin
    BY <1>1, <2>8, Zenon DEF DecideRestart, DecideFailure, StopAll, JoinBegin,
       Untouched, recoveryVars
  <2>9. CASE JoinEnd BY <1>1, <2>9, Zenon DEF JoinEnd, Reset, recoveryVars
  <2> QED BY <1>2, <2>1, <2>2, <2>3, <2>4, <2>5, <2>6, <2>7, <2>8, <2>9, ZenonT(40)
             DEF CStep, MonitorStep
<1>3. CASE AbruptExit \/ RefreshRequestFails \/ JoinFails
  BY <1>1, <1>3, Zenon DEF AbruptExit, RefreshRequestFails, JoinFails, Untouched,
     recoveryVars
<1>4. CASE RequestActivation \/ ReleaseDataPlane \/ RequestStop
  BY <1>1, <1>4, Zenon DEF RequestActivation, ReleaseDataPlane, RequestStop,
     recoveryVars
<1>5. ASSUME NEW w \in Workers, WorkerStep(w) \/ WorkerFails(w) PROVE Forgives(x)
  <2>1. Others(w)
    BY <1>5, Zenon DEF WorkerStep, WorkerFails, ReportReady, AwaitWorkerActivation,
       AwaitWorkerDataPlane, StopServing, ReportCompletion
  <2> QED BY <1>1, <2>1, Zenon DEF Others, recoveryVars
<1>6. ASSUME NEW w \in Workers, TimePasses(w) \/ StopWorker(w) \/ EmergencyJoin(w) PROVE Forgives(x)
  BY <1>1, <1>6, ZenonT(40) DEF TimePasses, StopWorker, EmergencyJoin, Reset,
     recoveryVars
<1>7. CASE Terminated \/ UNCHANGED vars BY <1>1, <1>7 DEF Terminated, vars,
                           recoveryVars
<1> QED BY <1>2, <1>3, <1>4, <1>5, <1>6, <1>7, Zenon DEF Next

-----------------------------------------------------------------------------
(* The delays: the closed form of RestartBudget *)

LOCAL INSTANCE WellFoundedInduction

\* A set with 0 in it that has every successor has every number.
LEMMA SetInduction ==
    ASSUME NEW S, 0 \in S, \A n \in Nat : n \in S => n + 1 \in S
    PROVE  Nat \subseteq S
<1> SUFFICES ASSUME NEW m \in Nat, m \notin S PROVE FALSE
  OBVIOUS
<1>1. \A x, y \in Nat : y < x => <<y, x>> \in OpToRel(<, Nat)
  <2>1. ASSUME NEW x \in Nat, NEW y \in Nat, y < x
        PROVE  <<y, x>> \in {ss \in Nat \X Nat : ss[1] < ss[2]}
    BY <2>1
  <2> QED BY <2>1 DEF OpToRel
<1>2. PICK R : IsWellFoundedOn(R, Nat) /\ \A x, y \in Nat : y < x => <<y, x>> \in R
  BY <1>1, NatLessThanWellFounded, Zenon
<1>3. Nat \ S # {} /\ Nat \ S \in SUBSET Nat OBVIOUS
<1>4. PICK x \in Nat \ S : \A y \in Nat \ S : ~(<<y, x>> \in R) BY <1>2, <1>3,
                           WFMin, Zenon
<1>5. x # 0 BY <1>4
<1>6. x - 1 \in Nat /\ x - 1 < x /\ (x - 1) + 1 = x BY <1>4, <1>5
<1>7. x - 1 \notin S BY <1>4, <1>6, Zenon
<1> QED BY <1>2, <1>4, <1>6, <1>7, Zenon

\* delay solves the recursion of Doubled(k)
Doubling(k, delay) ==
    delay = [n \in 0 .. k |-> IF n = 0 THEN initial_backoff ELSE 2 * delay[n - 1]]

\* The recursion of Doubled has a solution.
LEMMA DoublingExists ==
    ASSUME NEW k \in Nat
    PROVE  \E delay \in [0 .. k -> Nat] : Doubling(k, delay)
<1> DEFINE Solved(m) == \E d \in [0 .. m -> Nat] : Doubling(m, d)
           S == {m \in Nat : Solved(m)}
<1>1. Solved(0)
  <2>1. [n \in 0 .. 0 |-> initial_backoff] \in [0 .. 0 -> Nat] BY RecoveryAssumption
  <2>2. Doubling(0, [n \in 0 .. 0 |-> initial_backoff]) BY DEF Doubling
  <2> QED BY <2>1, <2>2
<1>2. ASSUME NEW m \in Nat, Solved(m) PROVE Solved(m + 1)
  <2>1. PICK d \in [0 .. m -> Nat] : Doubling(m, d) BY <1>2
  <2>2. \A n \in 0 .. m : d[n] = IF n = 0 THEN initial_backoff ELSE 2 * d[n - 1]
    BY <2>1 DEF Doubling
  <2> DEFINE g == [n \in 0 .. m + 1 |-> IF n = m + 1 THEN 2 * d[m] ELSE d[n]]
  <2>3. g \in [0 .. m + 1 -> Nat] OBVIOUS
  <2>4. ASSUME NEW n \in 0 .. m + 1
        PROVE  g[n] = IF n = 0 THEN initial_backoff ELSE 2 * g[n - 1]
    <3>1. CASE n = m + 1
      <4>1. n - 1 = m /\ m \in 0 .. m + 1 /\ m # m + 1 /\ n # 0 BY <3>1
      <4> QED BY <3>1, <4>1
    <3>2. CASE n # m + 1
      <4>1. n \in 0 .. m /\ (n # 0 => n - 1 \in 0 .. m + 1 /\ n - 1 # m + 1) BY <3>2
      <4> QED BY <2>2, <3>2, <4>1
    <3> QED BY <3>1, <3>2
  <2>5. Doubling(m + 1, g)
    <3>1. g = [n \in 0 .. m + 1 |-> g[n]] OBVIOUS
    <3> HIDE DEF g
    <3> QED BY <2>3, <2>4 DEF Doubling
  <2> QED BY <2>3, <2>5
<1> HIDE DEF Solved
<1>3. 0 \in S /\ \A n \in Nat : n \in S => n + 1 \in S
  <2>1. 0 \in Nat /\ \A n \in Nat : n + 1 \in Nat OBVIOUS
  <2> QED BY <1>1, <1>2, <2>1, Zenon
<1>4. Nat \subseteq S
  <2> HIDE DEF S
  <2> QED BY <1>3, SetInduction
<1> QED BY <1>4, Zenon DEF Solved

\* Any two solutions agree where both are defined.
LEMMA DoublingAgrees ==
    ASSUME NEW k \in Nat, NEW l \in Nat, NEW d, NEW e, Doubling(k, d), Doubling(l, e),
           NEW n \in Nat, n <= k, n <= l
    PROVE  d[n] = e[n]
<1>1. /\ \A m \in 0 .. k : d[m] = IF m = 0 THEN initial_backoff ELSE 2 * d[m - 1]
      /\ \A m \in 0 .. l : e[m] = IF m = 0 THEN initial_backoff ELSE 2 * e[m - 1]
  BY DEF Doubling
<1> DEFINE S == {m \in Nat : m <= k /\ m <= l => d[m] = e[m]}
<1>2. 0 \in S BY <1>1
<1>3. ASSUME NEW m \in Nat, m \in S PROVE m + 1 \in S
  <2>1. ASSUME m + 1 <= k, m + 1 <= l PROVE d[m + 1] = e[m + 1]
    <3>1. /\ m <= k /\ m <= l /\ m + 1 \in 0 .. k /\ m + 1 \in 0 .. l
          /\ m + 1 # 0 /\ (m + 1) - 1 = m
      BY <2>1
    <3>2. d[m] = e[m] BY <1>3, <3>1, Zenon
    <3> QED BY <1>1, <3>1, <3>2
  <2> QED BY <2>1
<1>4. Nat \subseteq S
  <2> HIDE DEF S
  <2> QED BY <1>2, <1>3, SetInduction
<1> QED BY <1>4, Zenon

\* What Doubled computes.
LEMMA DoubledIs ==
    ASSUME NEW k \in Nat
    PROVE  /\ Doubled(k) \in Nat /\ Doubled(0) = initial_backoff
           /\ Doubled(k + 1) = 2 * Doubled(k)
<1>1. ASSUME NEW m \in Nat
      PROVE  \E d \in [0 .. m -> Nat] : Doubling(m, d) /\ Doubled(m) = d[m]
  <2> DEFINE delay == CHOOSE d : Doubling(m, d)
  <2>1. PICK d \in [0 .. m -> Nat] : Doubling(m, d) BY DoublingExists, Zenon
  <2>2. Doubling(m, delay) BY <2>1, Zenon
  <2>3. Doubled(m) = delay[m] BY DEF Doubled, Doubling
  <2> HIDE DEF delay
  <2>4. m <= m OBVIOUS
  <2>5. delay[m] = d[m] BY <2>1, <2>2, <2>4, DoublingAgrees
  <2> QED BY <2>1, <2>3, <2>5, Zenon
<1>2. 0 \in Nat /\ k + 1 \in Nat /\ k <= k /\ k <= k + 1 /\ (k + 1) - 1 = k OBVIOUS
<1>3. PICK d \in [0 .. k -> Nat] : Doubling(k, d) /\ Doubled(k) = d[k] BY <1>1, Zenon
<1>4. PICK e \in [0 .. k + 1 -> Nat] : Doubling(k + 1, e) /\ Doubled(k + 1) = e[k + 1]
  BY <1>1, <1>2, Zenon
<1>5. PICK z \in [0 .. 0 -> Nat] : Doubling(0, z) /\ Doubled(0) = z[0] BY <1>1, <1>2, Zenon
<1>6. e[k] = d[k] BY <1>2, <1>3, <1>4, DoublingAgrees
<1>7. e[k + 1] = 2 * e[k] BY <1>4 DEF Doubling
<1>8. z[0] = initial_backoff BY <1>5 DEF Doubling
<1>9. d[k] \in Nat BY <1>3
<1> QED BY <1>3, <1>4, <1>5, <1>6, <1>7, <1>8, <1>9

\* the delay after k doublings, as the code caps it
Delay(k) == LeastOf(Doubled(k), max_backoff)

\* doubled_backoff goes from one delay to the next.
LEMMA DelayIs ==
    ASSUME NEW k \in Nat
    PROVE  /\ Delay(k) \in Nat /\ Delay(0) = initial_backoff
           /\ doubled_backoff(Delay(k)) = Delay(k + 1)
<1>1. /\ Doubled(k) \in Nat /\ Doubled(0) = initial_backoff /\ Doubled(k + 1) = 2 * Doubled(k)
  BY DoubledIs, Zenon
<1>2. /\ initial_backoff \in Nat /\ max_backoff \in Nat /\ max_backoff >= initial_backoff
  BY RecoveryAssumption
<1> QED BY <1>1, <1>2 DEF Delay, LeastOf, doubled_backoff

\* C has not begun to stop the workers
Deciding == C \notin {"stop", "abrupt", "joinall", "joinwait", "done"}

\* how often w's delay was doubled: a backoff that runs is ahead of its attempt
Doublings(w) ==
    recovery_attempts[w]
    + IF record_state[w] = "Backoff" /\ ~(C = "exhausted" /\ target = w) THEN 1 ELSE 0

DelayOK(w) ==
    /\ next_backoff[w] = Delay(Doublings(w))
    /\ record_state[w] = "Backoff" => recovery_episode[w]

\* C handles the failure of a worker whose backoff does not run
Handling == {"respawn", "createfailed", "failing", "joining"}

\* The delay follows the attempts, through every failure and replacement.
DelayInv ==
    Deciding =>
        /\ \A w \in Workers : DelayOK(w)
        /\ C \in Handling => record_state[target] # "Backoff"

\* nothing happens to x's delay
KeepsDelay(x) ==
    /\ next_backoff'[x] = next_backoff[x] /\ recovery_attempts'[x] = recovery_attempts[x]
    /\ recovery_episode'[x] = recovery_episode[x]
    /\ record_state'[x] = "Backoff" <=> record_state[x] = "Backoff"
    /\ C' = "exhausted" /\ target' = x <=> C = "exhausted" /\ target = x

\* A delay to which nothing happens still follows the attempts.
LEMMA DelayKept ==
    ASSUME NEW x \in Workers, DelayOK(x), KeepsDelay(x)
    PROVE  DelayOK(x)'
<1>1. Doublings(x)' = Doublings(x) BY Zenon DEF Doublings, KeepsDelay
<1>2. Delay(Doublings(x))' = Delay(Doublings(x)) BY <1>1 DEF Delay, Doubled, LeastOf
<1> QED BY <1>2, Zenon DEF DelayOK, KeepsDelay

\* One worker's delay changes.
LEMMA DelayOne ==
    ASSUME DelayInv, Deciding, NEW w \in Workers, DelayOK(w)',
           \A x \in Workers : x # w => KeepsDelay(x),
           C' \in Handling => record_state'[target'] # "Backoff"
    PROVE  DelayInv'
<1>1. ASSUME NEW x \in Workers PROVE DelayOK(x)'
  BY DelayKept, Zenon DEF DelayInv
<1> QED BY <1>1, Zenon DEF DelayInv

\* No worker's delay changes.
LEMMA DelayNone ==
    ASSUME DelayInv, Deciding' => /\ Deciding /\ \A x \in Workers : KeepsDelay(x)
                                  /\ C' \in Handling => record_state'[target'] # "Backoff"
    PROVE  DelayInv'
<1>1. ASSUME Deciding', NEW x \in Workers PROVE DelayOK(x)'
  BY <1>1, DelayKept, Zenon DEF DelayInv
<1> QED BY <1>1, Zenon DEF DelayInv

\* The changes of one record's state that leave every delay alone.
LEMMA DelayUntouched ==
    ASSUME TypeOK, DelayInv, Deciding' => Deciding, UNCHANGED recoveryVars,
           C # "exhausted", C' # "exhausted",
           C' \in Handling => C \in Handling /\ target' = target,
           \A x \in Workers : record_state'[x] = "Backoff" <=> record_state[x] = "Backoff",
           C' \in Handling => target \in Workers
    PROVE  DelayInv'
<1>1. \A x \in Workers : KeepsDelay(x) BY Zenon DEF KeepsDelay, recoveryVars
<1>2. ASSUME Deciding', C' \in Handling PROVE record_state'[target'] # "Backoff"
  BY <1>2, Zenon DEF DelayInv
<1> QED BY <1>1, <1>2, DelayNone, Zenon

\* Attempts are counted in numbers, and an attempt of no episode adds none.
LEMMA AttemptedIsNat ==
    ASSUME TypeOK, NEW w \in Workers
    PROVE  Attempted(w) \in Nat /\ \A k \in Nat : k + 0 = k
<1>1. PICK k \in Nat : k = recovery_attempts[w] BY TypeGroups, Zenon DEF RecoveryType
<1>2. k + 1 \in Nat /\ k + 0 \in Nat OBVIOUS
<1>3. \A m \in Nat : m + 0 = m OBVIOUS
<1> QED BY <1>1, <1>2, <1>3, Zenon DEF Attempted

\* what Delay says of a record whose attempts changed
LEMMA DelayOf ==
    ASSUME TypeOK', NEW w \in Workers, NEW k \in Nat, next_backoff'[w] = Delay(k),
           Doublings(w)' = k
    PROVE  next_backoff'[w] = Delay(Doublings(w))'
BY DEF Delay, Doubled, LeastOf

\* handle_worker_failure: the delay starts over with the attempts, or stays with them.
LEMMA FailingDelay ==
    ASSUME TypeOK, TypeOK', InductiveInvariant, DelayInv, Deciding, NEW w \in Workers, Failing(w),
           C = "exhausted" => target = w,
           C = "exhausted" \/ record_state[w] # "Backoff"
    PROVE  DelayInv'
<1> DEFINE stable == record_state[w] = "Running" /\ recovery_episode[w] /\ completed_stable[w]
           fresh == stable \/ ~recovery_episode[w]
<1>1. /\ recovery_attempts \in [Workers -> Nat] /\ next_backoff \in [Workers -> Nat]
      /\ recovery_episode \in [Workers -> BOOLEAN] /\ record_state \in [Workers -> RecordStates]
  BY TypeGroups, Zenon DEF RecoveryType, RecordType, Flags
<1>2. /\ recovery_episode' = Set(recovery_episode, w, IF fresh THEN data_plane_released ELSE TRUE)
      /\ recovery_attempts' = Set(recovery_attempts, w, IF stable THEN 0 ELSE recovery_attempts[w])
      /\ next_backoff' = Set(next_backoff, w, IF fresh THEN initial_backoff ELSE next_backoff[w])
      /\ record_state' = Set(record_state, w, IF completion[w] THEN "Exited" ELSE "Stopping")
      /\ C' = "failing" /\ target' = w
  BY Zenon DEF Failing, Promote
<1> HIDE DEF stable, fresh
<1>3. /\ recovery_attempts'[w] = (IF stable THEN 0 ELSE recovery_attempts[w])
      /\ next_backoff'[w] = (IF fresh THEN initial_backoff ELSE next_backoff[w])
      /\ record_state'[w] # "Backoff"
  BY <1>1, <1>2 DEF Set
<1>4. ASSUME NEW x \in Workers, x # w PROVE KeepsDelay(x)
  <2>1. /\ recovery_attempts'[x] = recovery_attempts[x] /\ next_backoff'[x] = next_backoff[x]
        /\ recovery_episode'[x] = recovery_episode[x] /\ record_state'[x] = record_state[x]
    BY <1>1, <1>2, <1>4, Zenon DEF Set
  <2> QED BY <1>2, <1>4, <2>1, Zenon DEF KeepsDelay
<1>5. PICK a \in Nat : a = recovery_attempts[w] BY <1>1
<1>6. Doublings(w) = a /\ next_backoff[w] = Delay(a)
  <2>1. a + 0 = a OBVIOUS
  <2>2. Doublings(w) = a BY <1>5, <2>1, Zenon DEF Doublings
  <2> QED BY <2>2, Zenon DEF DelayInv, DelayOK
<1>7. ~recovery_episode[w] => a = 0
  BY <1>5, Zenon DEF InductiveInvariant, RecordInv, BudgetInv
<1>8. /\ fresh <=> stable \/ ~recovery_episode[w] BY DEF fresh
<1>9. DelayOK(w)'
  <2>1. PICK k \in Nat : k = recovery_attempts'[w] BY <1>3, <1>5
  <2>2. Doublings(w)' = k
    <3>1. k + 0 = k BY AttemptedIsNat, Zenon
    <3> QED BY <1>3, <2>1, <3>1, Zenon DEF Doublings
  <2>3. next_backoff'[w] = Delay(k)
    <3>1. Delay(0) = initial_backoff BY DelayIs
    <3> QED BY <1>3, <1>5, <1>6, <1>7, <1>8, <2>1, <3>1, Zenon
  <2> QED BY <1>3, <2>2, <2>3, DelayOf, Zenon DEF DelayOK
<1> QED BY <1>2, <1>3, <1>4, <1>9, DelayOne, Zenon

\* A record that is created again is charged what its backoff had counted in advance.
LEMMA CreateDelay ==
    ASSUME TypeOK, TypeOK', DelayInv, Deciding, NEW w \in Workers, C \in {"create", "monitor"},
           recovery_attempts' = Set(recovery_attempts, w, Attempted(w)),
           UNCHANGED <<recovery_episode, next_backoff>>,
           recovery_episode[w] <=> record_state[w] = "Backoff",
           \A x \in Workers : x # w => record_state'[x] = record_state[x],
           \/ record_state'[w] # "Backoff" /\ C' # "exhausted"
           \/ UNCHANGED record_state /\ C' = "exhausted" /\ target' = w,
           C' \in Handling => target' = w /\ record_state'[w] # "Backoff"
    PROVE  DelayInv'
<1>1. recovery_attempts \in [Workers -> Nat] BY TypeGroups, Zenon DEF RecoveryType
<1>2. /\ recovery_attempts'[w] = Attempted(w)
      /\ \A x \in Workers : x # w => recovery_attempts'[x] = recovery_attempts[x]
  BY <1>1, Zenon DEF Set
<1>3. ASSUME NEW x \in Workers, x # w PROVE KeepsDelay(x)
  BY <1>2, <1>3, Zenon DEF KeepsDelay
<1>4. Doublings(w) = Attempted(w) BY Zenon DEF Doublings, Attempted
<1>5. PICK k \in Nat : k = Attempted(w) BY AttemptedIsNat, Zenon
<1>6. next_backoff'[w] = Delay(k) BY <1>4, <1>5, Zenon DEF DelayInv, DelayOK
<1>7. Doublings(w)' = k
  <2>1. k + 0 = k BY AttemptedIsNat, Zenon
  <2> QED BY <1>2, <1>5, <2>1, Zenon DEF Doublings
<1>8. DelayOK(w)' BY <1>6, <1>7, DelayOf, Zenon DEF DelayOK
<1> QED BY <1>3, <1>8, DelayOne, Zenon

\* The decision to restart starts the backoff and doubles the next one.
LEMMA RestartDelay ==
    ASSUME TypeOK, TypeOK', InductiveInvariant, DelayInv, DecideRestart
    PROVE  DelayInv'
<1>1. PICK w \in Workers : w = target BY WhileMonitoring, Zenon DEF Supervising, DecideRestart
<1>2. /\ C = "decide" /\ C' = "monitor" /\ recovery_episode[w] /\ record_state[w] = "Offline"
      /\ next_backoff' = Set(next_backoff, w, doubled_backoff(next_backoff[w]))
      /\ record_state' = Set(record_state, w, "Backoff")
      /\ UNCHANGED <<recovery_episode, recovery_attempts>>
  BY <1>1, Zenon DEF DecideRestart, Promote
<1>3. /\ recovery_attempts \in [Workers -> Nat] /\ next_backoff \in [Workers -> Nat]
      /\ record_state \in [Workers -> RecordStates]
  BY TypeGroups, Zenon DEF RecoveryType, RecordType
<1>4. /\ next_backoff'[w] = doubled_backoff(next_backoff[w]) /\ record_state'[w] = "Backoff"
      /\ \A x \in Workers : x # w => /\ next_backoff'[x] = next_backoff[x]
                                     /\ record_state'[x] = record_state[x]
  BY <1>2, <1>3, Zenon DEF Set
<1>5. ASSUME NEW x \in Workers, x # w PROVE KeepsDelay(x)
  BY <1>2, <1>4, <1>5, Zenon DEF KeepsDelay
<1>6. PICK a \in Nat : a = recovery_attempts[w] BY <1>3
<1>7. a + 0 = a /\ a + 1 \in Nat OBVIOUS
<1>8. Deciding BY <1>2, Zenon DEF Deciding
<1>9. Doublings(w) = a BY <1>2, <1>6, <1>7, Zenon DEF Doublings
<1>10. next_backoff[w] = Delay(a) BY <1>8, <1>9, Zenon DEF DelayInv, DelayOK
<1>11. next_backoff'[w] = Delay(a + 1) BY <1>4, <1>10, DelayIs, Zenon
<1>12. Doublings(w)' = a + 1 BY <1>2, <1>4, <1>6, Zenon DEF Doublings
<1>13. DelayOK(w)' BY <1>2, <1>7, <1>11, <1>12, DelayOf, Zenon DEF DelayOK
<1>14. C' \notin Handling BY <1>2, Zenon DEF Handling
<1> QED BY <1>5, <1>8, <1>13, <1>14, DelayOne, Zenon

\* Every step keeps the delays in line with the attempts.
LEMMA DelayStep ==
    ASSUME TypeOK, TypeOK', InductiveInvariant, DelayInv, [Next]_vars
    PROVE  DelayInv'
<1> USE DEF Deciding, Handling
<1>1. record_state \in [Workers -> RecordStates] BY TypeGroups, Zenon DEF RecordType
<1>2. ASSUME ~Deciding' PROVE DelayInv' BY <1>2, Zenon DEF DelayInv
<1>3. ASSUME UNCHANGED <<recoveryVars, record_state, C, target>> PROVE DelayInv'
  <2>1. \A x \in Workers : KeepsDelay(x) BY <1>3, Zenon DEF KeepsDelay, recoveryVars
  <2>2. ASSUME Deciding', C' \in Handling PROVE record_state'[target'] # "Backoff"
    BY <1>3, <2>2, Zenon DEF DelayInv
  <2>3. Deciding' => Deciding BY <1>3, Zenon
  <2> QED BY <2>1, <2>2, <2>3, DelayNone, Zenon
\* C moves within its startup or into the monitoring loop
<1>4. ASSUME UNCHANGED recoveryVars, C \notin {"exhausted", "stop", "abrupt", "joinall", "joinwait", "done"},
             C' # "exhausted", C' \notin Handling,
             \A x \in Workers : record_state'[x] = "Backoff" <=> record_state[x] = "Backoff"
      PROVE  DelayInv'
  BY <1>4, DelayUntouched, Zenon
<1>5. ASSUME NEW w \in Workers, NEW from \in RecordStates, NEW to \in RecordStates,
             Promote(w, from, to), from # "Backoff", to # "Backoff", NEW x \in Workers
      PROVE  record_state'[x] = "Backoff" <=> record_state[x] = "Backoff"
  BY <1>1, <1>5, Zenon DEF Promote, Set
<1>6. CASE CreateWorkers
  <2>1. PICK w \in todo, c \in BOOLEAN : NewInstance(w, c) /\ (C' \in {"create", "spawn"} \/ ~Deciding')
    BY <1>6, Zenon DEF CreateWorkers, GiveUp
  <2>2. w \in Workers /\ C = "create" BY <1>6, TypeGroups, Zenon DEF CType, CreateWorkers
  <2>3. ~recovery_episode[w]
    BY <2>2 DEF InductiveInvariant, RecordInv, PlaneInv, PhaseInv
  <2>4. record_state[w] # "Backoff" BY <2>2, <2>3, Zenon DEF DelayInv, DelayOK
  <2>5. /\ recovery_attempts' = Set(recovery_attempts, w, Attempted(w))
        /\ UNCHANGED <<recovery_episode, next_backoff>>
        /\ record_state' = Set(record_state, w, IF c THEN "Starting" ELSE "Creating")
    BY <2>1, Zenon DEF NewInstance
  <2>6. record_state'[w] # "Backoff" /\ \A x \in Workers : x # w => record_state'[x] = record_state[x]
    BY <1>1, <2>2, <2>5 DEF Set
  <2>7. CASE C' \in {"create", "spawn"}
    BY <2>2, <2>3, <2>4, <2>5, <2>6, <2>7, CreateDelay, Zenon
  <2> QED BY <1>2, <2>1, <2>7, Zenon
<1>7. CASE StartWorkerThreads
  <2>1. /\ UNCHANGED <<recoveryVars, record_state>> /\ C = "spawn"
        /\ C' \in {"ready", "spawn"} \/ ~Deciding'
    BY <1>7, Zenon DEF StartWorkerThreads, Spawned, Untouched, GiveUp, recordVars
  <2> QED BY <1>2, <1>4, <2>1, Zenon
<1>8. CASE AwaitReadiness
  <2>1. C = "ready" /\ UNCHANGED recoveryVars /\ (C' \in {"ready", "activate"} \/ ~Deciding')
    BY <1>8, Zenon DEF AwaitReadiness, Untouched, GiveUp, cVars
  <2>2. \/ UNCHANGED record_state
        \/ \E w \in Workers : Promote(w, "Starting", "Ready")
    BY <1>8, Zenon DEF AwaitReadiness, Untouched, recordVars
  <2>3. \A x \in Workers : record_state'[x] = "Backoff" <=> record_state[x] = "Backoff"
    BY <1>5, <2>2, Zenon DEF RecordStates
  <2> QED BY <1>2, <1>4, <2>1, <2>3, Zenon
<1>9. CASE AwaitActivation
  <2>1. C = "activate" /\ UNCHANGED recoveryVars /\ (C' \in {"activate", "monitor"} \/ ~Deciding')
    BY <1>9, Zenon DEF AwaitActivation, Untouched, GiveUp, cVars
  <2>2. \/ UNCHANGED record_state
        \/ \E w \in Workers : Promote(w, "Ready", "Running")
        \/ ~Deciding'
    BY <1>9, Zenon DEF AwaitActivation, Untouched, recordVars, GiveUp
  <2>3. ~Deciding' \/ \A x \in Workers : record_state'[x] = "Backoff" <=> record_state[x] = "Backoff"
    BY <1>5, <2>2, Zenon DEF RecordStates
  <2> QED BY <1>2, <1>4, <2>1, <2>3, Zenon
<1>10. CASE Respawn
  <2>1. /\ C = "respawn" /\ UNCHANGED <<recoveryVars, record_state>>
        /\ C' = "monitor" \/ (C' = "createfailed" /\ target' = target)
    BY <1>10, Zenon DEF Respawn, Spawned, Untouched, recordVars
  <2>2. target \in Workers BY <2>1, WhileMonitoring, Zenon DEF Supervising
  <2> QED BY <2>1, <2>2, DelayUntouched, Zenon
<1>11. ASSUME NEW w \in Workers, WorkerFailed(w) PROVE DelayInv'
  <2>1. C = "monitor" /\ Failing(w) /\ record_state[w] # "Backoff"
    BY <1>11, Zenon DEF WorkerFailed, Monitoring
  <2> QED BY <2>1, FailingDelay, Zenon
<1>12. CASE ReplacementFailed
  <2>1. C \in {"createfailed", "exhausted"} /\ Failing(target) BY <1>12, Zenon DEF ReplacementFailed
  <2>2. PICK w \in Workers : w = target BY <2>1, WhileMonitoring, Zenon DEF Supervising
  <2>3. C = "exhausted" \/ record_state[w] # "Backoff" BY <2>1, <2>2, Zenon DEF DelayInv
  <2> QED BY <2>1, <2>2, <2>3, FailingDelay, Zenon
<1>13. ASSUME NEW w \in Workers, ReplacementReady(w) \/ ReplacementActivated(w) PROVE DelayInv'
  <2>1. C = "monitor" /\ UNCHANGED <<C, recoveryVars>>
    BY <1>13, Zenon DEF ReplacementReady, ReplacementActivated, cVars, Monitoring
  <2>2. Promote(w, "Starting", "Ready") \/ Promote(w, "Ready", "Running")
    BY <1>13, Zenon DEF ReplacementReady, ReplacementActivated
  <2>3. \A x \in Workers : record_state'[x] = "Backoff" <=> record_state[x] = "Backoff"
    BY <1>5, <2>2, Zenon DEF RecordStates
  <2> QED BY <1>4, <2>1, <2>3, Zenon
<1>14. ASSUME NEW w \in Workers, Stabilised(w) PROVE DelayInv'
  <2>1. /\ C = "monitor" /\ UNCHANGED <<C, target, record_state>> /\ record_state[w] = "Running"
        /\ recovery_episode' = Set(recovery_episode, w, FALSE)
        /\ recovery_attempts' = Set(recovery_attempts, w, 0)
        /\ next_backoff' = Set(next_backoff, w, initial_backoff)
    BY <1>14, Zenon DEF Stabilised, Monitoring, cVars, recordVars
  <2>2. /\ recovery_attempts \in [Workers -> Nat] /\ next_backoff \in [Workers -> Nat]
        /\ recovery_episode \in [Workers -> BOOLEAN]
    BY TypeGroups, Zenon DEF RecoveryType, Flags
  <2>3. /\ recovery_attempts'[w] = 0 /\ next_backoff'[w] = initial_backoff
        /\ \A x \in Workers : x # w => /\ recovery_attempts'[x] = recovery_attempts[x]
                                       /\ next_backoff'[x] = next_backoff[x]
                                       /\ recovery_episode'[x] = recovery_episode[x]
    BY <2>1, <2>2, Zenon DEF Set
  <2>4. ASSUME NEW x \in Workers, x # w PROVE KeepsDelay(x)
    BY <2>1, <2>3, <2>4, Zenon DEF KeepsDelay
  <2>5. 0 \in Nat /\ 0 + 0 = 0 OBVIOUS
  <2>6. next_backoff'[w] = Delay(0) BY <2>3, <2>5, DelayIs, Zenon
  <2>7. Doublings(w)' = 0 BY <2>1, <2>3, <2>5, Zenon DEF Doublings
  <2>8. DelayOK(w)' BY <2>1, <2>5, <2>6, <2>7, DelayOf, Zenon DEF DelayOK
  <2> QED BY <2>1, <2>4, <2>8, DelayOne, Zenon
<1>15. ASSUME NEW w \in Workers, Recreate(w) PROVE DelayInv'
  <2>1. /\ C = "monitor" /\ record_state[w] = "Backoff" /\ target' = w
        /\ recovery_attempts' = Set(recovery_attempts, w, Attempted(w))
        /\ UNCHANGED <<recovery_episode, next_backoff>>
    BY <1>15, Zenon DEF Recreate, NewInstance, NoMoreInstances, Monitoring
  <2>2. recovery_episode[w] BY <2>1, Zenon DEF DelayInv, DelayOK
  <2>3. CASE NoMoreInstances(w) /\ C' = "exhausted"
    <3>1. UNCHANGED record_state BY <2>3, Zenon DEF NoMoreInstances, recordVars
    <3> QED BY <2>1, <2>2, <2>3, <3>1, CreateDelay, Zenon
  <2>4. ASSUME NEW c \in BOOLEAN, NewInstance(w, c), C' \in {"respawn", "createfailed"}
        PROVE  DelayInv'
    <3>1. record_state' = Set(record_state, w, IF c THEN "Starting" ELSE "Creating")
      BY <2>4, Zenon DEF NewInstance
    <3>2. record_state'[w] # "Backoff" /\ \A x \in Workers : x # w => record_state'[x] = record_state[x]
      BY <1>1, <3>1 DEF Set
    <3> QED BY <2>1, <2>2, <2>4, <3>2, CreateDelay, Zenon
  <2> QED BY <1>15, <2>3, <2>4, Zenon DEF Recreate
<1>16. CASE JoinBegin
  <2>1. CASE C = "failing" /\ C' = "joining" /\ target' = target
    <3>1. target \in Workers BY <2>1, WhileMonitoring, Zenon DEF Supervising
    <3>2. record_state[target] # "Backoff" BY <2>1, Zenon DEF DelayInv
    <3>3. UNCHANGED recoveryVars
          /\ (UNCHANGED record_state \/ record_state' = Set(record_state, target, "Stopping"))
      BY <1>16, <2>1, Zenon DEF JoinBegin
    <3>4. \A x \in Workers : record_state'[x] = "Backoff" <=> record_state[x] = "Backoff"
      BY <1>1, <3>1, <3>2, <3>3, Zenon DEF Set
    <3> QED BY <2>1, <3>1, <3>3, <3>4, DelayUntouched, Zenon
  <2> QED BY <1>2, <1>16, <2>1, Zenon DEF JoinBegin
<1>17. CASE JoinEnd
  <2>1. CASE C = "joining" /\ C' = "decide"
    <3>1. target \in Workers BY <2>1, WhileMonitoring, Zenon DEF Supervising
    <3>2. record_state[target] # "Backoff" BY <2>1, Zenon DEF DelayInv
    <3>3. UNCHANGED recoveryVars /\ record_state' = Set(record_state, target, "Offline")
      BY <1>17, Zenon DEF JoinEnd, Reset
    <3>4. \A x \in Workers : record_state'[x] = "Backoff" <=> record_state[x] = "Backoff"
      BY <1>1, <3>1, <3>2, <3>3, Zenon DEF Set
    <3> QED BY <1>4, <2>1, <3>3, <3>4, Zenon
  <2> QED BY <1>2, <1>17, <2>1, Zenon DEF JoinEnd
<1>18. CASE \/ Cancelled \/ StopSeen \/ DecideFailure \/ AbruptExit \/ RefreshRequestFails
            \/ StopAll \/ JoinFails
  <2>1. ~Deciding'
    BY <1>18, Zenon DEF Cancelled, StopSeen, DecideFailure, AbruptExit,
       RefreshRequestFails, StopAll, JoinFails, GiveUp
  <2> QED BY <1>2, <2>1, Zenon
<1>19. CASE RequestActivation \/ ReleaseDataPlane \/ RequestStop
  BY <1>3, <1>19, Zenon DEF RequestActivation, ReleaseDataPlane, RequestStop,
     recordVars, cVars
<1>20. ASSUME NEW w \in Workers, WorkerStep(w) \/ WorkerFails(w) PROVE DelayInv'
  <2>1. Others(w)
    BY <1>20, Zenon DEF WorkerStep, WorkerFails, ReportReady, AwaitWorkerActivation,
       AwaitWorkerDataPlane, StopServing, ReportCompletion
  <2> QED BY <1>3, <2>1, Zenon DEF Others, recordVars, cVars
<1>21. ASSUME NEW w \in Workers, TimePasses(w) \/ StopWorker(w) PROVE DelayInv'
  BY <1>3, <1>21, Zenon DEF TimePasses, StopWorker, recordVars, cVars
<1>22. ASSUME NEW w \in Workers, EmergencyJoin(w) PROVE DelayInv'
  <2>1. C' = C /\ C = "done"
    BY <1>22, Zenon DEF EmergencyJoin, cVars, InductiveInvariant, PhaseInv
  <2> QED BY <1>2, <2>1, Zenon
<1>23. CASE Terminated \/ UNCHANGED vars
  BY <1>3, <1>23, Zenon DEF Terminated, vars, recordVars, cVars
<1>24. CASE CStep
  BY <1>6, <1>7, <1>8, <1>9, <1>10, <1>11, <1>12, <1>13, <1>14, <1>15, <1>16, <1>17, <1>18,
     <1>24, RestartDelay, Zenon DEF CStep, MonitorStep
<1> QED BY <1>18, <1>19, <1>20, <1>21, <1>22, <1>23, <1>24, Zenon DEF Next

\* The restart budget, for any number of workers, any budget and any delays: it
\* is never exceeded, a backoff runs only while an attempt is left, the delay is
\* the initial one doubled for every attempt up to the maximum, and attempts are
\* given back only to a worker that outlived its stability window.
THEOREM RestartBudgetIsKept == Spec => RestartBudget
<1>1. Init => DelayInv
  <2> SUFFICES ASSUME Init PROVE DelayInv
    OBVIOUS
  <2>1. ASSUME NEW w \in Workers
        PROVE  /\ next_backoff[w] = initial_backoff /\ recovery_attempts[w] = 0
               /\ record_state[w] = "Offline" /\ C = "create"
    BY Zenon DEF Init, All
  <2>2. 0 \in Nat /\ 0 + 0 = 0 OBVIOUS
  <2>3. ASSUME NEW w \in Workers PROVE DelayOK(w)
    <3>1. Doublings(w) = 0 BY <2>1, <2>2, Zenon DEF Doublings
    <3>2. Delay(0) = initial_backoff BY <2>2, DelayIs, Zenon
    <3> QED BY <2>1, <3>1, <3>2, Zenon DEF DelayOK
  <2> QED BY <2>3, Zenon DEF DelayInv, Init, Handling
<1>2. TypeOK /\ TypeOK' /\ InductiveInvariant /\ DelayInv /\ [Next]_vars => DelayInv'
  BY DelayStep, Zenon
<1> DEFINE Budget == \A w \in Workers :
             /\ recovery_attempts[w] <= max_attempts
             /\ C = "monitor" /\ record_state[w] = "Backoff" =>
                   /\ Restart /\ recovery_attempts[w] < max_attempts
                   /\ next_backoff[w] = LeastOf(Doubled(recovery_attempts[w] + 1), max_backoff)
<1>3. TypeOK /\ InductiveInvariant /\ DelayInv => Budget
  <2> SUFFICES ASSUME TypeOK, InductiveInvariant, DelayInv, NEW w \in Workers
               PROVE  /\ recovery_attempts[w] <= max_attempts
                      /\ C = "monitor" /\ record_state[w] = "Backoff" =>
                            /\ Restart /\ recovery_attempts[w] < max_attempts
                            /\ next_backoff[w] = Delay(recovery_attempts[w] + 1)
    BY Zenon DEF Delay
  <2>1. /\ recovery_attempts[w] <= max_attempts
        /\ C = "monitor" /\ record_state[w] = "Backoff" => Restart /\ recovery_attempts[w] < max_attempts
    BY Zenon DEF InductiveInvariant, RecordInv, BudgetInv, Supervising
  <2>2. ASSUME C = "monitor", record_state[w] = "Backoff"
        PROVE  next_backoff[w] = Delay(recovery_attempts[w] + 1)
    <3>1. Doublings(w) = recovery_attempts[w] + 1 BY <2>2, Zenon DEF Doublings
    <3> QED BY <2>2, <3>1, Zenon DEF DelayInv, DelayOK, Deciding
  <2> QED BY <2>1, <2>2, Zenon
<1>4. TypeOK /\ InductiveInvariant /\ [Next]_vars =>
          [\A w \in Workers :
               recovery_attempts[w] > 0 /\ recovery_attempts'[w] = 0 =>
                   IF completion[w] THEN completed_stable[w] ELSE window_over[w]]_vars
  BY ForgivingStep DEF Forgives
<1> QED BY <1>1, <1>2, <1>3, <1>4, Invariance, PTL DEF Spec, RestartBudget, Budget

=============================================================================

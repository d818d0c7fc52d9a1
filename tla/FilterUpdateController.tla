----------------------- MODULE FilterUpdateController -----------------------
(***************************************************************************)
(* FilterUpdateController (src/FilterUpdateController.cpp): the bounded    *)
(* queue of rule-set replacements, thread A that builds and publishes them *)
(* one at a time, and a shutdown that must still answer every caller, and  *)
(* answer truthfully about what was published.                             *)
(*                                                                         *)
(* The publication state underneath appears as what it promises,           *)
(* FilterVersions (which FilterPublication implements), together with the  *)
(* retirement credit A acquires and thread B gives back.                   *)
(***************************************************************************)
EXTENDS Naturals, Sequences

CONSTANTS
    Commands, NoCommand,            \* calls of submit_replace
    Workers,                        \* readers of the published snapshot
    Rules,                          \* what each call asks for
    maximum_rule_count, maximum_normalized_rule_bytes,
    maximum_queued_rule_bytes, kMaximumPendingUpdates,
    MaxGeneration                   \* numeric_limits<FilterGeneration>::max()

RuleSet == [count : Nat, raw : Nat, normalized : Nat]

ASSUME CommandsAssumption == NoCommand \notin Commands
ASSUME RulesAssumption == Rules \in [Commands -> RuleSet]
ASSUME LimitsAssumption ==
    /\ maximum_rule_count \in Nat \ {0}
    /\ maximum_normalized_rule_bytes \in Nat \ {0}
    /\ maximum_queued_rule_bytes \in Nat \ {0}
    /\ kMaximumPendingUpdates \in Nat \ {0}
    /\ MaxGeneration \in Nat \ {0}

VARIABLES
    version, view, converged,       \* FilterVersions
    blocklist,                      \* whose rules each later generation holds
    credit_held, retired_pending,   \* the credit, and whether B owns it
    publication_sealed, reclaimer_active,
    pending, queued_rule_bytes, sealed,
    inflight, runner, command_result,   \* A: its command, where it is in run
    build_stop_requested, terminal_detach_requested,
    sealing, cancelled,             \* seal() as A and as the owner execute it
    owner,                          \* the thread in DNS::finish_teardown
    called, answers                 \* callers, and what their promise was given

versionVars == <<version, view, converged>>
creditVars  == <<credit_held, retired_pending>>
queueVars   == <<pending, queued_rule_bytes, sealed>>
runVars     == <<inflight, runner, command_result>>
sealVars    == <<publication_sealed, build_stop_requested, sealing, cancelled>>
ownerVars   == <<owner, terminal_detach_requested>>
callVars    == <<called, answers>>
pubVars     == <<versionVars, blocklist, creditVars, reclaimer_active>>
vars == <<pubVars, queueVars, runVars, sealVars, ownerVars, callVars>>

Versions == INSTANCE FilterVersions

Sealers == {"A", "owner"}
Idle    == [command |-> NoCommand, phase |-> "Completed", target |-> 0, published |-> 0]

\* FilterUpdateResult: the published version, or an error code
Ok(g)       == [code |-> "Ok", generation |-> g]
Error(code) == [code |-> code, generation |-> 0]
Result == [code : {"Ok", "ShuttingDown", "BuildFailed", "GenerationExhausted", "QueueFull",
                   "RuleCountLimitExceeded", "RuleBytesLimitExceeded",
                   "QueueBytesLimitExceeded", "InternalError"},
           generation : 0 .. MaxGeneration]

Init ==
    /\ Versions!Init
    /\ blocklist = [g \in 2 .. MaxGeneration |-> NoCommand]
    /\ credit_held = FALSE /\ retired_pending = FALSE
    /\ publication_sealed = FALSE /\ reclaimer_active = TRUE
    /\ pending = <<>> /\ queued_rule_bytes = 0 /\ sealed = FALSE
    /\ inflight = Idle /\ runner = "idle" /\ command_result = Error("InternalError")
    /\ build_stop_requested = FALSE /\ terminal_detach_requested = FALSE
    /\ sealing = [s \in Sealers |-> "no"] /\ cancelled = [s \in Sealers |-> <<>>]
    /\ owner = "up"
    /\ called = {} /\ answers = [c \in Commands |-> <<>>]

\* complete: set_value on the command's promise
Answered(c, result) == [answers EXCEPT ![c] = Append(@, result)]

-----------------------------------------------------------------------------
(* submit_replace, by any caller *)

\* the error of validate_filter_rule_set, if any
RuleErrors(r) ==
    IF r.count > maximum_rule_count THEN {"RuleCountLimitExceeded"}
    ELSE IF r.raw > maximum_normalized_rule_bytes
            \/ r.normalized > maximum_normalized_rule_bytes
         THEN {"RuleBytesLimitExceeded"} ELSE {}

LeastOf(a, b) == IF a < b THEN a ELSE b

QueueErrors(r) ==
    IF sealed THEN {"ShuttingDown"}
    ELSE IF Len(pending) >= kMaximumPendingUpdates THEN {"QueueFull"}
    ELSE IF r.raw > maximum_queued_rule_bytes
                    - LeastOf(queued_rule_bytes, maximum_queued_rule_bytes)
         THEN {"QueueBytesLimitExceeded"} ELSE {}

\* An allocation can fail wherever no other error is found first.
SubmitRefused(c) ==
    /\ c \notin called
    /\ \E code \in {"InternalError"} \cup
                    (IF RuleErrors(Rules[c]) # {} THEN RuleErrors(Rules[c])
                                                  ELSE QueueErrors(Rules[c])) :
           answers' = Answered(c, Error(code))
    /\ called' = called \cup {c}
    /\ UNCHANGED <<pubVars, queueVars, runVars, sealVars, ownerVars>>

SubmitAccepted(c) ==
    /\ c \notin called
    /\ RuleErrors(Rules[c]) = {} /\ QueueErrors(Rules[c]) = {}
    /\ pending' = Append(pending, c)
    /\ queued_rule_bytes' = queued_rule_bytes + Rules[c].raw
    /\ called' = called \cup {c}
    /\ UNCHANGED <<pubVars, sealed, runVars, sealVars, ownerVars, answers>>

-----------------------------------------------------------------------------
(* Thread A: run, apply, finish_run *)

\* mutant: the bytes of a taken command stay accounted
TakeWithoutAccounting ==
    /\ runner = "idle" /\ pending # <<>>
    /\ inflight' = [Idle EXCEPT !.command = Head(pending), !.phase = "Building"]
    /\ pending' = Tail(pending)
    /\ UNCHANGED queued_rule_bytes
    /\ runner' = "apply"
    /\ UNCHANGED <<pubVars, sealed, command_result, sealVars, ownerVars, callVars>>

TakeCommand ==
    /\ runner = "idle" /\ pending # <<>>
    /\ inflight' = [Idle EXCEPT !.command = Head(pending), !.phase = "Building"]
    /\ pending' = Tail(pending)
    /\ queued_rule_bytes' =
           queued_rule_bytes - LeastOf(queued_rule_bytes, Rules[Head(pending)].raw)
    /\ runner' = "apply"
    /\ UNCHANGED <<pubVars, sealed, command_result, sealVars, ownerVars, callVars>>

\* A sealed runner stays for the coordinator's final detach_terminal_snapshot.
TerminalDetach ==
    /\ runner = "idle" /\ pending = <<>> /\ terminal_detach_requested
    /\ runner' = "finish"
    /\ UNCHANGED <<pubVars, queueVars, inflight, command_result, sealVars, ownerVars, callVars>>

\* mutant: one of the exits of apply forgets release_credit
FailureKeepsCredit(from, code) ==
    /\ runner = from
    /\ command_result' = Error(code)
    /\ credit_held' = (credit_held /\ (from # "publish" \/ retired_pending))
    /\ inflight' = IF inflight.phase = "Committed" THEN inflight
                   ELSE [inflight EXCEPT !.phase = "Building", !.target = 0]
    /\ runner' = "applied"
    /\ UNCHANGED <<versionVars, blocklist, retired_pending, reclaimer_active, queueVars,
                   sealVars, ownerVars, callVars>>

\* apply returns an error. It has a credit to give back from acquire_retirement_credit
\* to the commit, and release_uncommitted_credit leaves one that B owns alone.
ApplyFails(from, code) ==
    /\ runner = from
    /\ command_result' = Error(code)
    /\ credit_held' = (credit_held /\ (from \notin {"build", "publish"} \/ retired_pending))
    /\ inflight' = IF inflight.phase = "Committed" THEN inflight
                   ELSE [inflight EXCEPT !.phase = "Building", !.target = 0]
    /\ runner' = "applied"
    /\ UNCHANGED <<versionVars, blocklist, retired_pending, reclaimer_active, queueVars,
                   sealVars, ownerVars, callVars>>

\* apply reads the stop request and the current version before it waits
ReadCurrent ==
    /\ runner = "apply" /\ ~build_stop_requested /\ version < MaxGeneration
    /\ runner' = "acquire"
    /\ UNCHANGED <<pubVars, queueVars, inflight, command_result, sealVars, ownerVars, callVars>>

StopRequested == build_stop_requested /\ ApplyFails("apply", "ShuttingDown")

GenerationExhausted ==
    /\ ~build_stop_requested /\ version = MaxGeneration
    /\ ApplyFails("apply", "GenerationExhausted")

AcquireRefused ==
    /\ publication_sealed \/ build_stop_requested
    /\ ApplyFails("acquire", "ShuttingDown")

AcquireCredit ==
    /\ runner = "acquire"
    /\ ~credit_held /\ ~publication_sealed /\ ~build_stop_requested
    /\ credit_held' = TRUE
    /\ runner' = "build"
    /\ UNCHANGED <<versionVars, blocklist, retired_pending, reclaimer_active, queueVars,
                   inflight, command_result, sealVars, ownerVars, callVars>>

\* The builder is cancelled, reports a bad rule, or runs out of memory.
BuildFails ==
    \/ build_stop_requested /\ ApplyFails("build", "ShuttingDown")
    \/ /\ ~build_stop_requested
       /\ \E code \in {"InternalError", "BuildFailed"} : ApplyFails("build", code)

BuildSucceeds ==
    /\ runner = "build" /\ ~build_stop_requested
    /\ inflight' = [inflight EXCEPT !.target = version + 1, !.phase = "Publishing"]
    /\ runner' = "publish"
    /\ UNCHANGED <<pubVars, queueVars, command_result, sealVars, ownerVars, callVars>>

CommitRefused == publication_sealed /\ ApplyFails("publish", "ShuttingDown")

\* FilterPublicationState::commit, up to the end of its critical section
Commit ==
    /\ runner = "publish"
    /\ credit_held /\ ~retired_pending /\ ~publication_sealed
    /\ Versions!Publish
    /\ blocklist' = [blocklist EXCEPT ![version + 1] = inflight.command]
    /\ retired_pending' = TRUE
    /\ runner' = "published"
    /\ UNCHANGED <<credit_held, reclaimer_active, queueVars, inflight, command_result,
                   sealVars, ownerVars, callVars>>

\* mutant: the journal is not updated after the commit
CommitUnrecorded ==
    /\ runner = "published"
    /\ inflight' = [inflight EXCEPT !.published = inflight.target]
    /\ runner' = "wait"
    /\ UNCHANGED <<pubVars, queueVars, command_result, sealVars, ownerVars, callVars>>

RecordCommitted ==
    /\ runner = "published"
    /\ inflight' = [inflight EXCEPT !.phase = "Committed", !.published = inflight.target]
    /\ runner' = "wait"
    /\ UNCHANGED <<pubVars, queueVars, command_result, sealVars, ownerVars, callVars>>

Converged ==
    /\ runner = "wait" /\ converged >= inflight.published
    /\ command_result' = Ok(inflight.published)
    /\ runner' = "applied"
    /\ UNCHANGED <<pubVars, queueVars, inflight, sealVars, ownerVars, callVars>>

ReclaimerUnavailable ==
    /\ ~reclaimer_active /\ converged < inflight.published
    /\ ApplyFails("wait", "InternalError")

\* an exception after the commit: only the lifecycle tests inject it, so it is no step A owes
PostcommitFailure == ApplyFails("wait", "InternalError")

\* Publication is irreversible: A never reports an error for a committed
\* command, it leaves the command for the teardown successor.
LeaveToSuccessor ==
    /\ runner = "applied"
    /\ command_result.code # "Ok" /\ inflight.phase = "Committed"
    /\ runner' = "finish"
    /\ UNCHANGED <<pubVars, queueVars, inflight, command_result, sealVars, ownerVars, callVars>>

CompleteCommand ==
    /\ runner = "applied"
    /\ command_result.code = "Ok" \/ inflight.phase # "Committed"
    /\ answers' = Answered(inflight.command, command_result)
    /\ inflight' = Idle
    /\ runner' = "idle"
    /\ UNCHANGED <<pubVars, queueVars, command_result, sealVars, ownerVars, called>>

\* reconcile_inflight_after_writer_exit
Reconciled(cmd) ==
    IF cmd.phase # "Publishing" THEN cmd
    ELSE IF version = cmd.target THEN [cmd EXCEPT !.phase = "Committed", !.published = cmd.target]
    ELSE [cmd EXCEPT !.phase = "Building", !.target = 0]

\* finish_run after its seal() and cancel_pending
FinishRun ==
    /\ runner = "finish" /\ sealing["A"] = "done"
    /\ LET cmd == Reconciled(inflight)
           lost == cmd.command # NoCommand /\ cmd.phase # "Committed"
       IN  /\ inflight' = IF lost THEN Idle ELSE cmd
           /\ answers' = IF lost THEN Answered(cmd.command, Error("InternalError")) ELSE answers
    /\ runner' = "stopped"
    /\ UNCHANGED <<pubVars, queueVars, command_result, sealVars, ownerVars, called>>

-----------------------------------------------------------------------------
(* seal, as executed by A in finish_run and by the owner *)

SealStep(s, from, to) == sealing[s] = from /\ sealing' = [sealing EXCEPT ![s] = to]

SealBegin(s) ==
    /\ SealStep(s, "no", "publication")
    /\ (s = "A" /\ runner = "finish") \/ (s = "owner" /\ owner = "seal")
    /\ build_stop_requested' = TRUE
    /\ UNCHANGED <<pubVars, queueVars, runVars, publication_sealed, cancelled, ownerVars,
                   callVars>>

SealPublication(s) ==
    /\ SealStep(s, "publication", "queue")
    /\ publication_sealed' = TRUE
    /\ UNCHANGED <<pubVars, queueVars, runVars, build_stop_requested, cancelled, ownerVars,
                   callVars>>

\* mutant: the queue is cleared, its callers forgotten
SealDropsQueue(s) ==
    /\ SealStep(s, "queue", "answer")
    /\ \/ sealed /\ UNCHANGED <<queueVars, cancelled>>
       \/ /\ ~sealed /\ sealed' = TRUE
          /\ UNCHANGED cancelled
          /\ pending' = <<>> /\ queued_rule_bytes' = 0
    /\ UNCHANGED <<pubVars, runVars, publication_sealed, build_stop_requested, ownerVars,
                   callVars>>

SealQueue(s) ==
    /\ SealStep(s, "queue", "answer")
    /\ \/ sealed /\ UNCHANGED <<queueVars, cancelled>>
       \/ /\ ~sealed /\ sealed' = TRUE
          /\ cancelled' = [cancelled EXCEPT ![s] = pending]
          /\ pending' = <<>> /\ queued_rule_bytes' = 0
    /\ UNCHANGED <<pubVars, runVars, publication_sealed, build_stop_requested, ownerVars,
                   callVars>>

\* the callers whose command was swapped out are answered one by one
AnswerCancelled(s) ==
    /\ sealing[s] \in {"answer", "drain"} /\ cancelled[s] # <<>>
    /\ answers' = Answered(Head(cancelled[s]), Error("ShuttingDown"))
    /\ cancelled' = [cancelled EXCEPT ![s] = Tail(@)]
    /\ UNCHANGED <<pubVars, queueVars, runVars, publication_sealed, build_stop_requested,
                   sealing, ownerVars, called>>

\* A goes on with cancel_pending
CancelPending ==
    /\ SealStep("A", "answer", "drain") /\ cancelled["A"] = <<>>
    /\ cancelled' = [cancelled EXCEPT !["A"] = pending]
    /\ pending' = <<>> /\ queued_rule_bytes' = 0
    /\ UNCHANGED <<pubVars, sealed, runVars, publication_sealed, build_stop_requested,
                   ownerVars, callVars>>

Sealed(s) ==
    /\ SealStep(s, IF s = "A" THEN "drain" ELSE "answer", "done") /\ cancelled[s] = <<>>
    /\ UNCHANGED <<pubVars, queueVars, runVars, publication_sealed, build_stop_requested,
                   cancelled, ownerVars, callVars>>

-----------------------------------------------------------------------------
(* Workers and thread B, at the level of FilterVersions *)

\* a worker starts on, or refreshes to, the newest snapshot
WorkerObserves(w) ==
    /\ view[w] = 0 => ~publication_sealed
    /\ view[w] # version /\ Versions!Observe(w)
    /\ UNCHANGED <<blocklist, creditVars, reclaimer_active, queueVars, runVars, sealVars,
                   ownerVars, callVars>>

\* a worker fails, or stops because the service stops
WorkerLeaves(w) ==
    /\ view[w] # 0 /\ Versions!Leave(w)
    /\ UNCHANGED <<blocklist, creditVars, reclaimer_active, queueVars, runVars, sealVars,
                   ownerVars, callVars>>

ReclaimerConverges ==
    /\ reclaimer_active /\ retired_pending /\ converged < version
    /\ Versions!Converge
    /\ UNCHANGED <<blocklist, creditVars, reclaimer_active, queueVars, runVars, sealVars,
                   ownerVars, callVars>>

ReclaimerReturnsCredit ==
    /\ reclaimer_active /\ retired_pending /\ converged = version
    /\ retired_pending' = FALSE /\ credit_held' = FALSE
    /\ UNCHANGED <<versionVars, blocklist, reclaimer_active, queueVars, runVars, sealVars,
                   ownerVars, callVars>>

\* grace period expired, or an unexpected failure
ReclaimerFails ==
    /\ reclaimer_active
    /\ reclaimer_active' = FALSE
    /\ UNCHANGED <<versionVars, blocklist, creditVars, queueVars, runVars, sealVars,
                   ownerVars, callVars>>

-----------------------------------------------------------------------------
(* The teardown owner: DNS::finish_teardown, the part that concerns A *)

\* request_stop, or fail_service after a fatal exit
StopService ==
    /\ owner = "up" /\ owner' = "seal"
    /\ UNCHANGED <<pubVars, queueVars, runVars, sealVars, terminal_detach_requested, callVars>>

\* C is joined first, and with it every worker
JoinWorkers ==
    /\ owner = "seal" /\ sealing["owner"] = "done"
    /\ \A w \in Workers : view[w] = 0
    /\ owner' = "joined"
    /\ UNCHANGED <<pubVars, queueVars, runVars, sealVars, terminal_detach_requested, callVars>>

\* mutant: a failed B is noticed only before the detach
ReclaimBeforeDetachOnly ==
    /\ owner = "joined"
    /\ ~reclaimer_active /\ retired_pending
    /\ Versions!Converge
    /\ retired_pending' = FALSE /\ credit_held' = FALSE
    /\ UNCHANGED <<blocklist, reclaimer_active, queueVars, runVars, sealVars, ownerVars,
                   callVars>>

\* join_failed_reclaimer: B is gone, so its record is reclaimed here
EmergencyReclaim ==
    /\ owner \in {"joined", "detach", "successor"}
    /\ ~reclaimer_active /\ retired_pending
    /\ Versions!Converge
    /\ retired_pending' = FALSE /\ credit_held' = FALSE
    /\ UNCHANGED <<blocklist, reclaimer_active, queueVars, runVars, sealVars, ownerVars,
                   callVars>>

\* Its seal() repeats the one JoinWorkers waited for.
RequestTerminalDetach ==
    /\ owner = "joined" /\ owner' = "detach"
    /\ terminal_detach_requested' = TRUE
    /\ UNCHANGED <<pubVars, queueVars, runVars, sealVars, callVars>>

JoinCoordinator ==
    /\ owner = "detach" /\ runner = "stopped"
    /\ owner' = "successor"
    /\ UNCHANGED <<pubVars, queueVars, runVars, sealVars, terminal_detach_requested, callVars>>

\* complete_committed_by_successor
CompleteBySuccessor ==
    /\ owner = "successor"
    /\ LET cmd == Reconciled(inflight)
       IN  \/ /\ cmd.command = NoCommand
              /\ UNCHANGED answers
           \/ /\ cmd.command # NoCommand /\ cmd.phase = "Committed"
              /\ converged >= cmd.published
              /\ answers' = Answered(cmd.command, Ok(cmd.published))
    /\ inflight' = Idle /\ owner' = "done"
    /\ UNCHANGED <<pubVars, queueVars, runner, command_result, sealVars,
                   terminal_detach_requested, called>>

TornDown == owner = "done" /\ called = Commands /\ UNCHANGED vars

RunnerStep ==
    \/ TakeCommand \/ TerminalDetach
    \/ StopRequested \/ GenerationExhausted \/ ReadCurrent \/ AcquireRefused \/ AcquireCredit
    \/ BuildFails \/ BuildSucceeds
    \/ CommitRefused \/ Commit \/ RecordCommitted
    \/ Converged \/ ReclaimerUnavailable
    \/ LeaveToSuccessor \/ CompleteCommand \/ FinishRun

SealerStep(s) ==
    SealBegin(s) \/ SealPublication(s) \/ SealQueue(s) \/ AnswerCancelled(s) \/ Sealed(s)

OwnerStep ==
    \/ JoinWorkers \/ EmergencyReclaim \/ RequestTerminalDetach \/ JoinCoordinator
    \/ CompleteBySuccessor

Next ==
    \/ \E c \in Commands : SubmitRefused(c) \/ SubmitAccepted(c)
    \/ RunnerStep \/ PostcommitFailure \/ CancelPending \/ OwnerStep \/ StopService
    \/ \E s \in Sealers : SealerStep(s)
    \/ \E w \in Workers : WorkerObserves(w) \/ WorkerLeaves(w)
    \/ ReclaimerConverges \/ ReclaimerReturnsCredit \/ ReclaimerFails
    \/ TornDown

Spec == Init /\ [][Next]_vars

\* Every thread that can run does; a worker refreshes when it is notified and
\* leaves when the service stops; DNS stops the service when A or B is gone.
Fairness ==
    /\ WF_vars(RunnerStep) /\ WF_vars(CancelPending)
    /\ \A s \in Sealers : WF_vars(SealerStep(s))
    /\ WF_vars(OwnerStep)
    /\ WF_vars(StopService /\ (runner = "stopped" \/ ~reclaimer_active))
    /\ WF_vars(ReclaimerConverges) /\ WF_vars(ReclaimerReturnsCredit)
    /\ \A w \in Workers :
           /\ WF_vars(WorkerObserves(w) /\ view[w] # 0)
           /\ WF_vars(WorkerLeaves(w) /\ sealing["owner"] = "done")

FairSpec == Spec /\ Fairness

-----------------------------------------------------------------------------
(* Properties *)

\* Every variable holds a value its C++ type allows; no generation passes the last one.
TypeOK ==
    /\ version \in 1 .. MaxGeneration /\ converged \in 1 .. MaxGeneration
    /\ view \in [Workers -> 0 .. MaxGeneration]
    /\ blocklist \in [2 .. MaxGeneration -> Commands \cup {NoCommand}]
    /\ credit_held \in BOOLEAN /\ retired_pending \in BOOLEAN
    /\ publication_sealed \in BOOLEAN /\ reclaimer_active \in BOOLEAN
    /\ pending \in Seq(Commands) /\ queued_rule_bytes \in Nat /\ sealed \in BOOLEAN
    /\ inflight \in [command : Commands \cup {NoCommand},
                     phase : {"Building", "Publishing", "Committed", "Completed"},
                     target : 0 .. MaxGeneration, published : 0 .. MaxGeneration]
    /\ runner \in {"idle", "apply", "acquire", "build", "publish", "published", "wait", "applied",
                   "finish", "stopped"}
    /\ command_result \in Result
    /\ build_stop_requested \in BOOLEAN /\ terminal_detach_requested \in BOOLEAN
    /\ sealing \in [Sealers -> {"no", "publication", "queue", "answer", "drain", "done"}]
    /\ cancelled \in [Sealers -> Seq(Commands)]
    /\ owner \in {"up", "seal", "joined", "detach", "successor", "done"}
    /\ called \subseteq Commands
    /\ answers \in [Commands -> Seq(Result)]

\* A caller is told the truth, once, whatever was stopping at the time.  No promise
\* is completed twice, by a seal and by A, or by A and the successor.  Success with
\* generation g means the caller's own rules are generation g and no worker filters
\* with older ones (apply's wait_until_converged, also when the successor answers).
\* An error means that the rules were not published and never will be.
AnswersAreTrue ==
    \A c \in Commands :
        /\ Len(answers[c]) <= 1
        /\ \A i \in DOMAIN answers[c] :
               LET a == answers[c][i]
               IN  IF a.code = "Ok"
                   THEN /\ a.generation \in DOMAIN blocklist /\ blocklist[a.generation] = c
                        /\ \A w \in Workers : view[w] = 0 \/ view[w] >= a.generation
                   ELSE \A g \in 2 .. MaxGeneration : blocklist[g] # c

\* the size of the rules of the commands in s
RawBytes(s) ==
    LET sum[n \in 0 .. Len(s)] == IF n = 0 THEN 0 ELSE sum[n - 1] + Rules[s[n]].raw
    IN  sum[Len(s)]

\* queued_rule_bytes_ is exactly the size of the queued rules, through submits,
\* takes and cancellations, and both queue limits hold.
QueueAccounting ==
    /\ queued_rule_bytes = RawBytes(pending)
    /\ queued_rule_bytes <= maximum_queued_rule_bytes
    /\ Len(pending) <= kMaximumPendingUpdates

\* The one retirement credit has exactly one holder: A from acquire_retirement_credit
\* until the commit, then B, or whoever reclaims for B, with the retired snapshot.  No
\* way out of apply keeps the credit, which would block every later update, or gives
\* back the one that B's record needs, which would let a second commit overwrite it.
CreditHasOneHolder ==
    LET with_A == runner \in {"build", "publish"}
    IN  /\ credit_held <=> (with_A \/ retired_pending)
        /\ ~(with_A /\ retired_pending)

\* Every call of submit_replace is answered, also when A exits after a commit,
\* when B fails, and when the service stops at any point in between.  A command is
\* submitted once, so the calls run out, and in the end none is left unanswered.
EveryUpdateAnswered == <>[](\A c \in called : answers[c] # <<>>)

\* A teardown gets through: A never waits for something that a stopped
\* service can no longer provide.
TeardownFinishes == owner = "seal" ~> owner = "done"

=============================================================================

-------------------------- MODULE CoroutineRuntime --------------------------
(***************************************************************************)
(* The coroutine runtime of a worker thread (runtime/Scheduler, Task and   *)
(* TimerQueue), driven the way WorkerLoop drives it: one iteration of the  *)
(* event loop expires timers, then resumes ready coroutines; the end of    *)
(* the loop is WorkerLoop::shutdown_runtime.                               *)
(*                                                                         *)
(* A frame is an address.  A destroyed frame is "absent" and may be used   *)
(* again, as an allocator would.  What a coroutine does between two        *)
(* suspensions is any sequence of the operations the runtime offers; all   *)
(* of it happens on the worker's thread, and only RequestStop comes from   *)
(* another one.  A running frame is the scheduler's dispatching_ state.    *)
(* Why an operation completed (expired, cancelled, answered) and whether a *)
(* coroutine returned or threw changes what its caller does next, which is *)
(* anything here, so neither is kept.                                      *)
(***************************************************************************)
EXTENDS Integers, Sequences, Functions

CONSTANTS
    Frames,                \* coroutine frames (promise, locals, awaiters)
    None,
    MaxTime,               \* bound: the clock
    kTimerBudget, kReadyBudget, kShutdownResumeBudget

ASSUME BudgetsAssumption ==
    /\ kTimerBudget \in Nat \ {0} /\ kReadyBudget \in Nat \ {0}
    /\ kShutdownResumeBudget \in Nat /\ MaxTime \in Nat /\ None \notin Frames

VARIABLES
    frame,     \* what a frame holds: its suspension, its awaiter, its continuation_
    sched,     \* the Scheduler
    timers,    \* the TimerQueue
    loop,      \* where the worker's thread is, and the budget it has left
    stopping,  \* the external stop source
    now

vars == <<frame, sched, timers, loop, stopping, now>>

TQ == INSTANCE TimerQueue WITH Registrations <- Frames

Absent == [at |-> "absent", child |-> None, continuation |-> None, op |-> "none"]

\* initial_suspend: a coroutine is created suspended
Created(parent) == [Absent EXCEPT !.at = "suspended", !.continuation = parent]

NewScheduler == [ready |-> << >>, roots |-> {}, running |-> FALSE, accepting |-> FALSE,
                 stop_requested |-> FALSE, external_stop_pending |-> FALSE,
                 cancel_pending |-> FALSE, shutdown_pending |-> FALSE, failed |-> FALSE]

Init ==
    /\ frame = [f \in Frames |-> Absent]
    /\ sched = NewScheduler
    /\ timers = TQ!NewQueue
    /\ loop = [at |-> "off", budget |-> 0]
    /\ stopping = FALSE /\ now = 0

Running == {f \in Frames : frame[f].at = "running"}

-----------------------------------------------------------------------------
(* Scheduler *)

observe_external_stop(s) ==
    IF s.external_stop_pending THEN [s EXCEPT !.stop_requested = TRUE, !.accepting = FALSE] ELSE s

\* The callers of schedule take every result but Scheduled as a failure of the runtime.
schedule(s, fr, f) ==
    IF s.running /\ fr[f].at \notin {"absent", "done"} /\ f \notin Range(s.ready)
    THEN [s EXCEPT !.ready = Append(@, f)]
    ELSE [s EXCEPT !.failed = TRUE]

\* destroying a frame destroys the Task::Awaiter in it, which destroys its child:
\* the least set that holds the roots and every child of a member
Subtree(fr, roots) ==
    {f \in Frames :
        \A S \in SUBSET Frames :
            roots \subseteq S \cup {None} /\ (\A g \in S : fr[g].child \in S \cup {None}) => f \in S}

Destroy(fr, S) == [f \in Frames |-> IF f \in S THEN Absent ELSE fr[f]]

\* ... and the TimerRegistrations in them
AbandonAll(q, S) ==
    LET armed(p) == {f \in S : p.heap_index[f] # TQ!not_in_heap}
    IN  TQ!Repeat([p \in TQ!Queue |-> IF armed(p) = {} THEN p
                                       ELSE TQ!abandon(p, CHOOSE f \in armed(p) : TRUE)],
                  q, TQ!size(q))

\* The part of the state the runtime's operations read and write together.
State(fr, s, q) == [frame |-> fr, sched |-> s, timers |-> q]

\* mutant: the ready list keeps pointing at the frames that are destroyed
CancelKeepsReady(S) ==
    LET gone == Subtree(S.frame, S.sched.roots)
    IN  State(Destroy(S.frame, gone), [S.sched EXCEPT !.roots = {}],
              AbandonAll(S.timers, gone))

cancel_all_now(S) ==
    LET gone == Subtree(S.frame, S.sched.roots)
    IN  State(Destroy(S.frame, gone), [S.sched EXCEPT !.ready = << >>, !.roots = {}],
              AbandonAll(S.timers, gone))

deactivate(S) ==
    [S EXCEPT !.sched = [@ EXCEPT !.running = FALSE, !.accepting = FALSE,
                                  !.cancel_pending = FALSE, !.shutdown_pending = FALSE,
                                  !.external_stop_pending = FALSE]]

finish_root(S, f) ==
    State(Destroy(S.frame, {f}), [S.sched EXCEPT !.roots = @ \ {f}], S.timers)

\* what run_ready does once a resumed frame suspends or returns
AfterResume(S, f) ==
    LET finished == IF f \in S.sched.roots /\ S.frame[f].at = "done" THEN finish_root(S, f) ELSE S
        cleared  == [finished EXCEPT !.sched = [@ EXCEPT !.cancel_pending = FALSE,
                                                         !.shutdown_pending = FALSE]]
    IN  CASE ~finished.sched.cancel_pending -> finished
          [] finished.sched.cancel_pending /\ finished.sched.shutdown_pending ->
                 deactivate(cancel_all_now(cleared))
          [] OTHER -> cancel_all_now(cleared)

Set(S) == frame' = S.frame /\ sched' = S.sched /\ timers' = S.timers

\* a cancelled dispatch ends run_ready
Suspend(f, fr, s, q) ==
    /\ Set(AfterResume(State(fr, s, q), f))
    /\ loop' = IF s.cancel_pending THEN [loop EXCEPT !.budget = 0] ELSE loop
    /\ UNCHANGED <<stopping, now>>

-----------------------------------------------------------------------------
(* What a running coroutine can do *)

\* spawn, from the loop (drain_listener) or from a coroutine: a refused task is destroyed
Spawn(f) ==
    /\ loop.at = "loop" \/ Running # {}
    /\ frame[f].at = "absent" /\ sched.running
    /\ LET s  == observe_external_stop(sched)
           fr == [frame EXCEPT ![f] = Created(None)]
       IN  IF s.accepting /\ ~s.stop_requested
           THEN /\ frame' = fr
                /\ sched' = schedule([s EXCEPT !.roots = @ \cup {f}], fr, f)
           ELSE sched' = s /\ UNCHANGED frame
    /\ UNCHANGED <<timers, loop, stopping, now>>

Yield(f) ==
    LET fr == [frame EXCEPT ![f].at = "suspended"]
    IN  Suspend(f, fr, schedule(sched, fr, f), timers)

\* co_await of a Task
AwaitChild(f, c) ==
    /\ frame[c].at = "absent"
    /\ LET fr == [frame EXCEPT ![c] = Created(f),
                               ![f] = [@ EXCEPT !.at = "suspended", !.child = c]]
       IN  Suspend(f, fr, schedule(observe_external_stop(sched), fr, c), timers)

\* SleepAwaiter::await_suspend, and the deadline of a query. It does not
\* suspend once stop was requested or the queue is closed.
Sleep(f, deadline) ==
    LET s == observe_external_stop(sched)
    IN  \/ /\ s.stop_requested \/ ~TQ!CanArm(timers, f)
           /\ sched' = s /\ UNCHANGED <<frame, timers, loop, stopping, now>>
        \/ /\ ~s.stop_requested /\ TQ!CanArm(timers, f)
           /\ Suspend(f, [frame EXCEPT ![f] = [@ EXCEPT !.at = "suspended", !.op = "Pending"]],
                      s, TQ!arm(timers, f, deadline))

\* co_return or an exception: final_suspend schedules the continuation
Finish(f) ==
    LET fr == [frame EXCEPT ![f].at = "done"]
        c  == frame[f].continuation
    IN  Suspend(f, fr, IF c = None THEN sched ELSE schedule(sched, fr, c), timers)

\* cancel_all and shutdown called from a coroutine wait for it to suspend
CancelFromCoroutine(f) ==
    /\ \E shutdown \in BOOLEAN :
           sched' = [sched EXCEPT !.stop_requested = TRUE, !.accepting = FALSE,
                                  !.cancel_pending = TRUE, !.shutdown_pending = @ \/ shutdown]
    /\ UNCHANGED <<frame, timers, loop, stopping, now>>

Leave(f) == Yield(f) \/ Finish(f) \/ \E c \in Frames : AwaitChild(f, c)

RunCoroutine(f) ==
    /\ frame[f].at = "running"
    /\ \/ Leave(f) \/ CancelFromCoroutine(f)
       \/ \E deadline \in now .. MaxTime : Sleep(f, deadline)

-----------------------------------------------------------------------------
(* The worker's thread *)

At(place) == loop.at = place /\ Running = {}

Goto(place, budget) == loop' = [at |-> place, budget |-> budget]

Start ==
    /\ At("off") /\ ~sched.running /\ ~timers.running
    /\ \E requested \in BOOLEAN :
           /\ stopping' = requested
           /\ sched' = observe_external_stop(
                           [NewScheduler EXCEPT !.running = TRUE, !.accepting = ~requested,
                                                !.external_stop_pending = requested])
    /\ timers' = TQ!StartQueue(timers)
    /\ Goto("loop", 0)
    /\ UNCHANGED <<frame, now>>

\* epoll_wait returns: a coroutine is ready or the earliest timer is due. What an
\* event brings (Spawn, Answer) comes first; an iteration without work does nothing.
Iterate ==
    /\ At("loop") /\ (sched.ready # << >> \/ TQ!HasDue(timers, now))
    /\ Goto("expire", kTimerBudget)
    /\ UNCHANGED <<frame, sched, timers, stopping, now>>

\* mutant: the registration is still in the heap when its callback runs
CompleteFrontAttached ==
    LET f  == TQ!At(timers, 0)
        fr == [frame EXCEPT ![f].op = "Completed"]
    IN  frame' = fr /\ sched' = schedule(sched, fr, f) /\ UNCHANGED timers

\* complete_front and its callback, SleepAwaiter::complete or QueryAwaiter::deadline_complete
complete_front ==
    LET f  == TQ!At(timers, 0)
        fr == [frame EXCEPT ![f].op = "Completed"]
    IN  /\ frame' = fr
        /\ sched' = schedule(sched, fr, f)
        /\ timers' = TQ!remove_at(timers, 0)

Expire ==
    /\ At("expire") /\ loop.budget > 0 /\ TQ!HasDue(timers, now)
    /\ complete_front
    /\ Goto("expire", loop.budget - 1)
    /\ UNCHANGED <<stopping, now>>

EndExpire ==
    /\ At("expire") /\ (loop.budget = 0 \/ ~TQ!HasDue(timers, now))
    /\ sched' = IF sched.running THEN observe_external_stop(sched) ELSE sched
    /\ Goto("ready", kReadyBudget)
    /\ UNCHANGED <<frame, timers, stopping, now>>

\* An operation ends before its deadline: UpstreamChannel::finish disarms the timer.
Answer(f) ==
    /\ At("loop") \/ At("cancel")
    /\ frame[f].op = "Pending"
    /\ LET fr == [frame EXCEPT ![f].op = "Completed"]
       IN  frame' = fr /\ sched' = schedule(sched, fr, f)
    /\ timers' = TQ!disarm(timers, f)
    /\ UNCHANGED <<loop, stopping, now>>

\* run_ready resumes the oldest ready frame. Its co_await ends there: the
\* awaiter is destroyed, and with it a child frame or a timer registration.
ResumeNext ==
    /\ At("ready") \/ At("drain")
    /\ loop.budget > 0 /\ sched.running /\ sched.ready # << >>
    /\ LET f == Head(sched.ready)
           gone == Subtree(frame, {frame[f].child})
       IN  /\ frame' = [Destroy(frame, gone) EXCEPT
                            ![f] = [@ EXCEPT !.at = "running", !.child = None, !.op = "none"]]
           /\ timers' = AbandonAll(timers, gone \cup {f})
    /\ sched' = [sched EXCEPT !.ready = Tail(@)]
    /\ Goto(loop.at, loop.budget - 1)
    /\ UNCHANGED <<stopping, now>>

NoMoreToResume == loop.budget = 0 \/ ~sched.running \/ sched.ready = << >>

EndReady ==
    /\ At("ready") /\ NoMoreToResume
    /\ Goto("loop", 0)
    /\ UNCHANGED <<frame, sched, timers, stopping, now>>

\* Scheduler::cancel_all, on the thread's own account
CancelAll ==
    /\ At("loop") /\ sched.running
    /\ Set(cancel_all_now(State(frame, [sched EXCEPT !.stop_requested = TRUE, !.accepting = FALSE],
                                timers)))
    /\ UNCHANGED <<loop, stopping, now>>

\* shutdown_runtime: the loop ends because of a stop or of an error
BeginShutdown ==
    /\ At("loop")
    /\ sched' = [sched EXCEPT !.accepting = FALSE]
    /\ timers' = TQ!CloseQueue(timers)
    /\ Goto("cancel", 0)
    /\ UNCHANGED <<frame, stopping, now>>

CancelTimer ==
    /\ At("cancel") /\ timers.heap # << >>
    /\ complete_front
    /\ UNCHANGED <<loop, stopping, now>>

BeginDrain ==
    /\ At("cancel") /\ timers.heap = << >>
    /\ sched' = [sched EXCEPT !.stop_requested = TRUE, !.accepting = FALSE]
    /\ Goto("drain", kShutdownResumeBudget)
    /\ UNCHANGED <<frame, timers, stopping, now>>

\* mutant: frames that did not finish within the budget are left behind
EndDrainPolite ==
    /\ At("drain") /\ NoMoreToResume
    /\ Set([deactivate(State(frame, sched, timers)) EXCEPT !.timers = TQ!StopQueue(@)])
    /\ Goto("off", 0)
    /\ UNCHANGED <<stopping, now>>

\* the rest of Scheduler::shutdown, then TimerQueue::stop
EndDrain ==
    /\ At("drain") /\ NoMoreToResume
    /\ LET S == State(frame, sched, timers)
           ended == IF sched.running THEN deactivate(cancel_all_now(S)) ELSE S
       IN  Set([ended EXCEPT !.timers = TQ!StopQueue(@)])
    /\ Goto("off", 0)
    /\ UNCHANGED <<stopping, now>>

\* another thread asks the worker to stop
RequestStop ==
    /\ loop.at # "off" /\ ~stopping
    /\ stopping' = TRUE
    /\ sched' = [sched EXCEPT !.external_stop_pending = sched.running]
    /\ UNCHANGED <<frame, timers, loop, now>>

Tick == now < MaxTime /\ now' = now + 1 /\ UNCHANGED <<frame, sched, timers, loop, stopping>>

Next ==
    \/ Start \/ Iterate \/ Expire \/ EndExpire \/ ResumeNext \/ EndReady
    \/ CancelAll \/ BeginShutdown \/ CancelTimer \/ BeginDrain \/ EndDrain
    \/ RequestStop \/ Tick
    \/ \E f \in Frames : Spawn(f) \/ RunCoroutine(f) \/ Answer(f)

Spec == Init /\ [][Next]_vars

\* the steps the worker's thread cannot put off: a coroutine that runs suspends or
\* returns, and epoll_wait returns when there is work
ThreadStep ==
    \/ Iterate \/ Expire \/ EndExpire \/ ResumeNext \/ EndReady
    \/ CancelTimer \/ BeginDrain \/ EndDrain
    \/ \E f \in Running : Leave(f)

\* The thread makes progress, and time passes.
Fairness == WF_vars(ThreadStep) /\ WF_vars(Tick)

FairSpec == Spec /\ Fairness

-----------------------------------------------------------------------------
(* Properties *)

\* Every frame that exists is owned once: by the list of roots, or by the
\* awaiter of one suspended parent, which is also the one it continues. Nothing
\* the runtime points at - ready list, roots, timer heap, awaiter, continuation -
\* is a destroyed frame, and no frame is ready twice.
FramesAreOwnedOnce ==
    /\ \A f \in Frames :
           LET owners == {p \in Frames : frame[p].child = f}
           IN  /\ frame[f].at = "absent" => owners = {} /\ f \notin sched.roots
               /\ frame[f].at # "absent" =>
                      \/ f \in sched.roots /\ owners = {} /\ frame[f].continuation = None
                      \/ f \notin sched.roots /\ owners = {frame[f].continuation}
    /\ \A f \in Range(sched.ready) \cup Range(timers.heap) : frame[f].at # "absent"
    /\ \A i, j \in DOMAIN sched.ready : sched.ready[i] = sched.ready[j] => i = j

\* A suspended coroutine has exactly one thing that will wake it: its place in
\* the ready list, an armed timer, or a child that has not finished. None is
\* forgotten, and none is resumed while its child or its timer is still pending;
\* and none of the runtime's internal checks (invariant_failures_) ever fails.
EveryFrameHasOneWaker ==
    /\ ~timers.failed /\ ~sched.failed
    /\ \A f \in Frames :
        LET wakers == {w \in {"ready", "timer", "child"} :
                          \/ w = "ready" /\ f \in Range(sched.ready)
                          \/ w = "timer" /\ f \in Range(timers.heap)
                          \/ w = "child" /\ frame[f].child # None
                                         /\ frame[frame[f].child].at # "done"}
        IN  /\ frame[f].at = "suspended" => \E w \in {"ready", "timer", "child"} : wakers = {w}
            /\ frame[f].at # "suspended" => wakers = {}
            /\ frame[f].op = "Pending" <=> f \in Range(timers.heap)

\* After shutdown_runtime nothing is left: no frame, no armed timer, no ready or
\* root entry; both parts are stopped and may be started again.
ShutdownLeavesNothing ==
    loop.at = "off" =>
        /\ \A f \in Frames : frame[f] = Absent
        /\ sched.ready = << >> /\ sched.roots = {} /\ ~sched.running
        /\ timers.heap = << >> /\ ~timers.running

\* Whoever is ready or waits for a timer runs or is destroyed, however many
\* others yield or sleep again; and a shutdown ends.
WakeupsArrive ==
    /\ \A f \in Frames :
           f \in Range(sched.ready) \/ f \in Range(timers.heap)
               ~> frame[f].at \in {"running", "absent"}
    /\ loop.at = "cancel" ~> loop.at = "off"

=============================================================================

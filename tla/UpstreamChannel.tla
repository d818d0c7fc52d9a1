--------------------------- MODULE UpstreamChannel ---------------------------
(***************************************************************************)
(* UpstreamChannel (src/upstream/UpstreamChannel.cpp): the queries one     *)
(* worker has outstanding on its connected UDP socket, the pool of DNS     *)
(* transaction IDs they use, and the quarantine an ID goes through before  *)
(* it is used again, so that a late answer finds no new query.             *)
(*                                                                         *)
(* The channel has one thread; what interleaves is the clock, timers,      *)
(* datagrams that arrive late, twice, out of order or never, socket errors *)
(* and cancellation.                                                       *)
(***************************************************************************)
EXTENDS Naturals, FiniteSets

CONSTANTS
    Queries, Nobody,                \* QueryAwaiters, each awaited once
    Question,                       \* what each asks
    transaction_id_capacity, kTransactionIdSpace,
    query_timeout, id_reuse_guard,
    MaxDelay,                       \* how late the network delivers a response
    MaxTime                         \* bound of the clock

ASSUME QueriesAssumption == Nobody \notin Queries /\ IsFiniteSet(Queries)
\* what start() demands of a ChannelConfig
ASSUME ConfigAssumption ==
    /\ kTransactionIdSpace \in Nat
    /\ transaction_id_capacity \in 1 .. kTransactionIdSpace
    /\ query_timeout \in Nat \ {0}
    /\ id_reuse_guard \in Nat /\ id_reuse_guard >= query_timeout
\* the network's part of the bargain
ASSUME DelayAssumption == MaxDelay \in Nat /\ MaxDelay < id_reuse_guard
ASSUME BoundAssumption == MaxTime \in Nat

VARIABLES
    slots, id_states, free_ids, retired_ids, pending_count,
    running, accepting, has_started,
    pool_failure,                   \* invariant_failures: a pool check failed
    state, transaction_id, outcome, \* of each QueryAwaiter
    response_to,                    \* whose transmission a response answers
    deadline, armed,                \* its timer
    scheduled,                      \* how often its task was scheduled
    wire,                           \* queries on the wire that may still be answered
    now

poolVars    == <<slots, id_states, free_ids, retired_ids, pending_count, pool_failure>>
channelVars == <<running, accepting, has_started>>
queryVars   == <<state, transaction_id, outcome, response_to, deadline, armed, scheduled>>
vars == <<poolVars, channelVars, queryVars, wire, now>>

Space == 0 .. kTransactionIdSpace - 1
Ids   == 0 .. transaction_id_capacity - 1
IdStates == {"Unavailable", "Free", "Pending", "Retired"}
\* QueryOutcome; "Error" is SendError, SocketError, Overloaded, InvalidQuery or
\* Cancelled, which callers do not tell apart
Outcomes == {"Response", "Timeout", "Error"}
RetiredId == [id : Space, reusable_at : Nat]

Init ==
    /\ slots = [id \in Space |-> Nobody] /\ id_states = [id \in Space |-> "Unavailable"]
    /\ free_ids = {} /\ retired_ids = {} /\ pending_count = 0 /\ pool_failure = FALSE
    /\ running = FALSE /\ accepting = FALSE /\ has_started = FALSE
    /\ state = [q \in Queries |-> "Idle"] /\ transaction_id = [q \in Queries |-> 0]
    /\ outcome = [q \in Queries |-> "Error"]
    /\ response_to = [q \in Queries |-> Nobody]
    /\ deadline = [q \in Queries |-> 0] /\ armed = {}
    /\ scheduled = [q \in Queries |-> 0]
    /\ wire = {} /\ now = 0

-----------------------------------------------------------------------------
(* The ID pool: free_ids is a set, because insert_free_id and the initial     *)
(* shuffle leave open which free ID is taken next; retired_ids is the heap.   *)

Pool == [free |-> free_ids, retired |-> retired_ids, states |-> id_states, ok |-> ~pool_failure]

SetPool(p) ==
    /\ free_ids' = p.free /\ retired_ids' = p.retired /\ id_states' = p.states
    /\ pool_failure' = ~p.ok

\* reclaim_ids: quarantined IDs whose time has come become free
ReclaimIds(p) ==
    LET due   == {r \in p.retired : r.reusable_at <= now}
        ids   == {r.id : r \in due}
        sound == {id \in ids \cap Ids : p.states[id] = "Retired" /\ slots[id] = Nobody}
    IN  [free    |-> p.free \cup sound,
         retired |-> p.retired \ due,
         states  |-> [id \in Space |-> IF id \in sound THEN "Free" ELSE p.states[id]],
         ok      |-> p.ok /\ ids = sound]

\* allocate_id after its reclaim_ids: the IDs it may return, and the pool then
Allocatable(p) == {id \in p.free \cap Ids : p.states[id] = "Free" /\ slots[id] = Nobody}

Allocate(p, id) ==
    [p EXCEPT !.free = Allocatable(p) \ {id}, !.states[id] = "Pending",
              !.ok = @ /\ p.free = Allocatable(p)]

\* mutant: the guard is dropped
ReuseAtOnce == now

guarded_reuse_time == now + id_reuse_guard

\* mutant: insert_free_id is forgotten in a rollback
ReleaseLeaks(p, ids, quarantine) ==
    LET sound == {id \in ids \cap Ids : p.states[id] = "Pending"}
    IN  [free    |-> p.free,
         retired |-> IF quarantine
                     THEN p.retired \cup {[id |-> id, reusable_at |-> guarded_reuse_time] : id \in sound}
                     ELSE p.retired,
         states  |-> [id \in Space |-> IF id \notin sound THEN p.states[id]
                                       ELSE IF quarantine THEN "Retired" ELSE "Free"],
         ok      |-> p.ok /\ ids = sound]

\* release_id, for each of a set of IDs
Release(p, ids, quarantine) ==
    LET sound == {id \in ids \cap Ids : p.states[id] = "Pending"}
    IN  [free    |-> IF quarantine THEN p.free ELSE p.free \cup sound,
         retired |-> IF quarantine
                     THEN p.retired \cup {[id |-> id, reusable_at |-> guarded_reuse_time] : id \in sound}
                     ELSE p.retired,
         states  |-> [id \in Space |-> IF id \notin sound THEN p.states[id]
                                       ELSE IF quarantine THEN "Retired" ELSE "Free"],
         ok      |-> p.ok /\ ids = sound]

initialize_id_pool ==
    [free |-> Ids, retired |-> {}, ok |-> ~pool_failure,
     states |-> [id \in Space |-> IF id \in Ids THEN "Free" ELSE "Unavailable"]]

\* validate_id_pool: the audit of an idle pool
ValidIdPool(p) ==
    LET quarantined == {r.id : r \in p.retired}
    IN  /\ pending_count = 0
        /\ Cardinality(p.free) + Cardinality(p.retired) = transaction_id_capacity
        /\ p.free \cup quarantined = Ids
        /\ \A id \in p.free : p.states[id] = "Free"
        /\ \A id \in quarantined : p.states[id] = "Retired"
        /\ \A id \in Space : slots[id] = Nobody
        /\ \A id \in Space \ Ids : p.states[id] = "Unavailable"

-----------------------------------------------------------------------------
(* start, close, stop *)

Start ==
    /\ ~running /\ pending_count = 0
    /\ LET p == IF has_started THEN ReclaimIds(Pool) ELSE initialize_id_pool
           valid == ValidIdPool(p)
       IN  /\ SetPool([p EXCEPT !.ok = @ /\ valid])
           /\ running' = valid /\ accepting' = valid /\ has_started' = (has_started \/ valid)
    /\ UNCHANGED <<slots, pending_count, queryVars, wire, now>>

Close ==
    /\ accepting /\ accepting' = FALSE
    /\ UNCHANGED <<poolVars, running, has_started, queryVars, wire, now>>

Stop ==
    /\ running /\ pending_count = 0
    /\ LET valid == ValidIdPool(Pool)
       IN  /\ pool_failure' = (pool_failure \/ ~valid)
           /\ running' = ~valid /\ accepting' = (accepting /\ ~valid)
    /\ UNCHANGED <<slots, id_states, free_ids, retired_ids, pending_count, has_started,
                   queryVars, wire, now>>

-----------------------------------------------------------------------------
(* QueryAwaiter::await_suspend and begin.  The awaiter is Idle: query() and query_until()
   return it by value, it can be neither copied nor moved, and the code awaits it in the
   same expression.  So begin's refusal to be reused is never taken, and it does not
   matter that await_suspend answers a stopped task before that check. *)

\* the awaiter does not suspend
NotBegun(q, newState) ==
    /\ state' = [state EXCEPT ![q] = newState]
    /\ outcome' = [outcome EXCEPT ![q] = "Error"]
    /\ UNCHANGED <<slots, pending_count, transaction_id, response_to, deadline, armed,
                   scheduled, channelVars, wire, now>>

\* mutant: an awaiter may be awaited again
BeginAgain(q) ==
    /\ NotBegun(q, "Completed")
    /\ UNCHANGED <<id_states, free_ids, retired_ids, pool_failure>>

\* the task was asked to stop, or the channel is closed
BeginClosed(q) ==
    /\ state[q] = "Idle"
    /\ NotBegun(q, "Completed")
    /\ UNCHANGED <<id_states, free_ids, retired_ids, pool_failure>>

BeginOverloaded(q) ==
    /\ running /\ accepting /\ state[q] = "Idle"
    /\ Allocatable(ReclaimIds(Pool)) = {}
    /\ SetPool(ReclaimIds(Pool))
    /\ NotBegun(q, "Completed")

\* Serialization, the timer or the send fails; nothing is on the wire, so
\* the ID is released (rollback_begin) without quarantine.
BeginFails(q) ==
    /\ running /\ accepting /\ state[q] = "Idle"
    /\ LET p == ReclaimIds(Pool)
       IN  \E id \in Allocatable(p) : SetPool(Release(Allocate(p, id), {id}, FALSE))
    /\ NotBegun(q, "Completed") \/ NotBegun(q, "Failed")

\* mutant: the deadline is not armed
BeginWithoutTimer(q) ==
    /\ running /\ accepting /\ state[q] = "Idle"
    /\ now + query_timeout <= MaxTime
    /\ LET p == ReclaimIds(Pool)
       IN  \E id \in Allocatable(p) :
               /\ SetPool(Allocate(p, id))
               /\ slots' = [slots EXCEPT ![id] = q]
               /\ transaction_id' = [transaction_id EXCEPT ![q] = id]
               /\ wire' = wire \cup {[query |-> q, id |-> id, sent_at |-> now]}
    /\ \E d \in now .. now + query_timeout : deadline' = [deadline EXCEPT ![q] = d]
    /\ state' = [state EXCEPT ![q] = "Pending"]
    /\ pending_count' = pending_count + 1
    /\ UNCHANGED <<armed, channelVars, outcome, response_to, scheduled, now>>

\* query() times out after query_timeout, query_until() when its caller says
BeginSuspends(q) ==
    /\ running /\ accepting /\ state[q] = "Idle"
    /\ now + query_timeout <= MaxTime
    /\ LET p == ReclaimIds(Pool)
       IN  \E id \in Allocatable(p) :
               /\ SetPool(Allocate(p, id))
               /\ slots' = [slots EXCEPT ![id] = q]
               /\ transaction_id' = [transaction_id EXCEPT ![q] = id]
               /\ wire' = wire \cup {[query |-> q, id |-> id, sent_at |-> now]}
    /\ \E d \in now .. now + query_timeout : deadline' = [deadline EXCEPT ![q] = d]
    /\ state' = [state EXCEPT ![q] = "Pending"]
    /\ armed' = armed \cup {q}
    /\ pending_count' = pending_count + 1
    /\ UNCHANGED <<channelVars, outcome, response_to, scheduled, now>>

-----------------------------------------------------------------------------
(* Completion *)

Pending == {q \in Queries : state[q] = "Pending" /\ slots[transaction_id[q]] = q}

\* what finish does to each of the queries of S, and abandon to one
Complete(S, result) ==
    /\ slots' = [id \in Space |-> IF slots[id] \in S THEN Nobody ELSE slots[id]]
    /\ pending_count' = pending_count - Cardinality(S)
    /\ armed' = armed \ S
    /\ deadline' = [q \in Queries |-> IF q \in S THEN 0 ELSE deadline[q]]
    /\ SetPool(Release(Pool, {transaction_id[q] : q \in S}, TRUE))
    /\ state' = [q \in Queries |-> IF q \in S THEN "Completed" ELSE state[q]]
    /\ outcome' = [q \in Queries |-> IF q \in S THEN result ELSE outcome[q]]
    /\ UNCHANGED <<channelVars, transaction_id, wire, now>>

ScheduleTasks(S) ==
    scheduled' = [q \in Queries |-> IF q \in S THEN scheduled[q] + 1 ELSE scheduled[q]]

\* The coroutine frame is destroyed while it waits.
Abandon(q) ==
    /\ q \in Pending /\ Complete({q}, "Error")
    /\ UNCHANGED <<response_to, scheduled>>

\* the timer expires, or TimerQueue cancels it
FinishDeadline(q) ==
    /\ q \in armed \cap Pending
    /\ \/ deadline[q] <= now /\ Complete({q}, "Timeout")
       \/ Complete({q}, "Error")
    /\ ScheduleTasks({q})
    /\ UNCHANGED response_to

\* handle_datagram. A datagram whose ID has no query, or whose question is not
\* the query's, changes nothing; one that cannot be stored fails the query.
HandleDatagram(m) ==
    /\ running
    /\ slots[m.id] # Nobody
    /\ LET q == slots[m.id]
       IN  /\ Question[q] = Question[m.query]
           /\ q \in Pending
           /\ \/ /\ Complete({q}, "Response")
                 /\ response_to' = [response_to EXCEPT ![q] = m.query]
              \/ Complete({q}, "Error") /\ UNCHANGED response_to
           /\ ScheduleTasks({q})

\* fail_all: cancel_all, or a receive error in drain
FailAll ==
    /\ running
    /\ Pending # {}
    /\ Complete(Pending, "Error")
    /\ ScheduleTasks(Pending)
    /\ UNCHANGED response_to

\* time passes; what is too late for the network to answer is gone
Tick ==
    /\ now < MaxTime /\ now' = now + 1
    /\ wire' = {m \in wire : now' <= m.sent_at + MaxDelay}
    /\ UNCHANGED <<poolVars, channelVars, queryVars>>

Next ==
    \/ Start \/ Close \/ Stop \/ Tick
    \/ \E q \in Queries :
           \/ BeginClosed(q) \/ BeginOverloaded(q) \/ BeginFails(q) \/ BeginSuspends(q)
           \/ Abandon(q) \/ FinishDeadline(q)
    \/ \E m \in wire : HandleDatagram(m)
    \/ FailAll

Spec == Init /\ [][Next]_vars

\* Time passes, and the event loop runs TimerQueue::expire, which takes one due
\* timer after the other.
Fairness ==
    /\ WF_vars(Tick)
    /\ WF_vars(\E q \in armed : deadline[q] <= now /\ FinishDeadline(q))

FairSpec == Spec /\ Fairness

-----------------------------------------------------------------------------
(* Properties *)

\* Every variable holds a value its C++ type allows.
TypeOK ==
    /\ slots \in [Space -> Queries \cup {Nobody}] /\ id_states \in [Space -> IdStates]
    /\ free_ids \subseteq Space /\ retired_ids \subseteq RetiredId
    /\ pending_count \in Nat /\ pool_failure \in BOOLEAN
    /\ running \in BOOLEAN /\ accepting \in BOOLEAN /\ has_started \in BOOLEAN
    /\ state \in [Queries -> {"Idle", "Pending", "Completed", "Failed"}]
    /\ transaction_id \in [Queries -> Space] /\ outcome \in [Queries -> Outcomes]
    /\ response_to \in [Queries -> Queries \cup {Nobody}]
    /\ deadline \in [Queries -> Nat] /\ armed \subseteq Queries
    /\ scheduled \in [Queries -> Nat]
    /\ wire \subseteq [query : Queries, id : Space, sent_at : Nat]
    /\ now \in Nat

\* Once the channel has started, every usable ID is in exactly one place: free,
\* in quarantine once, or the slot of the one pending query that carries it.
\* No ID leaks, whatever order timeouts, answers, failures and restarts take, and
\* the channel's own checks of its pool never fail (stats_.invariant_failures is 0).
\* A query waits exactly as long as the channel and the timer queue point at its
\* frame: nothing borrowed outlives the wait, and pending_count_ is exact.
IdsArePartitioned ==
    /\ ~pool_failure
    /\ armed = {q \in Queries : state[q] = "Pending"} /\ armed = Pending
    /\ {id \in Space : slots[id] # Nobody} = {transaction_id[q] : q \in armed}
    /\ pending_count = Cardinality(armed)
    /\ has_started =>
        \A id \in Ids :
            /\ (id \in free_ids) <=> id_states[id] = "Free"
            /\ (\E r \in retired_ids : r.id = id) <=> id_states[id] = "Retired"
            /\ (slots[id] # Nobody) <=> id_states[id] = "Pending"
            /\ \A r, s \in retired_ids : r.id = id /\ s.id = id => r = s
            /\ \A q \in Queries : slots[id] = q => state[q] = "Pending" /\ transaction_id[q] = id

\* A response completes the query it answers, not a later one that reuses the
\* transaction ID, even when both ask the same question.
ResponseIsOwn == \A q \in Queries : outcome[q] = "Response" => response_to[q] = q

\* Response, timeout, cancellation and socket error: only one of them becomes
\* the reason a wait ends, and it wakes the task at most once.
CompletesOnce ==
    [][\A q \in Queries :
           state[q] \in {"Completed", "Failed"} => /\ state'[q] = state[q]
                                                   /\ outcome'[q] = outcome[q]
                                                   /\ scheduled'[q] = scheduled[q]]_vars

\* Every query that was sent ends, also when its answer is lost.  A query is awaited
\* once, so the queries run out, and in the end none is left waiting.
QueriesEnd == <>[](\A q \in Queries : state[q] # "Pending")

=============================================================================

--------------------------- MODULE DataStructures ---------------------------
(***************************************************************************)
(* The sequential data structures and codecs, each used by one thread at a *)
(* time: the timer queue, the cache shard, the blocklist and the DNS       *)
(* protocol code.  They share no state, so a behaviour exercises one of    *)
(* them, `subject', and leaves the others alone; how the threads use them  *)
(* together is in CoroutineRuntime and RequestPath.                        *)
(***************************************************************************)
EXTENDS TimerQueue, CacheShard, DomainBlocklist, DnsWire

CONSTANTS
    Deadlines,
    MaxArms      \* how often a registration is armed in a behaviour

VARIABLES
    subject,     \* the structure of this behaviour
    arms         \* how many registrations were armed

vars == <<subject, timers, arms, cache, build, wire>>

ASSUME StructuresAssumption ==
    /\ FPS_PER_BUCKET \in Nat \ {0} /\ MAX_KICKS \in Nat \ {0}
    /\ MaxBuckets \in Nat \ {0}
    /\ \A fp \in DOMAIN Delta : fp # Vacant

Init ==
    /\ subject \in {"timers", "cache", "blocklist", "wire"}
    /\ timers = StartQueue(NewQueue) /\ arms = 0
    /\ CacheInit /\ WireInit
    /\ IF subject = "blocklist" THEN BuildInit ELSE build = [phase |-> "none"]

\* TimerQueue::arm of a registration that is not in the heap.  Which one does not
\* matter to the queue: take the least.
Arm(deadline) ==
    LET idle == {r \in Registrations : CanArm(timers, r)}
    IN  /\ idle # {} /\ arms < MaxArms
        /\ timers' = arm(timers, Min(idle), deadline)
        /\ arms' = arms + 1

\* A waiter leaves: an answer, a cancellation or the end of its frame
Leave(r) ==
    /\ timers.heap_index[r] # not_in_heap
    /\ timers' \in {disarm(timers, r), abandon(timers, r)}
    /\ UNCHANGED arms

\* complete_front on an expired registration
ExpireFront(now) ==
    /\ HasDue(timers, now)
    /\ timers' = remove_at(timers, 0)
    /\ UNCHANGED arms

UseTimers ==
    /\ subject = "timers"
    /\ \/ \E deadline \in Deadlines : Arm(deadline) \/ ExpireFront(deadline)
       \/ \E r \in Registrations : Leave(r)
    /\ UNCHANGED <<subject, cache, build, wire>>

UseCache == subject = "cache" /\ CacheNext /\ UNCHANGED <<subject, timers, arms, build, wire>>

UseBlocklist == subject = "blocklist" /\ BuildNext /\ UNCHANGED <<subject, timers, arms, cache, wire>>

UseWire == subject = "wire" /\ WireNext /\ UNCHANGED <<subject, timers, arms, cache, build>>

Next == UseTimers \/ UseCache \/ UseBlocklist \/ UseWire

Spec == Init /\ [][Next]_vars

=============================================================================

----------------------- MODULE UpstreamChannelProofs -----------------------
(***************************************************************************)
(* Proofs about UpstreamChannel, for any finite set of queries, any ID     *)
(* capacity and any ChannelConfig that start() accepts.  The inductive     *)
(* invariant has three parts besides the types:                            *)
(*                                                                         *)
(*  QueryInv  a query waits exactly while a slot and a timer point at it   *)
(*  PoolInv   every usable ID is free, in quarantine or in a slot          *)
(*  WireInv   an ID that a transmission on the wire carries is still held  *)
(*            by the query that sent it, or stays in quarantine until the  *)
(*            network can no longer answer that transmission               *)
(***************************************************************************)
EXTENDS UpstreamChannel, FiniteSetTheorems, TLAPS

\* the IDs whose slot holds a query
Busy == {id \in Space : slots[id] # Nobody}

IdPool == [free : SUBSET Ids, retired : SUBSET [id : Ids, reusable_at : Nat],
           states : [Space -> IdStates], ok : BOOLEAN]

\* a pool in which exactly the IDs of busy are pending
PoolOK(p, busy) ==
    /\ p \in IdPool /\ p.ok /\ busy \subseteq Ids
    /\ \A id \in Ids : /\ p.states[id] # "Unavailable"
                       /\ id \in p.free <=> p.states[id] = "Free"
                       /\ (\E r \in p.retired : r.id = id) <=> p.states[id] = "Retired"
                       /\ id \in busy <=> p.states[id] = "Pending"
    /\ \A r, s \in p.retired : r.id = s.id => r = s
    /\ \A id \in Space \ Ids : p.states[id] = "Unavailable"

\* start() has not succeeded yet
Unstarted ==
    /\ free_ids = {} /\ retired_ids = {} /\ ~pool_failure
    /\ ~running /\ ~accepting /\ Busy = {} /\ wire = {}

PoolInv == IF has_started THEN PoolOK(Pool, Busy) ELSE Unstarted

QueryInv ==
    /\ armed = {q \in Queries : state[q] = "Pending"}
    /\ \A q \in armed : slots[transaction_id[q]] = q
    /\ \A id \in Busy : slots[id] \in armed /\ transaction_id[slots[id]] = id
    /\ pending_count = Cardinality(armed)

\* the quarantine of m's ID outlives every answer to m
Quarantined(m, retired) ==
    \E r \in retired : r.id = m.id /\ r.reusable_at > m.sent_at + MaxDelay

WireOK(m) ==
    /\ m.sent_at <= now /\ now <= m.sent_at + MaxDelay
    /\ slots[m.id] = m.query \/ Quarantined(m, retired_ids)

WireInv == \A m \in wire : WireOK(m)

\* The inductive invariant: see the head of this module.
InductiveInvariant == QueryInv /\ PoolInv /\ WireInv /\ ResponseIsOwn

-----------------------------------------------------------------------------
(* The operations on the ID pool *)

\* The usable IDs are transaction IDs.
LEMMA IdsInSpace == Ids \subseteq Space /\ IsFiniteSet(Ids) /\ Cardinality(Ids) = transaction_id_capacity
<1>1. transaction_id_capacity \in Nat /\ transaction_id_capacity - 1 \in Int
      /\ 0 <= transaction_id_capacity - 1 /\ transaction_id_capacity <= kTransactionIdSpace
      /\ kTransactionIdSpace \in Nat
  BY ConfigAssumption
<1>2. IsFiniteSet(Ids) /\ Cardinality(Ids) = transaction_id_capacity - 1 - 0 + 1
  BY <1>1, FS_Interval DEF Ids
<1> QED BY <1>1, <1>2 DEF Ids, Space

\* What the parts of a sound pool are.
LEMMA PoolFields ==
    ASSUME NEW p, NEW busy, PoolOK(p, busy)
    PROVE  /\ p.free \subseteq Ids /\ p.states \in [Space -> IdStates] /\ p.ok = TRUE
           /\ \A r \in p.retired : r \in [id : Ids, reusable_at : Nat]
           /\ \A r \in p.retired : r.id \in Ids /\ r.reusable_at \in Nat
           /\ p = [free |-> p.free, retired |-> p.retired, states |-> p.states, ok |-> p.ok]
BY DEF PoolOK, IdPool

\* reclaim_ids keeps the pool partitioned, and frees no ID whose time has not come.
LEMMA ReclaimOK ==
    ASSUME NEW p, PoolOK(p, Busy), now \in Nat
    PROVE  /\ PoolOK(ReclaimIds(p), Busy)
           /\ \A r \in p.retired : r.reusable_at > now => r \in ReclaimIds(p).retired
<1> DEFINE due == {r \in p.retired : r.reusable_at <= now}
           ids == {r.id : r \in due}
           sound == {id \in ids \cap Ids : p.states[id] = "Retired" /\ slots[id] = Nobody}
           q == ReclaimIds(p)
<1>0. Ids \subseteq Space
  BY IdsInSpace
<1>f. /\ p.free \subseteq Ids /\ p.states \in [Space -> IdStates] /\ p.ok = TRUE
      /\ \A r \in p.retired : r.id \in Ids /\ r.reusable_at \in Nat
      /\ p = [free |-> p.free, retired |-> p.retired, states |-> p.states, ok |-> p.ok]
  BY PoolFields, Zenon
<1>1. ids = sound
  BY <1>0, <1>f, SMTT(30) DEF PoolOK, Busy
<1>2. /\ q.free = p.free \cup ids /\ q.retired = p.retired \ due /\ q.ok = p.ok
      /\ q.states = [id \in Space |-> IF id \in ids THEN "Free" ELSE p.states[id]]
  BY <1>1, Zenon DEF ReclaimIds, PoolOK
<1>3. \A r \in p.retired : r \in due <=> r.id \in ids
  BY DEF PoolOK
<1>4. q \in IdPool /\ q.ok
  <2>1. /\ q.free \in SUBSET Ids /\ q.retired \in SUBSET [id : Ids, reusable_at : Nat]
        /\ q.states \in [Space -> IdStates] /\ q.ok \in BOOLEAN /\ q.ok
    BY <1>0, <1>1, <1>2 DEF PoolOK, IdPool, IdStates
  <2> QED BY <2>1 DEF ReclaimIds, IdPool
<1>5. ASSUME NEW id \in Ids
      PROVE  /\ q.states[id] # "Unavailable"
             /\ id \in q.free <=> q.states[id] = "Free"
             /\ (\E r \in q.retired : r.id = id) <=> q.states[id] = "Retired"
             /\ id \in Busy <=> q.states[id] = "Pending"
  <2>1. CASE id \in ids
    <3>1. q.states[id] = "Free" /\ id \in q.free /\ p.states[id] = "Retired"
      BY <1>0, <1>1, <1>2, <2>1
    <3>2. ~ \E r \in q.retired : r.id = id
      BY <1>2, <1>3, <2>1
    <3> QED BY <3>1, <3>2 DEF PoolOK
  <2>2. CASE id \notin ids
    <3>1. q.states[id] = p.states[id] /\ (id \in q.free <=> id \in p.free)
      BY <1>0, <1>2, <2>2, Zenon
    <3>2. (\E r \in q.retired : r.id = id) <=> (\E r \in p.retired : r.id = id)
      BY <1>2, <1>3, <2>2, Zenon
    <3> QED BY <3>1, <3>2 DEF PoolOK
  <2> QED BY <2>1, <2>2
<1>6. \A id \in Space \ Ids : q.states[id] = "Unavailable"
  BY <1>1, <1>2 DEF PoolOK
<1>7. \A r, s \in q.retired : r.id = s.id => r = s
  BY <1>2, Zenon DEF PoolOK
<1>8. PoolOK(q, Busy)
  <2>1. Busy \subseteq Ids
    BY DEF PoolOK
  <2> HIDE DEF q
  <2> QED BY <1>4, <1>5, <1>6, <1>7, <2>1, Zenon DEF PoolOK
<1>9. \A r \in p.retired : r.reusable_at > now => r \in q.retired
  BY <1>2, <1>f
<1> QED BY <1>8, <1>9

\* allocate_id makes one free ID pending.
LEMMA AllocateOK ==
    ASSUME NEW p, PoolOK(p, Busy), NEW id \in Allocatable(p)
    PROVE  /\ PoolOK(Allocate(p, id), Busy \cup {id})
           /\ Allocate(p, id).retired = p.retired
           /\ id \in Ids /\ id \notin Busy
<1> DEFINE q == Allocate(p, id)
<1>0. Ids \subseteq Space
  BY IdsInSpace
<1>f. /\ p.free \subseteq Ids /\ p.states \in [Space -> IdStates] /\ p.ok = TRUE
      /\ \A r \in p.retired : r.id \in Ids /\ r.reusable_at \in Nat
      /\ p = [free |-> p.free, retired |-> p.retired, states |-> p.states, ok |-> p.ok]
  BY PoolFields, Zenon
<1>1. Allocatable(p) = p.free
  BY <1>0, <1>f, ZenonT(40) DEF PoolOK, Allocatable, Busy
<1>2. id \in Ids /\ id \in p.free /\ id \notin Busy /\ p.states[id] = "Free"
  BY <1>1 DEF PoolOK, Allocatable
<1>3. /\ q.free = p.free \ {id} /\ q.retired = p.retired /\ q.ok = p.ok
      /\ q.states = [p.states EXCEPT ![id] = "Pending"]
  BY <1>1, <1>f, Zenon DEF Allocate
<1>4. q \in IdPool /\ q.ok
  BY <1>2, <1>3, Zenon DEF Allocate, PoolOK, IdPool, IdStates
<1>5. ASSUME NEW i \in Ids
      PROVE  /\ q.states[i] # "Unavailable"
             /\ i \in q.free <=> q.states[i] = "Free"
             /\ (\E r \in q.retired : r.id = i) <=> q.states[i] = "Retired"
             /\ i \in Busy \cup {id} <=> q.states[i] = "Pending"
  <2>1. q.states[i] = IF i = id THEN "Pending" ELSE p.states[i]
    BY <1>0, <1>3, <1>f, Zenon
  <2>2. i \in q.free <=> i \in p.free /\ i # id
    BY <1>3, Zenon
  <2> HIDE DEF q
  <2> QED BY <1>2, <1>3, <2>1, <2>2 DEF PoolOK
<1>6. \A i \in Space \ Ids : q.states[i] = "Unavailable"
  BY <1>2, <1>3, SMTT(30) DEF PoolOK
<1>7. \A r, s \in q.retired : r.id = s.id => r = s
  BY <1>3, Zenon DEF PoolOK
<1>8. PoolOK(q, Busy \cup {id})
  <2>1. Busy \cup {id} \subseteq Ids
    BY <1>2, Zenon DEF PoolOK
  <2> HIDE DEF q
  <2> QED BY <1>4, <1>5, <1>6, <1>7, <2>1, Zenon DEF PoolOK
<1> QED BY <1>2, <1>3, <1>8, Zenon

\* release_id takes pending IDs out of their slots, into quarantine or the free IDs.
LEMMA ReleaseOK ==
    ASSUME NEW p, NEW busy, PoolOK(p, busy), NEW ids \in SUBSET busy,
           NEW quarantine \in BOOLEAN, now \in Nat
    PROVE  /\ PoolOK(Release(p, ids, quarantine), busy \ ids)
           /\ p.retired \subseteq Release(p, ids, quarantine).retired
           /\ ~quarantine => Release(p, ids, quarantine).retired = p.retired
           /\ quarantine => \A id \in ids :
                 [id |-> id, reusable_at |-> guarded_reuse_time]
                     \in Release(p, ids, quarantine).retired
<1> DEFINE sound == {id \in ids \cap Ids : p.states[id] = "Pending"}
           q == Release(p, ids, quarantine)
           entries == {[id |-> id, reusable_at |-> guarded_reuse_time] : id \in ids}
<1>0. Ids \subseteq Space
  BY IdsInSpace, Zenon
<1>1. ids = sound
  BY Zenon DEF PoolOK
<1>2. /\ q.free = (IF quarantine THEN p.free ELSE p.free \cup ids)
      /\ q.retired = (IF quarantine THEN p.retired \cup entries ELSE p.retired)
      /\ q.ok = p.ok
      /\ q.states = [id \in Space |-> IF id \notin ids THEN p.states[id]
                                     ELSE IF quarantine THEN "Retired" ELSE "Free"]
  BY <1>1, Zenon DEF Release, PoolOK
<1>3. guarded_reuse_time \in Nat
  BY ConfigAssumption DEF guarded_reuse_time
<1>4. ids \subseteq Ids /\ \A id \in ids : p.states[id] = "Pending"
  BY <1>1
<1>5. \A id \in ids : id \notin p.free /\ ~ \E r \in p.retired : r.id = id
  BY <1>4 DEF PoolOK
<1>6. entries \subseteq [id : Ids, reusable_at : Nat]
  BY <1>3, <1>4
<1>7. q \in IdPool /\ q.ok
  <2>1. /\ q.free \in SUBSET Ids /\ q.retired \in SUBSET [id : Ids, reusable_at : Nat]
        /\ q.states \in [Space -> IdStates] /\ q.ok \in BOOLEAN /\ q.ok
    BY <1>2, <1>4, <1>6 DEF PoolOK, IdPool, IdStates
  <2> QED BY <2>1 DEF Release, IdPool
<1>8. ASSUME NEW id \in Ids
      PROVE  /\ q.states[id] # "Unavailable"
             /\ id \in q.free <=> q.states[id] = "Free"
             /\ (\E r \in q.retired : r.id = id) <=> q.states[id] = "Retired"
             /\ id \in busy \ ids <=> q.states[id] = "Pending"
  <2>1. q.states[id] = IF id \notin ids THEN p.states[id]
                       ELSE IF quarantine THEN "Retired" ELSE "Free"
    BY <1>0, <1>2, Zenon
  <2>2. (\E r \in entries : r.id = id) <=> id \in ids
    <3>1. \A r \in entries : r.id \in ids
      OBVIOUS
    <3>2. id \in ids => [id |-> id, reusable_at |-> guarded_reuse_time] \in entries
      OBVIOUS
    <3>3. [id |-> id, reusable_at |-> guarded_reuse_time].id = id
      BY Zenon
    <3> HIDE DEF entries
    <3> QED BY <3>1, <3>2, <3>3, Zenon
  <2>3. (\E r \in q.retired : r.id = id)
        <=> ((\E r \in p.retired : r.id = id) \/ (quarantine /\ id \in ids))
    <3> HIDE DEF entries
    <3> QED BY <1>2, <2>2, Zenon
  <2> HIDE DEF q, entries
  <2> QED BY <1>2, <1>4, <1>5, <2>1, <2>3 DEF PoolOK
<1>9. \A id \in Space \ Ids : q.states[id] = "Unavailable"
  BY <1>2, <1>4, Zenon DEF PoolOK
<1>10. ASSUME NEW r \in q.retired, NEW s \in q.retired, r.id = s.id PROVE r = s
  <2>1. \A e \in entries : e.id \in ids /\ e = [id |-> e.id, reusable_at |-> guarded_reuse_time]
    BY SMTT(30)
  <2> HIDE DEF entries
  <2> QED BY <1>2, <1>5, <1>10, <2>1, SMTT(30) DEF PoolOK
<1>11. PoolOK(q, busy \ ids)
  <2>1. busy \ ids \subseteq Ids
    BY DEF PoolOK
  <2> HIDE DEF q
  <2> QED BY <1>7, <1>8, <1>9, <1>10, <2>1, Zenon DEF PoolOK
<1> QED BY <1>2, <1>11

\* initialize_id_pool makes every usable ID free.
LEMMA InitialPoolOK == ~pool_failure => PoolOK(initialize_id_pool, {})
<1> SUFFICES ASSUME ~pool_failure PROVE PoolOK(initialize_id_pool, {})
  OBVIOUS
<1> DEFINE q == initialize_id_pool
<1>0. Ids \subseteq Space
  BY IdsInSpace, Zenon
<1>1. /\ q.free = Ids /\ q.retired = {} /\ q.ok = TRUE
      /\ q.states = [id \in Space |-> IF id \in Ids THEN "Free" ELSE "Unavailable"]
  BY Zenon DEF initialize_id_pool
<1>2. q \in IdPool
  <2>1. q.states \in [Space -> IdStates]
    BY <1>1 DEF IdStates
  <2> QED BY <1>1, <2>1 DEF initialize_id_pool, IdPool
<1>3. \A id \in Ids : q.states[id] = "Free"
  BY <1>0, <1>1
<1>4. \A id \in Space \ Ids : q.states[id] = "Unavailable"
  BY <1>1
<1>5. ASSUME NEW id \in Ids
      PROVE  /\ q.states[id] # "Unavailable"
             /\ id \in q.free <=> q.states[id] = "Free"
             /\ (\E r \in q.retired : r.id = id) <=> q.states[id] = "Retired"
             /\ id \in {} <=> q.states[id] = "Pending"
  BY <1>1, <1>3
<1>6. q.ok /\ {} \subseteq Ids /\ \A r, s \in q.retired : r.id = s.id => r = s
  BY <1>1
<1>7. PoolOK(q, {})
  <2> HIDE DEF q
  <2> QED BY <1>2, <1>4, <1>5, <1>6, Zenon DEF PoolOK
<1> QED BY <1>7

\* The audit of an idle pool, validate_id_pool, accepts a sound one.
LEMMA AuditPasses ==
    ASSUME NEW p, PoolOK(p, {}), Busy = {}, pending_count = 0
    PROVE  ValidIdPool(p)
<1> DEFINE quarantined == {r.id : r \in p.retired}
           f == [r \in p.retired |-> r.id]
<1>f. /\ p.free \subseteq Ids /\ p.states \in [Space -> IdStates]
      /\ \A r \in p.retired : r.id \in Ids
  BY PoolFields, Zenon
<1>1. p.free \cup quarantined = Ids /\ p.free \cap quarantined = {}
  <2>1. \A id \in Ids : p.states[id] \in {"Free", "Retired"}
    BY <1>f, IdsInSpace DEF PoolOK, IdStates
  <2>2. \A id \in Ids : /\ id \in p.free <=> p.states[id] = "Free"
                        /\ (\E r \in p.retired : r.id = id) <=> p.states[id] = "Retired"
    BY Zenon DEF PoolOK
  <2>3. \A id : id \in quarantined <=> \E r \in p.retired : r.id = id
    BY Zenon
  <2> HIDE DEF quarantined
  <2>4. ASSUME NEW id \in Ids PROVE id \in p.free <=> id \notin quarantined
    <3>1. p.states[id] = "Free" \/ p.states[id] = "Retired"
      BY <2>1
    <3>2. id \in p.free <=> p.states[id] = "Free"
      BY <2>2, Zenon
    <3>3. id \in quarantined <=> p.states[id] = "Retired"
      BY <2>2, <2>3, Zenon
    <3> QED BY <3>1, <3>2, <3>3, Zenon
  <2>5. quarantined \subseteq Ids
    BY <1>f, <2>3, Zenon
  <2> QED BY <1>f, <2>4, <2>5, Zenon
<1>2. /\ \A id \in p.free : p.states[id] = "Free"
      /\ \A id \in quarantined : p.states[id] = "Retired"
      /\ \A id \in Space \ Ids : p.states[id] = "Unavailable"
  BY <1>f, SMTT(30) DEF PoolOK
<1>3. IsFiniteSet(p.free) /\ IsFiniteSet(quarantined)
  BY <1>1, IdsInSpace, FS_Subset, SMTT(30)
<1>4. Cardinality(p.free) + Cardinality(quarantined) = transaction_id_capacity
  <2>1. Cardinality(p.free) \in Nat /\ Cardinality(quarantined) \in Nat
    BY <1>3, FS_CardinalityType, Zenon
  <2>2. Cardinality(p.free \cup quarantined)
          = Cardinality(p.free) + Cardinality(quarantined) - Cardinality(p.free \cap quarantined)
    BY <1>3, FS_Union
  <2>3. Cardinality(p.free \cap quarantined) = 0
    BY <1>1, FS_EmptySet, Zenon
  <2>4. Cardinality(p.free \cup quarantined) = transaction_id_capacity
    BY <1>1, IdsInSpace, Zenon
  <2> QED BY <2>1, <2>2, <2>3, <2>4, SMTT(30)
<1>5. Cardinality(p.retired) = Cardinality(quarantined)
  <2>1. f \in Injection(p.retired, quarantined)
    BY DEF PoolOK, Injection, IsInjective
  <2>2. f \in Surjection(p.retired, quarantined)
    BY DEF Surjection
  <2> HIDE DEF f, quarantined
  <2> QED BY <1>3, <2>1, <2>2, FS_Injection, Zenon
<1>6. \A id \in Space : slots[id] = Nobody
  BY Zenon DEF Busy
<1> QED BY <1>1, <1>2, <1>4, <1>5, <1>6 DEF ValidIdPool

\* What SetPool leaves when it stores a sound pool.
LEMMA StoredPool ==
    ASSUME NEW p, NEW busy, PoolOK(p, busy), SetPool(p)
    PROVE  /\ Pool' = p /\ retired_ids' = p.retired /\ ~pool_failure' /\ pool_failure' \in BOOLEAN
           /\ free_ids' \subseteq Space /\ retired_ids' \subseteq RetiredId
           /\ id_states' \in [Space -> IdStates]
<1>f. /\ p.free \subseteq Ids /\ p.states \in [Space -> IdStates] /\ p.ok = TRUE
      /\ \A r \in p.retired : r \in [id : Ids, reusable_at : Nat]
      /\ p = [free |-> p.free, retired |-> p.retired, states |-> p.states, ok |-> p.ok]
  BY PoolFields, Zenon
<1>1. free_ids' = p.free /\ retired_ids' = p.retired /\ id_states' = p.states
      /\ pool_failure' = FALSE
  BY <1>f, Zenon DEF SetPool
<1>2. Pool' = p
  BY <1>1, <1>f, Zenon DEF Pool
<1>3. [id : Ids, reusable_at : Nat] \subseteq RetiredId
  BY IdsInSpace DEF RetiredId
<1> QED BY <1>1, <1>2, <1>3, <1>f, IdsInSpace, Zenon

-----------------------------------------------------------------------------
(* Completion: finish and abandon *)

\* A channel with a query in flight has started, and its pool is sound.
LEMMA InFlight ==
    ASSUME TypeOK, InductiveInvariant, armed # {}
    PROVE  has_started /\ PoolOK(Pool, Busy)
<1>1. PICK q \in Queries : q \in armed
  BY DEF TypeOK
<1>2. transaction_id[q] \in Busy
  BY <1>1, QueriesAssumption DEF InductiveInvariant, QueryInv, Busy, TypeOK
<1> QED BY <1>2 DEF InductiveInvariant, PoolInv, Unstarted

\* The queries that wait are the ones that finish and abandon may complete.
LEMMA PendingIsArmed == TypeOK /\ QueryInv => Pending = armed
BY DEF TypeOK, QueryInv, Pending

\* Completing queries empties their slots and quarantines their IDs, longer than
\* the network takes to answer what they sent.
LEMMA CompleteStep ==
    ASSUME TypeOK, InductiveInvariant, NEW S \in SUBSET armed, S # {},
           NEW result \in Outcomes, Complete(S, result)
    PROVE  /\ QueryInv' /\ PoolInv' /\ WireInv'
           /\ pool_failure' \in BOOLEAN /\ free_ids' \subseteq Space
           /\ retired_ids' \subseteq RetiredId /\ id_states' \in [Space -> IdStates]
<1> DEFINE ids == {transaction_id[q] : q \in S}
           p == Release(Pool, ids, TRUE)
<1>0. QueryInv /\ WireInv /\ has_started /\ PoolOK(Pool, Busy) /\ now \in Nat
  BY InFlight DEF InductiveInvariant, TypeOK
<1>1. ids \subseteq Busy
  BY <1>0, QueriesAssumption DEF QueryInv, Busy, TypeOK
<1>2. \A id \in Space : slots[id] \in S <=> id \in ids
  BY <1>0, QueriesAssumption DEF QueryInv, Busy, TypeOK
<1>3. /\ slots' = [id \in Space |-> IF id \in ids THEN Nobody ELSE slots[id]]
      /\ armed' = armed \ S /\ pending_count' = pending_count - Cardinality(S)
      /\ state' = [q \in Queries |-> IF q \in S THEN "Completed" ELSE state[q]]
      /\ UNCHANGED <<transaction_id, wire, now, has_started>>
      /\ SetPool(p)
  BY <1>2, Zenon DEF Complete, channelVars
<1>4. Busy' = Busy \ ids
  BY <1>3 DEF Busy
<1>5. /\ PoolOK(p, Busy \ ids) /\ Pool.retired \subseteq p.retired
      /\ \A id \in ids : [id |-> id, reusable_at |-> guarded_reuse_time] \in p.retired
  BY <1>0, <1>1, ReleaseOK, ZenonT(40)
<1>6. /\ Pool' = p /\ retired_ids' = p.retired
      /\ pool_failure' \in BOOLEAN /\ free_ids' \subseteq Space
      /\ retired_ids' \subseteq RetiredId /\ id_states' \in [Space -> IdStates]
  <2> HIDE DEF p
  <2> QED BY <1>3, <1>5, StoredPool
<1>7. PoolInv'
  BY <1>0, <1>3, <1>4, <1>5, <1>6, ZenonT(40) DEF PoolInv
<1>8. QueryInv'
  <2>1. armed' = {q \in Queries : state[q] = "Pending"}'
    BY <1>0, <1>3 DEF QueryInv, TypeOK
  <2>2. \A q \in armed' : slots'[transaction_id'[q]] = q
    BY <1>0, <1>2, <1>3 DEF QueryInv, TypeOK
  <2>3. \A id \in Busy' : slots'[id] \in armed' /\ transaction_id'[slots'[id]] = id
    BY <1>0, <1>2, <1>3, <1>4, Zenon DEF QueryInv, Busy
  <2>4. pending_count' = Cardinality(armed')
    <3>1. IsFiniteSet(armed)
      BY QueriesAssumption, FS_Subset DEF TypeOK
    <3>2. Cardinality(armed \ S) = Cardinality(armed) - Cardinality(armed \cap S)
      BY <3>1, FS_Difference
    <3>3. armed \cap S = S
      OBVIOUS
    <3> QED BY <1>0, <1>3, <3>2, <3>3, ZenonT(40) DEF QueryInv
  <2> QED BY <2>1, <2>2, <2>3, <2>4 DEF QueryInv
<1>9. WireInv'
  <2> SUFFICES ASSUME NEW m \in wire PROVE WireOK(m)'
    BY <1>3 DEF WireInv
  <2>1. /\ m.sent_at <= now /\ now <= m.sent_at + MaxDelay
        /\ slots[m.id] = m.query \/ Quarantined(m, retired_ids)
    BY <1>0, Zenon DEF WireInv, WireOK
  <2>2. m.query \in Queries /\ m.id \in Space /\ m.sent_at \in Nat
    BY Zenon DEF TypeOK
  <2>3. CASE slots[m.id] = m.query /\ m.query \notin S
    BY <1>2, <1>3, <2>1, <2>2, <2>3, Zenon DEF WireOK
  <2>4. CASE slots[m.id] = m.query /\ m.query \in S
    <3>1. m.id \in ids
      BY <1>2, <2>2, <2>4, Zenon
    <3>2. [id |-> m.id, reusable_at |-> guarded_reuse_time] \in retired_ids'
      BY <1>5, <1>6, <3>1, ZenonT(40)
    <3>3. guarded_reuse_time > m.sent_at + MaxDelay
      BY <1>0, <2>1, <2>2, DelayAssumption, ConfigAssumption DEF guarded_reuse_time
    <3>4. Quarantined(m, retired_ids')
      BY <3>2, <3>3 DEF Quarantined
    <3> QED BY <1>3, <2>1, <3>4, Zenon DEF WireOK
  <2>5. CASE Quarantined(m, retired_ids)
    <3>1. retired_ids \subseteq retired_ids'
      BY <1>5, <1>6, Zenon DEF Pool
    <3>2. Quarantined(m, retired_ids')
      BY <2>5, <3>1 DEF Quarantined
    <3> QED BY <1>3, <2>1, <3>2 DEF WireOK
  <2> QED BY <2>1, <2>3, <2>4, <2>5
<1> QED BY <1>6, <1>7, <1>8, <1>9, ZenonT(40)

\* Completion keeps the types.
LEMMA CompleteTypes ==
    ASSUME TypeOK, InductiveInvariant, NEW S \in SUBSET armed, S # {},
           NEW result \in Outcomes, Complete(S, result),
           response_to' \in [Queries -> Queries \cup {Nobody}], scheduled' \in [Queries -> Nat]
    PROVE  TypeOK'
<1>1. /\ slots' = [id \in Space |-> IF slots[id] \in S THEN Nobody ELSE slots[id]]
      /\ armed' = armed \ S
      /\ deadline' = [q \in Queries |-> IF q \in S THEN 0 ELSE deadline[q]]
      /\ state' = [q \in Queries |-> IF q \in S THEN "Completed" ELSE state[q]]
      /\ outcome' = [q \in Queries |-> IF q \in S THEN result ELSE outcome[q]]
      /\ UNCHANGED <<running, accepting, has_started, transaction_id, wire, now>>
  BY DEF Complete, channelVars
<1>2. /\ slots' \in [Space -> Queries \cup {Nobody}]
      /\ armed' \subseteq Queries /\ deadline' \in [Queries -> Nat]
      /\ state' \in [Queries -> {"Idle", "Pending", "Completed", "Failed"}]
      /\ outcome' \in [Queries -> Outcomes]
  BY <1>1, Zenon DEF TypeOK
<1>3. /\ QueryInv' /\ pool_failure' \in BOOLEAN /\ free_ids' \subseteq Space
      /\ retired_ids' \subseteq RetiredId /\ id_states' \in [Space -> IdStates]
  BY CompleteStep, Zenon
<1>4. pending_count' \in Nat
  <2>1. IsFiniteSet(armed')
    BY <1>2, QueriesAssumption, FS_Subset, Zenon
  <2> QED BY <1>3, <2>1, FS_CardinalityType, Zenon DEF QueryInv
<1> QED BY <1>1, <1>2, <1>3, <1>4 DEF TypeOK

-----------------------------------------------------------------------------
(* Starting a query, and the channel *)

\* A query that does not suspend changes the pool only by what it reclaims.
LEMMA NotBegunStep ==
    ASSUME TypeOK, InductiveInvariant, NEW q \in Queries, state[q] = "Idle",
           NEW newState \in {"Completed", "Failed"}, NotBegun(q, newState)
    PROVE  /\ QueryInv'
           /\ UNCHANGED <<slots, has_started, running, accepting, wire, now>>
           /\ Busy' = Busy /\ (retired_ids' = retired_ids => WireInv')
<1>1. /\ state' = [state EXCEPT ![q] = newState]
      /\ UNCHANGED <<slots, pending_count, transaction_id, armed, channelVars, wire, now>>
  BY Zenon DEF NotBegun
<1>2. Busy' = Busy
  BY <1>1, Zenon DEF Busy
<1>3. armed' = {r \in Queries : state'[r] = "Pending"}
  BY <1>1, Zenon DEF InductiveInvariant, QueryInv, TypeOK
<1>4. QueryInv'
  BY <1>1, <1>2, <1>3, Zenon DEF InductiveInvariant, QueryInv
<1>5. retired_ids' = retired_ids => WireInv'
  BY <1>1, Zenon DEF InductiveInvariant, WireInv, WireOK, Quarantined
<1> QED BY <1>1, <1>2, <1>4, <1>5, Zenon DEF channelVars

\* What the quarantine protects outlives reclaim_ids.
LEMMA ReclaimKeepsWire ==
    ASSUME TypeOK, InductiveInvariant, PoolOK(Pool, Busy), NEW m \in wire,
           Quarantined(m, retired_ids)
    PROVE  Quarantined(m, ReclaimIds(Pool).retired)
<1>1. PICK r \in retired_ids : r.id = m.id /\ r.reusable_at > m.sent_at + MaxDelay
  BY Zenon DEF Quarantined
<1>2. /\ now <= m.sent_at + MaxDelay /\ m.sent_at \in Nat /\ r.reusable_at \in Nat
      /\ now \in Nat /\ MaxDelay \in Nat
  BY DelayAssumption, Zenon DEF InductiveInvariant, WireInv, WireOK, TypeOK, RetiredId
<1>3. r.reusable_at > now
  BY <1>1, <1>2, SMTT(30)
<1>4. r \in Pool.retired
  BY Zenon DEF Pool
<1>5. r \in ReclaimIds(Pool).retired
  BY <1>2, <1>3, <1>4, ReclaimOK, Zenon
<1> QED BY <1>1, <1>5, Zenon DEF Quarantined

\* A query that cannot begin leaves the pool as reclaim_ids made it.
LEMMA BeginRefused ==
    ASSUME TypeOK, InductiveInvariant, NEW q \in Queries, running, state[q] = "Idle",
           NEW newState \in {"Completed", "Failed"}, NotBegun(q, newState),
           NEW p, PoolOK(p, Busy), p.retired = ReclaimIds(Pool).retired, SetPool(p)
    PROVE  /\ QueryInv' /\ PoolInv' /\ WireInv'
           /\ pool_failure' \in BOOLEAN /\ free_ids' \subseteq Space
           /\ retired_ids' \subseteq RetiredId /\ id_states' \in [Space -> IdStates]
<1>1. has_started /\ PoolOK(Pool, Busy)
  BY DEF InductiveInvariant, PoolInv, Unstarted
<1>2. /\ QueryInv' /\ Busy' = Busy
      /\ UNCHANGED <<slots, has_started, running, accepting, wire, now>>
  BY NotBegunStep, Zenon
<1>3. /\ Pool' = p /\ retired_ids' = p.retired
      /\ pool_failure' \in BOOLEAN /\ free_ids' \subseteq Space
      /\ retired_ids' \subseteq RetiredId /\ id_states' \in [Space -> IdStates]
  BY StoredPool, Zenon
<1>4. PoolInv'
  BY <1>1, <1>2, <1>3, Zenon DEF PoolInv
<1>5. WireInv'
  <2> SUFFICES ASSUME NEW m \in wire PROVE WireOK(m)'
    BY <1>2, Zenon DEF WireInv
  <2>1. /\ m.sent_at <= now /\ now <= m.sent_at + MaxDelay
        /\ slots[m.id] = m.query \/ Quarantined(m, retired_ids)
    BY Zenon DEF InductiveInvariant, WireInv, WireOK
  <2>2. CASE Quarantined(m, retired_ids)
    <3>1. Quarantined(m, retired_ids')
      BY <1>1, <1>3, <2>2, ReclaimKeepsWire, Zenon
    <3> QED BY <1>2, <2>1, <3>1, ZenonT(40) DEF WireOK
  <2> QED BY <1>2, <2>1, <2>2, Zenon DEF WireOK
<1> QED BY <1>2, <1>3, <1>4, <1>5, ZenonT(40)

\* A query that was sent holds an ID that no earlier transmission on the wire carries.
LEMMA BeginSuspendsStep ==
    ASSUME TypeOK, InductiveInvariant, NEW q \in Queries, BeginSuspends(q)
    PROVE  /\ QueryInv' /\ PoolInv' /\ WireInv'
           /\ pool_failure' \in BOOLEAN /\ free_ids' \subseteq Space
           /\ retired_ids' \subseteq RetiredId /\ id_states' \in [Space -> IdStates]
           /\ slots' \in [Space -> Queries \cup {Nobody}]
           /\ transaction_id' \in [Queries -> Space]
           /\ wire' \subseteq [query : Queries, id : Space, sent_at : Nat]
<1> DEFINE p == ReclaimIds(Pool)
<1>0. has_started /\ PoolOK(Pool, Busy) /\ QueryInv /\ WireInv /\ now \in Nat
  BY Zenon DEF BeginSuspends, InductiveInvariant, PoolInv, Unstarted, TypeOK
<1>1. PICK id \in Allocatable(p) :
         /\ SetPool(Allocate(p, id))
         /\ slots' = [slots EXCEPT ![id] = q]
         /\ transaction_id' = [transaction_id EXCEPT ![q] = id]
         /\ wire' = wire \cup {[query |-> q, id |-> id, sent_at |-> now]}
  BY Zenon DEF BeginSuspends
<1>2. /\ state[q] = "Idle" /\ state' = [state EXCEPT ![q] = "Pending"]
      /\ armed' = armed \cup {q} /\ pending_count' = pending_count + 1
      /\ UNCHANGED <<has_started, now>>
  BY DEF BeginSuspends, channelVars
<1>3. PoolOK(p, Busy)
  BY <1>0, ReclaimOK
<1>4. /\ PoolOK(Allocate(p, id), Busy \cup {id}) /\ Allocate(p, id).retired = p.retired
      /\ id \in Ids /\ id \notin Busy
  <2> HIDE DEF p
  <2> QED BY <1>1, <1>3, AllocateOK
<1>5. id \in Space /\ slots[id] = Nobody
  BY <1>4, IdsInSpace DEF Busy
<1>6. /\ Pool' = Allocate(p, id) /\ retired_ids' = p.retired
      /\ pool_failure' \in BOOLEAN /\ free_ids' \subseteq Space
      /\ retired_ids' \subseteq RetiredId /\ id_states' \in [Space -> IdStates]
  BY <1>1, <1>4, StoredPool, ZenonT(40)
<1>7. Busy' = Busy \cup {id}
  BY <1>1, <1>5, QueriesAssumption, SMTT(30) DEF Busy, TypeOK
<1>8. PoolInv'
  BY <1>0, <1>2, <1>4, <1>6, <1>7, Zenon DEF PoolInv
<1>9. QueryInv'
  <2>0. q \notin armed
    BY <1>0, <1>2, Zenon DEF QueryInv
  <2>1. armed' = {r \in Queries : state'[r] = "Pending"}
    BY <1>0, <1>2, SMTT(30) DEF QueryInv, TypeOK
  <2>2. \A r \in armed : transaction_id[r] # id
    BY <1>0, <1>5, QueriesAssumption, ZenonT(40) DEF QueryInv, TypeOK
  <2>3. \A r \in armed' : slots'[transaction_id'[r]] = r
    BY <1>0, <1>1, <1>2, <1>5, <2>0, <2>2, SMTT(30) DEF QueryInv, TypeOK
  <2>4. \A i \in Busy' : slots'[i] \in armed' /\ transaction_id'[slots'[i]] = i
    BY <1>0, <1>1, <1>2, <1>5, <1>7, <2>0, ZenonT(40) DEF QueryInv, TypeOK, Busy
  <2>5. pending_count' = Cardinality(armed')
    <3>1. IsFiniteSet(armed)
      BY QueriesAssumption, FS_Subset DEF TypeOK
    <3> QED BY <1>0, <1>2, <2>0, <3>1, FS_AddElement, ZenonT(40) DEF QueryInv
  <2> QED BY <2>1, <2>3, <2>4, <2>5, Zenon DEF QueryInv
<1>10. WireInv'
  <2> SUFFICES ASSUME NEW m \in wire' PROVE WireOK(m)'
    BY DEF WireInv
  <2>1. CASE m = [query |-> q, id |-> id, sent_at |-> now]
    BY <1>0, <1>1, <1>2, <1>5, <2>1, DelayAssumption DEF WireOK, TypeOK
  <2>2. CASE m \in wire
    <3>1. /\ m.sent_at <= now /\ now <= m.sent_at + MaxDelay
          /\ slots[m.id] = m.query \/ Quarantined(m, retired_ids)
      BY <1>0, <2>2, Zenon DEF WireInv, WireOK
    <3>2. m.query \in Queries /\ m.id \in Space
      BY <2>2, Zenon DEF TypeOK
    <3>3. CASE slots[m.id] = m.query
      BY <1>1, <1>2, <1>5, <3>1, <3>2, <3>3, QueriesAssumption, ZenonT(40) DEF
         WireOK, TypeOK
    <3>4. CASE Quarantined(m, retired_ids)
      <4>1. Quarantined(m, retired_ids')
        BY <1>0, <1>6, <2>2, <3>4, ReclaimKeepsWire, ZenonT(40)
      <4> QED BY <1>2, <3>1, <4>1, Zenon DEF WireOK
    <3> QED BY <3>1, <3>3, <3>4
  <2> QED BY <1>1, <2>1, <2>2
<1>11. /\ slots' \in [Space -> Queries \cup {Nobody}] /\ transaction_id' \in [Queries -> Space]
       /\ wire' \subseteq [query : Queries, id : Space, sent_at : Nat]
  BY <1>0, <1>1, <1>5, SMTT(30) DEF TypeOK
<1> QED BY <1>6, <1>8, <1>9, <1>10, <1>11, ZenonT(40)

\* start() audits a pool that is sound, so it succeeds whenever nothing is pending.
LEMMA StartStep ==
    ASSUME TypeOK, InductiveInvariant, Start
    PROVE  TypeOK' /\ InductiveInvariant' /\ running'
<1> DEFINE p == IF has_started THEN ReclaimIds(Pool) ELSE initialize_id_pool
           s == [p EXCEPT !.ok = @ /\ ValidIdPool(p)]
<1>0. /\ pending_count = 0 /\ QueryInv /\ WireInv /\ PoolInv /\ now \in Nat
      /\ UNCHANGED <<slots, pending_count, queryVars, wire, now>>
      /\ SetPool(s) /\ running' = ValidIdPool(p) /\ accepting' = ValidIdPool(p)
      /\ has_started' = (has_started \/ ValidIdPool(p))
  BY DEF Start, InductiveInvariant, TypeOK
<1>1. Busy = {}
  <2>1. IsFiniteSet(armed)
    BY QueriesAssumption, FS_Subset, Zenon DEF TypeOK
  <2>2. armed = {}
    BY <1>0, <2>1, FS_EmptySet, Zenon DEF QueryInv
  <2> QED BY <1>0, <2>2, Zenon DEF QueryInv
<1>2. PoolOK(p, {})
  <2>1. CASE has_started
    <3>1. PoolOK(Pool, Busy)
      BY <1>0, <2>1, Zenon DEF PoolInv
    <3>2. PoolOK(ReclaimIds(Pool), Busy)
      BY <1>0, <3>1, ReclaimOK, Zenon
    <3> QED BY <1>1, <2>1, <3>2, Zenon
  <2>2. CASE ~has_started
    <3>1. ~pool_failure
      BY <1>0, <2>2, Zenon DEF PoolInv, Unstarted
    <3> QED BY <2>2, <3>1, InitialPoolOK, Zenon
  <2> QED BY <2>1, <2>2, Zenon
<1> HIDE DEF p
<1>3. ValidIdPool(p) = TRUE
  <2>1. ValidIdPool(p)
    BY <1>0, <1>1, <1>2, AuditPasses, ZenonT(40)
  <2>2. ValidIdPool(p) \in BOOLEAN
    BY DEF ValidIdPool
  <2> QED BY <2>1, <2>2, Zenon
<1>4. s = p
  <2>1. p = [free |-> p.free, retired |-> p.retired, states |-> p.states, ok |-> p.ok]
        /\ p.ok = TRUE
    BY <1>2, PoolFields, Zenon
  <2> QED BY <1>3, <2>1, Zenon
<1>5. running' /\ accepting' \in BOOLEAN /\ running' \in BOOLEAN /\ has_started' = TRUE
  BY <1>0, <1>3, Zenon DEF TypeOK
<1>6. SetPool(p)
  BY <1>0, <1>4
<1>7. /\ Pool' = p /\ retired_ids' = p.retired
      /\ pool_failure' \in BOOLEAN /\ free_ids' \subseteq Space
      /\ retired_ids' \subseteq RetiredId /\ id_states' \in [Space -> IdStates]
  BY <1>2, <1>6, StoredPool, Zenon
<1>8. TypeOK'
  BY <1>0, <1>5, <1>7, ZenonT(40) DEF TypeOK, queryVars
<1>9. Busy' = Busy
  BY <1>0, Zenon DEF Busy
<1>10. PoolInv'
  BY <1>1, <1>2, <1>5, <1>7, <1>9, ZenonT(40) DEF PoolInv
<1>11. QueryInv' /\ ResponseIsOwn'
  BY <1>0, <1>9, Zenon DEF QueryInv, ResponseIsOwn, InductiveInvariant, queryVars
<1>12. WireInv'
  <2> SUFFICES ASSUME NEW m \in wire PROVE WireOK(m)'
    BY <1>0 DEF WireInv
  <2>1. has_started /\ PoolOK(Pool, Busy)
    BY <1>0 DEF PoolInv, Unstarted
  <2>2. m.sent_at <= now /\ now <= m.sent_at + MaxDelay
    BY <1>0 DEF WireInv, WireOK
  <2>3. Quarantined(m, retired_ids)
    <3>1. slots[m.id] # m.query
      BY <1>1, QueriesAssumption, ZenonT(40) DEF Busy, TypeOK
    <3> QED BY <1>0, <3>1, Zenon DEF WireInv, WireOK
  <2>4. Quarantined(m, retired_ids')
    BY <1>7, <2>1, <2>3, ReclaimKeepsWire, Zenon DEF p
  <2> QED BY <1>0, <2>2, <2>4, ZenonT(40) DEF WireOK
<1> QED BY <1>5, <1>8, <1>10, <1>11, <1>12, Zenon DEF InductiveInvariant

\* What touches neither the pool nor a query keeps their invariants.
LEMMA QuietStep ==
    ASSUME QueryInv, PoolInv, ResponseIsOwn, UNCHANGED <<poolVars, channelVars, queryVars>>,
           wire' \subseteq wire
    PROVE  QueryInv' /\ PoolInv' /\ ResponseIsOwn'
<1>1. Busy' = Busy /\ Pool' = Pool
  BY Zenon DEF poolVars, Busy, Pool
<1>2. QueryInv'
  BY <1>1, Zenon DEF QueryInv, poolVars, queryVars
<1>3. PoolInv'
  BY <1>1 DEF PoolInv, Unstarted, poolVars, channelVars
<1>4. ResponseIsOwn'
  BY Zenon DEF ResponseIsOwn, queryVars
<1> QED BY <1>2, <1>3, <1>4

\* Every step keeps the invariant.
LEMMA InvariantStep ==
    TypeOK /\ InductiveInvariant /\ [Next]_vars => TypeOK' /\ InductiveInvariant'
<1> SUFFICES ASSUME TypeOK, InductiveInvariant, [Next]_vars
             PROVE  TypeOK' /\ InductiveInvariant'
  OBVIOUS
<1>0. QueryInv /\ PoolInv /\ WireInv /\ ResponseIsOwn
  BY DEF InductiveInvariant
<1>1. CASE Start
  BY <1>1, StartStep, Zenon
<1>2. CASE Close
  <2>1. TypeOK'
    BY <1>2, Zenon DEF Close, TypeOK, poolVars, queryVars
  <2> QED BY <1>0, <1>2, <2>1, Zenon DEF Close, InductiveInvariant, QueryInv,
             PoolInv, Unstarted, Pool, Busy, WireInv, WireOK, Quarantined,
             ResponseIsOwn, poolVars, queryVars
<1>3. CASE Stop
  <2>1. has_started /\ PoolOK(Pool, Busy) /\ pending_count = 0
    BY <1>0, <1>3, Zenon DEF Stop, PoolInv, Unstarted
  <2>2. ValidIdPool(Pool)
    <3>1. IsFiniteSet(armed)
      BY QueriesAssumption, FS_Subset, ZenonT(40) DEF TypeOK
    <3>2. armed = {}
      BY <1>0, <2>1, <3>1, FS_EmptySet, ZenonT(40) DEF QueryInv
    <3>3. Busy = {}
      BY <1>0, <3>2 DEF QueryInv
    <3> QED BY <2>1, <3>3, AuditPasses, Zenon
  <2>3. /\ pool_failure' = pool_failure /\ running' = FALSE /\ accepting' = FALSE
        /\ UNCHANGED <<slots, id_states, free_ids, retired_ids, pending_count, has_started,
                       queryVars, wire, now>>
    BY <1>3, <2>2, Zenon DEF Stop, TypeOK
  <2>4. TypeOK'
    BY <2>3, Zenon DEF TypeOK, queryVars
  <2> QED BY <1>0, <2>1, <2>3, <2>4, Zenon DEF InductiveInvariant, QueryInv,
             PoolInv, Pool, Busy, WireInv, WireOK, Quarantined, ResponseIsOwn,
             queryVars
<1>4. CASE Tick
  <2>1. TypeOK'
    BY <1>4 DEF Tick, TypeOK, poolVars, channelVars, queryVars
  <2>2. QueryInv' /\ PoolInv' /\ ResponseIsOwn'
    BY <1>0, <1>4, QuietStep, Zenon DEF Tick
  <2>3. WireInv'
    BY <1>0, <1>4 DEF Tick, WireInv, WireOK, Quarantined, TypeOK, poolVars
  <2> QED BY <2>1, <2>2, <2>3 DEF InductiveInvariant
<1>5. ASSUME NEW q \in Queries, BeginClosed(q) PROVE TypeOK' /\ InductiveInvariant'
  <2>1. /\ state[q] = "Idle" /\ NotBegun(q, "Completed")
        /\ UNCHANGED <<id_states, free_ids, retired_ids, pool_failure>>
    BY <1>5 DEF BeginClosed
  <2>2. QueryInv' /\ WireInv' /\ Busy' = Busy
        /\ UNCHANGED <<slots, has_started, running, accepting, wire, now>>
    BY <2>1, NotBegunStep
  <2>3. PoolInv'
    BY <1>0, <2>1, <2>2 DEF PoolInv, Unstarted, Pool
  <2>4. TypeOK' /\ ResponseIsOwn'
    BY <1>0, <2>1 DEF NotBegun, TypeOK, Outcomes, channelVars, ResponseIsOwn
  <2> QED BY <2>2, <2>3, <2>4 DEF InductiveInvariant
<1>6. ASSUME NEW q \in Queries, BeginOverloaded(q) PROVE TypeOK' /\ InductiveInvariant'
  <2>1. /\ running /\ state[q] = "Idle" /\ NotBegun(q, "Completed") /\ now \in Nat
        /\ SetPool(ReclaimIds(Pool))
    BY <1>6, Zenon DEF BeginOverloaded, TypeOK
  <2>2. PoolOK(ReclaimIds(Pool), Busy)
    <3>1. PoolOK(Pool, Busy)
      BY <1>0, <2>1 DEF PoolInv, Unstarted
    <3> QED BY <2>1, <3>1, ReclaimOK, Zenon
  <2>3. /\ QueryInv' /\ PoolInv' /\ WireInv'
        /\ pool_failure' \in BOOLEAN /\ free_ids' \subseteq Space
        /\ retired_ids' \subseteq RetiredId /\ id_states' \in [Space -> IdStates]
    BY <2>1, <2>2, BeginRefused, ZenonT(40)
  <2>4. TypeOK' /\ ResponseIsOwn'
    BY <1>0, <2>1, <2>3, ZenonT(40) DEF NotBegun, TypeOK, Outcomes, channelVars,
       ResponseIsOwn
  <2> QED BY <2>3, <2>4 DEF InductiveInvariant
<1>7. ASSUME NEW q \in Queries, BeginFails(q) PROVE TypeOK' /\ InductiveInvariant'
  <2> DEFINE p == ReclaimIds(Pool)
  <2>1. running /\ state[q] = "Idle" /\ now \in Nat
    BY <1>7, Zenon DEF BeginFails, TypeOK
  <2>2. PICK id \in Allocatable(p) : SetPool(Release(Allocate(p, id), {id}, FALSE))
    BY <1>7, Zenon DEF BeginFails
  <2>3. PICK newState \in {"Completed", "Failed"} : NotBegun(q, newState)
    BY <1>7 DEF BeginFails
  <2>4. PoolOK(p, Busy)
    <3>1. PoolOK(Pool, Busy)
      BY <1>0, <2>1 DEF PoolInv, Unstarted
    <3> QED BY <2>1, <3>1, ReclaimOK
  <2> HIDE DEF p
  <2>5. /\ PoolOK(Allocate(p, id), Busy \cup {id}) /\ Allocate(p, id).retired = p.retired
        /\ id \notin Busy
    BY <2>2, <2>4, AllocateOK
  <2> DEFINE r == Release(Allocate(p, id), {id}, FALSE)
  <2>6. PoolOK(r, (Busy \cup {id}) \ {id}) /\ r.retired = Allocate(p, id).retired
    <3>1. {id} \in SUBSET (Busy \cup {id}) /\ FALSE \in BOOLEAN
      BY Zenon
    <3>2. /\ PoolOK(r, (Busy \cup {id}) \ {id})
          /\ ~FALSE => r.retired = Allocate(p, id).retired
      BY <2>1, <2>5, <3>1, ReleaseOK, ZenonT(40)
    <3> QED BY <3>2, Zenon
  <2>7. (Busy \cup {id}) \ {id} = Busy
    BY <2>5
  <2>8. PoolOK(r, Busy) /\ r.retired = ReclaimIds(Pool).retired /\ SetPool(r)
    BY <2>2, <2>5, <2>6, <2>7, Zenon DEF p
  <2> HIDE DEF r
  <2>9. /\ QueryInv' /\ PoolInv' /\ WireInv'
        /\ pool_failure' \in BOOLEAN /\ free_ids' \subseteq Space
        /\ retired_ids' \subseteq RetiredId /\ id_states' \in [Space -> IdStates]
    BY <2>1, <2>3, <2>8, BeginRefused, Zenon
  <2>10. TypeOK' /\ ResponseIsOwn'
    BY <1>0, <2>3, <2>9 DEF NotBegun, TypeOK, Outcomes, channelVars, ResponseIsOwn
  <2> QED BY <2>9, <2>10, Zenon DEF InductiveInvariant
<1>8. ASSUME NEW q \in Queries, BeginSuspends(q) PROVE TypeOK' /\ InductiveInvariant'
  <2>1. /\ QueryInv' /\ PoolInv' /\ WireInv'
        /\ pool_failure' \in BOOLEAN /\ free_ids' \subseteq Space
        /\ retired_ids' \subseteq RetiredId /\ id_states' \in [Space -> IdStates]
        /\ slots' \in [Space -> Queries \cup {Nobody}]
        /\ transaction_id' \in [Queries -> Space]
        /\ wire' \subseteq [query : Queries, id : Space, sent_at : Nat]
    BY <1>8, BeginSuspendsStep, ZenonT(40)
  <2>2. PICK d \in now .. now + query_timeout : deadline' = [deadline EXCEPT ![q] = d]
    BY <1>8, ZenonT(40) DEF BeginSuspends
  <2>3. deadline' \in [Queries -> Nat]
    BY <2>2, ConfigAssumption DEF TypeOK
  <2>4. /\ state' \in [Queries -> {"Idle", "Pending", "Completed", "Failed"}]
        /\ armed' \subseteq Queries /\ pending_count' \in Nat
        /\ UNCHANGED <<running, accepting, has_started, outcome, response_to, scheduled, now>>
    BY <1>8 DEF BeginSuspends, TypeOK, channelVars
  <2>5. TypeOK'
    BY <2>1, <2>3, <2>4, Zenon DEF TypeOK
  <2>6. ResponseIsOwn'
    BY <1>0, <2>4, Zenon DEF ResponseIsOwn
  <2> QED BY <2>1, <2>5, <2>6, Zenon DEF InductiveInvariant
<1>9. ASSUME NEW S \in SUBSET armed, S # {}, NEW result \in Outcomes, Complete(S, result),
             response_to' \in [Queries -> Queries \cup {Nobody}],
             scheduled' \in [Queries -> Nat], ResponseIsOwn'
      PROVE  TypeOK' /\ InductiveInvariant'
  BY <1>9, CompleteStep, CompleteTypes, Zenon DEF InductiveInvariant
<1>10. ASSUME NEW S \in SUBSET armed, NEW result \in {"Timeout", "Error"},
              Complete(S, result), UNCHANGED response_to
       PROVE  ResponseIsOwn'
  BY <1>0, <1>10, Zenon DEF Complete, ResponseIsOwn
<1>11. Pending = armed /\ armed \subseteq Queries
  BY <1>0, PendingIsArmed, Zenon DEF TypeOK
<1>12. ASSUME NEW S \in SUBSET armed, ScheduleTasks(S) \/ UNCHANGED scheduled
       PROVE  scheduled' \in [Queries -> Nat]
  BY <1>12 DEF ScheduleTasks, TypeOK
<1>13. ASSUME NEW q \in Queries, Abandon(q) PROVE TypeOK' /\ InductiveInvariant'
  <2>1. /\ {q} \in SUBSET armed /\ {q} # {} /\ "Error" \in Outcomes /\ "Error" \in {"Timeout", "Error"}
        /\ Complete({q}, "Error")
        /\ UNCHANGED <<response_to, scheduled>>
    BY <1>11, <1>13, ZenonT(40) DEF Abandon, Outcomes
  <2>2. response_to' \in [Queries -> Queries \cup {Nobody}] /\ scheduled' \in [Queries -> Nat]
    BY <2>1 DEF TypeOK
  <2>3. ResponseIsOwn'
    BY <1>10, <2>1, Zenon
  <2> QED BY <1>9, <2>1, <2>2, <2>3, Zenon
<1>14. ASSUME NEW q \in Queries, FinishDeadline(q) PROVE TypeOK' /\ InductiveInvariant'
  <2>1. PICK result \in {"Timeout", "Error"} : Complete({q}, result)
    BY <1>14, Zenon DEF FinishDeadline
  <2>2. /\ {q} \in SUBSET armed /\ {q} # {} /\ result \in Outcomes
        /\ ScheduleTasks({q}) /\ UNCHANGED response_to
    BY <1>14, Zenon DEF FinishDeadline, Outcomes
  <2>3. response_to' \in [Queries -> Queries \cup {Nobody}] /\ scheduled' \in [Queries -> Nat]
    BY <1>12, <2>2, ZenonT(40) DEF TypeOK
  <2>4. ResponseIsOwn'
    BY <1>10, <2>1, <2>2, Zenon
  <2> QED BY <1>9, <2>1, <2>2, <2>3, <2>4, Zenon
<1>15. ASSUME NEW m \in wire, HandleDatagram(m) PROVE TypeOK' /\ InductiveInvariant'
  <2> DEFINE q == slots[m.id]
  <2>0. m.query \in Queries /\ m.id \in Space
    BY DEF TypeOK
  <2>1. q \in armed /\ q = m.query /\ q \in Queries
    <3>1. q \in armed /\ q # Nobody
      BY <1>11, <1>15, Zenon DEF HandleDatagram
    <3>2. m.id \in Busy /\ has_started /\ PoolOK(Pool, Busy)
      BY <1>0, <2>0, <3>1, Zenon DEF Busy, PoolInv, Unstarted
    <3>3. ~ Quarantined(m, retired_ids)
      <4>1. Pool.retired = retired_ids /\ Pool.states = id_states
        BY Zenon DEF Pool
      <4>2. m.id \in Ids /\ id_states[m.id] = "Pending"
        BY <3>2, <4>1, Zenon DEF PoolOK
      <4> QED BY <3>2, <4>1, <4>2, Zenon DEF PoolOK, Quarantined
    <3> QED BY <1>0, <1>11, <3>1, <3>3 DEF WireInv, WireOK
  <2> HIDE DEF q
  <2>2. \/ Complete({q}, "Response") /\ response_to' = [response_to EXCEPT ![q] = m.query]
        \/ Complete({q}, "Error") /\ UNCHANGED response_to
    BY <1>15, Zenon DEF HandleDatagram, q
  <2>3. {q} \in SUBSET armed /\ {q} # {} /\ {"Response", "Error"} \subseteq Outcomes
    BY <2>1, Zenon DEF Outcomes
  <2>4. response_to' \in [Queries -> Queries \cup {Nobody}]
    BY <2>0, <2>2, ZenonT(40) DEF TypeOK
  <2>5. scheduled' \in [Queries -> Nat]
    <3>1. ScheduleTasks({q})
      BY <1>15 DEF HandleDatagram, q
    <3> QED BY <1>12, <2>3, <3>1, ZenonT(40)
  <2>6. ResponseIsOwn'
    <3>1. CASE /\ Complete({q}, "Response")
               /\ response_to' = [response_to EXCEPT ![q] = m.query]
      <4>1. \A r \in Queries : r # q => /\ outcome'[r] = outcome[r]
                                        /\ response_to'[r] = response_to[r]
        BY <3>1, ZenonT(40) DEF Complete, TypeOK
      <4>2. response_to'[q] = q
        BY <2>1, <3>1, ZenonT(40) DEF TypeOK
      <4> QED BY <1>0, <4>1, <4>2, ZenonT(40) DEF ResponseIsOwn
    <3>2. CASE Complete({q}, "Error") /\ UNCHANGED response_to
      BY <1>10, <2>3, <3>2
    <3> QED BY <2>2, <3>1, <3>2, Zenon
  <2> QED BY <1>9, <2>2, <2>3, <2>4, <2>5, <2>6, ZenonT(40)
<1>16. CASE FailAll
  <2>1. /\ Complete(armed, "Error") /\ armed # {} /\ armed \in SUBSET armed
        /\ "Error" \in Outcomes /\ "Error" \in {"Timeout", "Error"}
        /\ ScheduleTasks(armed) /\ UNCHANGED response_to
    BY <1>11, <1>16, Zenon DEF FailAll, Outcomes
  <2>2. response_to' \in [Queries -> Queries \cup {Nobody}] /\ scheduled' \in [Queries -> Nat]
    BY <1>12, <2>1, ZenonT(40) DEF TypeOK
  <2>3. ResponseIsOwn'
    BY <1>10, <2>1, Zenon
  <2> QED BY <1>9, <2>1, <2>2, <2>3, Zenon
<1>17. CASE UNCHANGED vars
  <2>1. UNCHANGED <<poolVars, channelVars, queryVars, wire, now>>
    BY <1>17, Zenon DEF vars
  <2>2. TypeOK'
    BY <2>1, Zenon DEF TypeOK, poolVars, channelVars, queryVars
  <2>3. QueryInv' /\ PoolInv' /\ ResponseIsOwn'
    BY <1>0, <2>1, QuietStep, Zenon
  <2>4. WireInv'
    BY <1>0, <2>1 DEF WireInv, WireOK, Quarantined, poolVars
  <2> QED BY <2>2, <2>3, <2>4 DEF InductiveInvariant
<1> QED BY <1>1, <1>2, <1>3, <1>4, <1>5, <1>6, <1>7, <1>8, <1>13, <1>14, <1>15,
           <1>16, <1>17, ZenonT(40) DEF Next

-----------------------------------------------------------------------------
\* A new channel satisfies the invariant.
LEMMA InitInvariant == Init => TypeOK /\ InductiveInvariant
<1> SUFFICES ASSUME Init PROVE TypeOK /\ InductiveInvariant
  OBVIOUS
<1>1. 0 \in Space
  BY ConfigAssumption DEF Space
<1>2. TypeOK
  BY <1>1, Zenon DEF Init, TypeOK, IdStates, Outcomes
<1>3. Busy = {}
  BY DEF Init, Busy
<1>4. QueryInv
  BY <1>3, FS_EmptySet DEF Init, QueryInv
<1>5. PoolInv /\ WireInv /\ ResponseIsOwn
  BY <1>3 DEF Init, PoolInv, Unstarted, WireInv, ResponseIsOwn
<1> QED BY <1>2, <1>4, <1>5 DEF InductiveInvariant

\* The invariant holds in every reachable state.
THEOREM Invariance == Spec => [](TypeOK /\ InductiveInvariant)
<1> QED BY InitInvariant, InvariantStep, PTL DEF Spec

\* No ID leaks and none is in two places, pending_count_ is exact, and none of the
\* channel's own pool checks ever fails, for any number of queries and IDs.
THEOREM PoolIsPartitioned == Spec => []IdsArePartitioned
<1>1. TypeOK /\ InductiveInvariant => IdsArePartitioned
  <2> SUFFICES ASSUME TypeOK, InductiveInvariant PROVE IdsArePartitioned
    OBVIOUS
  <2>0. QueryInv /\ PoolInv
    BY Zenon DEF InductiveInvariant
  <2>1. armed = {q \in Queries : state[q] = "Pending"} /\ armed = Pending
        /\ pending_count = Cardinality(armed)
    BY <2>0, PendingIsArmed, Zenon DEF QueryInv
  <2>2. {id \in Space : slots[id] # Nobody} = {transaction_id[q] : q \in armed}
    BY <2>0, QueriesAssumption, SMTT(30) DEF QueryInv, Busy, TypeOK
  <2>3. CASE ~has_started
    BY <2>0, <2>1, <2>2, <2>3, Zenon DEF PoolInv, Unstarted, IdsArePartitioned
  <2>4. CASE has_started
    <3>1. PoolOK(Pool, Busy)
      BY <2>0, <2>4 DEF PoolInv
    <3>2. /\ Pool.free = free_ids /\ Pool.retired = retired_ids
          /\ Pool.states = id_states /\ Pool.ok = ~pool_failure
      BY DEF Pool
    <3>a. /\ Pool.ok
          /\ \A id \in Ids :
                /\ (id \in Pool.free) <=> Pool.states[id] = "Free"
                /\ (\E r \in Pool.retired : r.id = id) <=> Pool.states[id] = "Retired"
                /\ (id \in Busy) <=> Pool.states[id] = "Pending"
          /\ \A r, s \in Pool.retired : r.id = s.id => r = s
      BY <3>1, Zenon DEF PoolOK
    <3>3. /\ ~pool_failure
          /\ \A id \in Ids :
                /\ (id \in free_ids) <=> id_states[id] = "Free"
                /\ (\E r \in retired_ids : r.id = id) <=> id_states[id] = "Retired"
                /\ (id \in Busy) <=> id_states[id] = "Pending"
                /\ \A r, s \in retired_ids : r.id = id /\ s.id = id => r = s
      BY <3>2, <3>a, ZenonT(40)
    <3>4. \A id \in Ids : (slots[id] # Nobody) <=> id \in Busy
      BY IdsInSpace DEF Busy
    <3>5. \A id \in Ids : \A q \in Queries :
             slots[id] = q => state[q] = "Pending" /\ transaction_id[q] = id
      BY <2>0, <2>1, <3>4, QueriesAssumption, ZenonT(40) DEF QueryInv
    <3> QED BY <2>1, <2>2, <3>3, <3>4, <3>5, Zenon DEF IdsArePartitioned
  <2> QED BY <2>3, <2>4, Zenon
<1> QED BY <1>1, Invariance, PTL

\* A response completes the query whose transmission it answers, never a later query
\* that reuses the transaction ID, as long as the network is faster than id_reuse_guard.
THEOREM ResponsesAreOwn == Spec => []ResponseIsOwn
<1>1. InductiveInvariant => ResponseIsOwn
  BY DEF InductiveInvariant
<1> QED BY <1>1, Invariance, PTL

\* A wait that has ended keeps its outcome, and its task is not scheduled again.
THEOREM WaitsEndOnce == Spec => CompletesOnce
<1> DEFINE Kept(q) == state[q] \in {"Completed", "Failed"} => /\ state'[q] = state[q]
                                                              /\ outcome'[q] = outcome[q]
                                                              /\ scheduled'[q] = scheduled[q]
<1>1. TypeOK /\ InductiveInvariant /\ [Next]_vars => \A q \in Queries : Kept(q)
  <2> SUFFICES ASSUME TypeOK, InductiveInvariant, [Next]_vars, NEW q \in Queries,
                      state[q] \in {"Completed", "Failed"}
               PROVE  /\ state'[q] = state[q] /\ outcome'[q] = outcome[q]
                      /\ scheduled'[q] = scheduled[q]
    BY Zenon
  <2>1. Pending = armed /\ q \notin armed /\ armed \subseteq Queries
    BY PendingIsArmed, Zenon DEF InductiveInvariant, QueryInv, TypeOK
  <2>2. CASE UNCHANGED <<state, outcome, scheduled>>
    BY <2>2, Zenon
  <2>3. CASE Start \/ Close \/ Stop \/ Tick \/ UNCHANGED vars
    BY <2>2, <2>3, ZenonT(40) DEF Start, Close, Stop, Tick, vars, queryVars
  <2>4. ASSUME NEW r \in Queries, state[r] = "Idle", NEW s, NotBegun(r, s)
        PROVE  /\ state'[q] = state[q] /\ outcome'[q] = outcome[q]
               /\ scheduled'[q] = scheduled[q]
    BY <2>4, ZenonT(40) DEF NotBegun, TypeOK
  <2>5. ASSUME NEW r \in Queries,
               BeginClosed(r) \/ BeginOverloaded(r) \/ BeginFails(r)
        PROVE  /\ state'[q] = state[q] /\ outcome'[q] = outcome[q]
               /\ scheduled'[q] = scheduled[q]
    BY <2>4, <2>5, ZenonT(40) DEF BeginClosed, BeginOverloaded, BeginFails
  <2>6. ASSUME NEW r \in Queries, BeginSuspends(r)
        PROVE  /\ state'[q] = state[q] /\ outcome'[q] = outcome[q]
               /\ scheduled'[q] = scheduled[q]
    BY <2>6, ZenonT(40) DEF BeginSuspends, TypeOK
  <2>7. ASSUME NEW S \in SUBSET armed, NEW result, Complete(S, result),
               ScheduleTasks(S) \/ UNCHANGED scheduled
        PROVE  /\ state'[q] = state[q] /\ outcome'[q] = outcome[q]
               /\ scheduled'[q] = scheduled[q]
    BY <2>1, <2>7, ZenonT(40) DEF Complete, ScheduleTasks
  <2>8. ASSUME NEW r \in Queries, Abandon(r) \/ FinishDeadline(r)
        PROVE  \E S \in SUBSET armed : \E result :
                   Complete(S, result) /\ (ScheduleTasks(S) \/ UNCHANGED scheduled)
    <3>1. {r} \in SUBSET armed
      BY <2>1, <2>8, Zenon DEF Abandon, FinishDeadline
    <3> QED BY <2>8, <3>1, ZenonT(40) DEF Abandon, FinishDeadline
  <2>9. ASSUME NEW m \in wire, HandleDatagram(m)
        PROVE  \E S \in SUBSET armed : \E result :
                   Complete(S, result) /\ (ScheduleTasks(S) \/ UNCHANGED scheduled)
    <3>1. {slots[m.id]} \in SUBSET armed
      BY <2>1, <2>9, Zenon DEF HandleDatagram
    <3> QED BY <2>9, <3>1, ZenonT(40) DEF HandleDatagram
  <2>10. CASE FailAll
    BY <2>1, <2>7, <2>10, Zenon DEF FailAll
  <2> QED BY <2>3, <2>5, <2>6, <2>7, <2>8, <2>9, <2>10, ZenonT(40) DEF Next
<1> QED BY <1>1, Invariance, PTL DEF Spec, CompletesOnce

=============================================================================

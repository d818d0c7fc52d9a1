----------------------------- MODULE CacheShard -----------------------------
(***************************************************************************)
(* A worker's shard of the response cache (DNS_Cache, CachePolicy).  A     *)
(* shard is a record: entries_ (a slot is an entry or Empty), index_ (from *)
(* keys to slots) and the CLOCK hand.  Time is in ticks, TicksPerSecond of *)
(* them to a second, because expiry is finer than the TTLs sent out.       *)
(*                                                                         *)
(* An upstream answer is a record: `plain' when it is a NoError answer to  *)
(* the question, complete and with nothing but addresses in it, and the    *)
(* TTLs of its records.                                                    *)
(***************************************************************************)
EXTENDS Integers, Sequences, FiniteSets, Functions, FiniteSetsExt

CONSTANTS
    Keys, Empty, TicksPerSecond,
    Answers,                       \* what the upstream may answer
    total_capacity, shard_count,   \* of the cache; the shard is its first
    MaxTime                        \* bound of the clock

\* DNS_Cache wants at least one shard; TTLs are what the upstream sent
ASSUME CacheAssumption ==
    /\ shard_count \in Nat \ {0} /\ total_capacity \in Nat /\ TicksPerSecond \in Nat \ {0}
    /\ \A answer \in Answers : answer.ttls \in Seq(Nat)
    /\ Empty \notin [key : Keys, answer : Answers, put_at : Nat, expiry : Nat, chance : BOOLEAN]

VARIABLE cache   \* the shard, and the time

EmptyShard == [entries |-> << >>, index |-> << >>, hand |-> 0]

\* CacheShard::hand_ and slot indices count from 0
SlotAt(shard, i) == shard.entries[i + 1]

Entry(key, answer, now, ttl) ==
    [key |-> key, answer |-> answer, put_at |-> now,
     expiry |-> now + ttl * TicksPerSecond, chance |-> TRUE]

Expired(entry, now) == now >= entry.expiry

Without(index, key) == RestrictDomain(index, LAMBDA k : k # key)

With(index, key, slot) ==
    [k \in DOMAIN index \cup {key} |-> IF k = key THEN slot ELSE index[k]]

-----------------------------------------------------------------------------
(* CacheShard::get: an expired entry is removed; a hit is marked as used *)

Hit(shard, key, now) == key \in DOMAIN shard.index /\ ~Expired(SlotAt(shard, shard.index[key]), now)

\* seconds left, rounded up
remaining_ttl(entry, now) == -((now - entry.expiry) \div TicksPerSecond)

get(shard, key, now) ==
    CASE key \notin DOMAIN shard.index -> shard
      [] Hit(shard, key, now) -> [shard EXCEPT !.entries[shard.index[key] + 1].chance = TRUE]
      [] OTHER -> [shard EXCEPT !.entries[shard.index[key] + 1] = Empty,
                                !.index = Without(@, key)]

-----------------------------------------------------------------------------
(* CacheShard::put *)

\* mutant: the replaced entry's key stays in the index
ReplaceKeepingKey(shard, slot, entry) ==
    [shard EXCEPT !.entries[slot + 1] = entry, !.index = With(@, entry.key, slot)]

replace_slot(shard, slot, entry) ==
    LET old == SlotAt(shard, slot)
        index == IF old = Empty THEN shard.index ELSE Without(shard.index, old.key)
    IN  [shard EXCEPT !.entries[slot + 1] = entry, !.index = With(index, entry.key, slot)]

Replaceable(slot, now) == slot = Empty \/ Expired(slot, now) \/ ~slot.chance

\* The hand passes over the entries that still have their chance and takes it
\* from them.  If all have theirs, the code's loop comes round to the first slot,
\* which has lost its own: that is d = capacity.
Evict(shard, capacity, entry, now) ==
    LET At(d)   == (shard.hand + d) % capacity
        passed  == Min({d \in 0 .. capacity : \/ d = capacity
                                              \/ Replaceable(SlotAt(shard, At(d)), now)})
        cleared == [shard EXCEPT !.entries =
                       [i \in DOMAIN @ |-> IF \E d \in 0 .. passed - 1 : i = At(d) + 1
                                           THEN [@[i] EXCEPT !.chance = FALSE] ELSE @[i]]]
    IN  [replace_slot(cleared, At(passed), entry) EXCEPT !.hand = At(passed + 1)]

put(shard, capacity, key, answer, ttl, now) ==
    LET known == key \in DOMAIN shard.index
        entry == Entry(key, answer, now, ttl)
    IN  CASE capacity = 0 -> shard
          [] capacity # 0 /\ ttl = 0 ->
                 IF known THEN [shard EXCEPT !.entries[shard.index[key] + 1] = Empty,
                                             !.index = Without(@, key)]
                 ELSE shard
          [] capacity # 0 /\ ttl # 0 /\ known -> [shard EXCEPT !.entries[shard.index[key] + 1] = entry]
          [] capacity # 0 /\ ttl # 0 /\ ~known /\ Len(shard.entries) < capacity ->
                 [shard EXCEPT !.entries = Append(@, entry),
                               !.index = With(@, key, Len(shard.entries))]
          [] OTHER -> Evict(shard, capacity, entry, now)

\* DNS_Cache: the capacities of the shards
shard_capacity(index) ==
    total_capacity \div shard_count + (IF index < total_capacity % shard_count THEN 1 ELSE 0)

-----------------------------------------------------------------------------
(* CachePolicy *)

\* cacheable_address_set: for how long an upstream answer may be kept, 0 when not at all
CacheableTtl(answer) ==
    IF answer.plain /\ answer.ttls # << >> /\ \A i \in DOMAIN answer.ttls : answer.ttls[i] # 0
    THEN Min(Range(answer.ttls)) ELSE 0

-----------------------------------------------------------------------------
(* The worker that owns the shard looks names up and keeps what it may *)

Capacity == shard_capacity(0)

CacheInit == cache = [shard |-> EmptyShard, now |-> 0]

Get(key) == cache' = [cache EXCEPT !.shard = get(@, key, cache.now)]

Put(key, answer) ==
    /\ CacheableTtl(answer) # 0
    /\ cache' = [cache EXCEPT !.shard = put(@, Capacity, key, answer, CacheableTtl(answer), cache.now)]

\* put with a TTL of 0 takes the key out
Withdraw(key) ==
    \E answer \in Answers :
        cache' = [cache EXCEPT !.shard = put(@, Capacity, key, answer, 0, cache.now)]

Pass == cache.now < MaxTime /\ cache' = [cache EXCEPT !.now = @ + 1]

CacheNext ==
    \/ \E key \in Keys : Get(key) \/ Withdraw(key) \/ \E answer \in Answers : Put(key, answer)
    \/ Pass

\* the shard on its own
CacheSpec == CacheInit /\ [][CacheNext]_cache

-----------------------------------------------------------------------------
(* Properties *)

\* The index names exactly the slots in use, each once and under its own key.
Consistent(shard, capacity) ==
    LET used == {i \in 0 .. Len(shard.entries) - 1 : SlotAt(shard, i) # Empty}
    IN  /\ Len(shard.entries) <= capacity /\ shard.hand \in 0 .. capacity
        /\ \A k \in DOMAIN shard.index :
               shard.index[k] \in used /\ SlotAt(shard, shard.index[k]).key = k
        /\ \A i \in used : \E k \in DOMAIN shard.index : shard.index[k] = i

\* By how much the copy a client gets at `now' outlives the shortest-lived record
\* of the answer, in ticks.
Overrun(entry, now) ==
    (now + remaining_ttl(entry, now) * TicksPerSecond)
        - (entry.put_at + TicksPerSecond * Min(Range(entry.answer.ttls)))

\* Slots and index agree through replacements, expiry and removal, and a hit is
\* never handed out for longer than the shortest-lived record of the upstream's
\* answer, but for the rounding to a second.
CacheIsSound ==
    /\ Consistent(cache.shard, Capacity)
    /\ \A key \in Keys :
           Hit(cache.shard, key, cache.now) =>
               LET entry == SlotAt(cache.shard, cache.shard.index[key])
               IN  /\ remaining_ttl(entry, cache.now) >= 1
                   /\ Overrun(entry, cache.now) \in 0 .. TicksPerSecond - 1

=============================================================================

-------------------------- MODULE CacheShardProofs --------------------------
(***************************************************************************)
(* Proofs about CacheShard, for any keys, answers, capacities and clock    *)
(* resolution.  The inductive invariant says that the index and the slots  *)
(* name each other, and that every entry expires when the shortest-lived   *)
(* record of its answer does.                                              *)
(***************************************************************************)
EXTENDS CacheShard, WellFoundedInduction, TLAPS

Records == [key : Keys, answer : Answers, put_at : Nat, expiry : Nat, chance : BOOLEAN]

Lifetime(answer) == Min(Range(answer.ttls))

\* an entry that expires with its shortest-lived record
Timely(e) ==
    /\ e \in Records /\ Lifetime(e.answer) \in Nat
    /\ e.expiry = e.put_at + TicksPerSecond * Lifetime(e.answer)

Slots == Records \cup {Empty}

Indexes == UNION {[K -> Nat] : K \in SUBSET Keys}

\* what the entries, the index and the hand have to do with each other
Good(entries, index, hand) ==
    /\ entries \in Seq(Slots) /\ Len(entries) <= Capacity /\ hand \in 0 .. Capacity
    /\ index \in Indexes
    /\ \A i \in 1 .. Len(entries) :
           entries[i] # Empty => /\ Timely(entries[i])
                                 /\ entries[i].key \in DOMAIN index
                                 /\ index[entries[i].key] = i - 1
    /\ \A k \in DOMAIN index : /\ index[k] + 1 \in 1 .. Len(entries)
                               /\ entries[index[k] + 1] # Empty
                               /\ entries[index[k] + 1].key = k

Shards == [entries : Seq(Slots), index : Indexes, hand : 0 .. Capacity]

Shard(shard) == shard \in Shards /\ Good(shard.entries, shard.index, shard.hand)

\* The inductive invariant: see the head of this module.
InductiveInvariant == cache \in [shard : Shards, now : Nat] /\ Shard(cache.shard)
-----------------------------------------------------------------------------
(* Least elements, and division *)

\* A set of numbers that has an element has a least one.
LEMMA NatMin ==
    ASSUME NEW S \in SUBSET Nat, S # {}
    PROVE  Min(S) \in S /\ \A y \in S : Min(S) <= y
<1>1. \A x, y \in Nat : y < x => <<y, x>> \in OpToRel(<, Nat)
  <2>1. ASSUME NEW x \in Nat, NEW y \in Nat, y < x
        PROVE  <<y, x>> \in {ss \in Nat \X Nat : ss[1] < ss[2]}
    BY <2>1
  <2> QED BY <2>1 DEF OpToRel
<1>2. PICK R : IsWellFoundedOn(R, Nat) /\ \A x, y \in Nat : y < x => <<y, x>> \in R
  BY <1>1, NatLessThanWellFounded, Zenon
<1>3. PICK x \in S : \A y \in S : ~(<<y, x>> \in R) BY <1>2, WFMin, Zenon
<1>4. ASSUME NEW y \in S PROVE x <= y
  <2>1. x \in Nat /\ y \in Nat /\ ~(y < x) BY <1>2, <1>3, Zenon
  <2> QED BY <2>1
<1> QED BY <1>3, <1>4, Zenon DEF Min

\* What division leaves.
LEMMA DivMod ==
    ASSUME NEW a \in Int, NEW t \in Nat \ {0}
    PROVE  a \div t \in Int /\ a - t * (a \div t) \in 0 .. t - 1
OBVIOUS

\* An answer that may be kept is kept for as long as its shortest-lived record.
LEMMA CacheableIsLifetime ==
    ASSUME NEW answer \in Answers, CacheableTtl(answer) # 0
    PROVE  CacheableTtl(answer) = Lifetime(answer) /\ Lifetime(answer) \in Nat
<1>1. answer.ttls # << >> /\ CacheableTtl(answer) = Lifetime(answer) BY DEF
                           CacheableTtl, Lifetime
<1>2. answer.ttls \in Seq(Nat) BY CacheAssumption
<1>3. Range(answer.ttls) \in SUBSET Nat /\ Range(answer.ttls) # {}
  <2>1. 1 \in DOMAIN answer.ttls /\ \A i \in DOMAIN answer.ttls : answer.ttls[i] \in Nat
    BY <1>1, <1>2
  <2> QED BY <2>1 DEF Range
<1> QED BY <1>1, <1>3, NatMin DEF Lifetime

\* The first shard's share of the capacity.
LEMMA CapacityIsNat == Capacity \in Nat
<1>1. total_capacity \div shard_count \in Nat BY CacheAssumption
<1> QED BY <1>1 DEF Capacity, shard_capacity
-----------------------------------------------------------------------------
(* What the operations on slots and index keep *)

\* Replacing one slot of a sequence.
LEMMA SlotChanged ==
    ASSUME NEW entries \in Seq(Slots), NEW j \in 1 .. Len(entries), NEW slot \in Slots,
           NEW new, new = [entries EXCEPT ![j] = slot]
    PROVE  /\ new \in Seq(Slots) /\ Len(new) = Len(entries) /\ new[j] = slot
           /\ \A i \in 1 .. Len(entries) : i # j => new[i] = entries[i]
OBVIOUS

\* An index without a key.
LEMMA KeyRemoved ==
    ASSUME NEW index \in Indexes, NEW key
    PROVE  /\ Without(index, key) \in Indexes
           /\ DOMAIN Without(index, key) = DOMAIN index \ {key}
           /\ \A k \in DOMAIN index : k # key => Without(index, key)[k] = index[k]
<1> DEFINE new == Without(index, key)
<1>1. PICK K \in SUBSET Keys : index \in [K -> Nat] BY DEF Indexes
<1>2. new = [k \in K \ {key} |-> index[k]]
  <2>1. {k \in DOMAIN index : k # key} = K \ {key} BY <1>1
  <2>2. new = [k \in {k \in DOMAIN index : k # key} |-> index[k]]
    BY DEF Without, RestrictDomain, Restrict
  <2> QED BY <2>1, <2>2
<1>3. new \in [K \ {key} -> Nat] BY <1>1, <1>2
<1>4. K \ {key} \in SUBSET Keys OBVIOUS
<1>5. new \in Indexes BY <1>3, <1>4, Zenon DEF Indexes
<1> QED BY <1>1, <1>2, <1>5

\* An index with a key.
LEMMA KeyAdded ==
    ASSUME NEW index \in Indexes, NEW key \in Keys, NEW slot \in Nat
    PROVE  /\ With(index, key, slot) \in Indexes
           /\ DOMAIN With(index, key, slot) = DOMAIN index \cup {key}
           /\ With(index, key, slot)[key] = slot
           /\ \A k \in DOMAIN index : k # key => With(index, key, slot)[k] = index[k]
<1> DEFINE new == With(index, key, slot)
<1>1. PICK K \in SUBSET Keys : index \in [K -> Nat] BY DEF Indexes
<1>2. new = [k \in K \cup {key} |-> IF k = key THEN slot ELSE index[k]]
  BY <1>1 DEF With
<1>3. new \in [K \cup {key} -> Nat] BY <1>1, <1>2
<1>4. K \cup {key} \in SUBSET Keys OBVIOUS
<1>5. new \in Indexes BY <1>3, <1>4, Zenon DEF Indexes
<1> QED BY <1>1, <1>2, <1>5

\* A key is taken out, with its entry.
LEMMA Removed ==
    ASSUME NEW entries, NEW index, NEW hand, Good(entries, index, hand), NEW key \in DOMAIN index,
           NEW new, new = [entries EXCEPT ![index[key] + 1] = Empty]
    PROVE  Good(new, Without(index, key), hand)
<1>1. entries \in Seq(Slots) /\ index \in Indexes /\ index[key] + 1 \in 1 .. Len(entries) BY
                           DEF Good
<1>2. PICK j \in 1 .. Len(entries) : j = index[key] + 1 BY <1>1
<1>3. PICK x : x = Without(index, key) OBVIOUS
<1>4. /\ new \in Seq(Slots) /\ Len(new) = Len(entries) /\ new[j] = Empty
      /\ \A i \in 1 .. Len(entries) : i # j => new[i] = entries[i]
  BY <1>1, <1>2, SlotChanged, Empty \in Slots DEF Slots
<1>5. /\ x \in Indexes /\ DOMAIN x = DOMAIN index \ {key}
      /\ \A k \in DOMAIN index : k # key => x[k] = index[k]
  <2>1. /\ Without(index, key) \in Indexes
        /\ DOMAIN Without(index, key) = DOMAIN index \ {key}
        /\ \A k \in DOMAIN index : k # key => Without(index, key)[k] = index[k]
    BY <1>1, KeyRemoved, Zenon
  <2> QED BY <1>3, <2>1, Zenon
<1>6. index[key] \in Nat BY <1>1 DEF Indexes
<1>7. ASSUME NEW i \in 1 .. Len(new), new[i] # Empty
      PROVE  Timely(new[i]) /\ new[i].key \in DOMAIN x /\ x[new[i].key] = i - 1
  <2>1. i # j /\ new[i] = entries[i] /\ i \in 1 .. Len(entries) BY <1>4, <1>7
  <2>2. Timely(entries[i]) /\ entries[i].key \in DOMAIN index /\ index[entries[i].key] = i - 1
    BY <1>7, <2>1, Zenon DEF Good
  <2>3. entries[i].key # key BY <1>2, <1>6, <2>1, <2>2
  <2> QED BY <1>5, <2>1, <2>2, <2>3
<1>8. ASSUME NEW k \in DOMAIN x
      PROVE  x[k] + 1 \in 1 .. Len(new) /\ new[x[k] + 1] # Empty /\ new[x[k] + 1].key = k
  <2>1. k \in DOMAIN index /\ k # key /\ x[k] = index[k] BY <1>5
  <2>2. /\ index[k] + 1 \in 1 .. Len(entries) /\ entries[index[k] + 1] # Empty
        /\ entries[index[k] + 1].key = k
    BY <2>1 DEF Good
  <2>3. index[k] + 1 # j
    <3>1. entries[j].key = key BY <1>2, Zenon DEF Good
    <3> QED BY <2>1, <2>2, <3>1
  <2> QED BY <1>4, <2>1, <2>2, <2>3
<1> QED BY <1>3, <1>4, <1>5, <1>7, <1>8, ZenonT(40) DEF Good

\* The entry of a key is written again.
LEMMA Updated ==
    ASSUME NEW entries, NEW index, NEW hand, Good(entries, index, hand), NEW key \in DOMAIN index,
           NEW entry, Timely(entry), entry.key = key, entry # Empty,
           NEW new, new = [entries EXCEPT ![index[key] + 1] = entry]
    PROVE  Good(new, index, hand)
<1>1. entries \in Seq(Slots) /\ index \in Indexes /\ index[key] + 1 \in 1 .. Len(entries) BY
                           DEF Good
<1>2. PICK j \in 1 .. Len(entries) : j = index[key] + 1 BY <1>1
<1>3. /\ new \in Seq(Slots) /\ Len(new) = Len(entries) /\ new[j] = entry
      /\ \A i \in 1 .. Len(entries) : i # j => new[i] = entries[i]
  BY <1>1, <1>2, SlotChanged DEF Slots, Timely
<1>4. index[key] \in Nat BY <1>1 DEF Indexes
<1>5. ASSUME NEW i \in 1 .. Len(new), new[i] # Empty
      PROVE  Timely(new[i]) /\ new[i].key \in DOMAIN index /\ index[new[i].key] = i - 1
  <2>1. CASE i = j BY <1>2, <1>3, <1>4, <2>1
  <2>2. CASE i # j
    <3>1. i \in 1 .. Len(entries) /\ new[i] = entries[i] BY <1>3, <2>2
    <3> QED BY <1>5, <3>1, Zenon DEF Good
  <2> QED BY <2>1, <2>2
<1>6. ASSUME NEW k \in DOMAIN index
      PROVE  index[k] + 1 \in 1 .. Len(new) /\ new[index[k] + 1] # Empty /\ new[index[k] + 1].key = k
  <2>1. /\ index[k] + 1 \in 1 .. Len(entries) /\ entries[index[k] + 1] # Empty
        /\ entries[index[k] + 1].key = k
    BY DEF Good
  <2>2. CASE k = key BY <1>2, <1>3, <2>1, <2>2
  <2>3. CASE index[k] + 1 # j BY <1>3, <2>1, <2>3, Zenon
  <2>4. CASE k # key /\ index[k] + 1 = j BY <1>2, <2>1, <2>4, ZenonT(40) DEF Good
  <2> QED BY <2>2, <2>3, <2>4
<1> QED BY <1>1, <1>3, <1>5, <1>6, Zenon DEF Good
\* A slot that holds no key, and no other slot's key, is put to use.
LEMMA Filled ==
    ASSUME NEW entries, NEW index, NEW hand, Good(entries, index, hand),
           NEW j \in 1 .. Len(entries), entries[j] = Empty,
           NEW entry, Timely(entry), entry # Empty, entry.key \notin DOMAIN index,
           NEW slot \in Nat, slot + 1 = j,
           NEW new, new = [entries EXCEPT ![j] = entry]
    PROVE  Good(new, With(index, entry.key, slot), hand)
<1>1. entries \in Seq(Slots) /\ index \in Indexes BY DEF Good
<1>2. entry \in Records /\ entry.key \in Keys BY DEF Timely, Records
<1>3. PICK x : x = With(index, entry.key, slot) OBVIOUS
<1>4. /\ new \in Seq(Slots) /\ Len(new) = Len(entries) /\ new[j] = entry
      /\ \A i \in 1 .. Len(entries) : i # j => new[i] = entries[i]
  BY <1>1, <1>2, SlotChanged DEF Slots
<1>5. /\ x \in Indexes /\ DOMAIN x = DOMAIN index \cup {entry.key} /\ x[entry.key] = slot
      /\ \A k \in DOMAIN index : x[k] = index[k]
  <2>1. PICK key \in Keys : key = entry.key BY <1>2
  <2>2. /\ With(index, key, slot) \in Indexes
        /\ DOMAIN With(index, key, slot) = DOMAIN index \cup {key}
        /\ With(index, key, slot)[key] = slot
        /\ \A k \in DOMAIN index : k # key => With(index, key, slot)[k] = index[k]
    BY <1>1, KeyAdded, ZenonT(40)
  <2>3. \A k \in DOMAIN index : k # key BY <2>1
  <2> QED BY <1>3, <2>1, <2>2, <2>3, Zenon
<1>6. ASSUME NEW i \in 1 .. Len(new), new[i] # Empty
      PROVE  Timely(new[i]) /\ new[i].key \in DOMAIN x /\ x[new[i].key] = i - 1
  <2>1. CASE i = j BY <1>4, <1>5, <2>1
  <2>2. CASE i # j
    <3>1. i \in 1 .. Len(entries) /\ new[i] = entries[i] BY <1>4, <2>2
    <3>2. Timely(entries[i]) /\ entries[i].key \in DOMAIN index /\ index[entries[i].key] = i - 1
      BY <1>6, <3>1 DEF Good
    <3> QED BY <1>5, <3>1, <3>2, Zenon
  <2> QED BY <2>1, <2>2
<1>7. ASSUME NEW k \in DOMAIN x
      PROVE  x[k] + 1 \in 1 .. Len(new) /\ new[x[k] + 1] # Empty /\ new[x[k] + 1].key = k
  <2>1. CASE k = entry.key BY <1>4, <1>5, <2>1, Zenon
  <2>2. CASE k # entry.key
    <3>1. k \in DOMAIN index /\ x[k] = index[k] BY <1>5, <2>2, Zenon
    <3>2. /\ index[k] + 1 \in 1 .. Len(entries) /\ entries[index[k] + 1] # Empty
          /\ entries[index[k] + 1].key = k
      BY <3>1 DEF Good
    <3>3. index[k] + 1 # j BY <3>2, Zenon
    <3> QED BY <1>4, <3>1, <3>2, <3>3, Zenon
  <2> QED BY <2>1, <2>2, Zenon
<1> QED BY <1>3, <1>4, <1>5, <1>6, <1>7, ZenonT(40) DEF Good

\* A slot is added at the end; it is empty at first.
LEMMA Extended ==
    ASSUME NEW entries, NEW index, NEW hand, Good(entries, index, hand), Len(entries) < Capacity
    PROVE  Good(Append(entries, Empty), index, hand)
<1>1. entries \in Seq(Slots) /\ Empty \in Slots /\ Len(entries) \in Nat BY DEF Good,
                           Slots
<1>2. PICK new : new = Append(entries, Empty) BY Zenon
<1>3. /\ new \in Seq(Slots) /\ Len(new) = Len(entries) + 1 /\ new[Len(new)] = Empty
      /\ \A i \in 1 .. Len(entries) : new[i] = entries[i]
  BY <1>1, <1>2
<1>4. Len(new) <= Capacity BY <1>1, <1>3, CapacityIsNat
<1>5. ASSUME NEW i \in 1 .. Len(new), new[i] # Empty
      PROVE  Timely(new[i]) /\ new[i].key \in DOMAIN index /\ index[new[i].key] = i - 1
  <2>1. i \in 1 .. Len(entries) BY <1>1, <1>3, <1>5
  <2> QED BY <1>3, <1>5, <2>1, Zenon DEF Good
<1>6. ASSUME NEW k \in DOMAIN index
      PROVE  index[k] + 1 \in 1 .. Len(new) /\ new[index[k] + 1] # Empty /\ new[index[k] + 1].key = k
  <2>1. /\ index[k] + 1 \in 1 .. Len(entries) /\ entries[index[k] + 1] # Empty
        /\ entries[index[k] + 1].key = k
    BY DEF Good
  <2> QED BY <1>1, <1>3, <2>1
<1> QED BY <1>2, <1>3, <1>4, <1>5, <1>6, Zenon DEF Good

\* Entries lose their chance.
LEMMA Cleared ==
    ASSUME NEW entries, NEW index, NEW hand, Good(entries, index, hand),
           NEW new \in Seq(Slots), Len(new) = Len(entries),
           \A i \in 1 .. Len(entries) :
               \/ new[i] = entries[i]
               \/ entries[i] # Empty /\ new[i] = [entries[i] EXCEPT !.chance = FALSE]
    PROVE  Good(new, index, hand)
<1>1. ASSUME NEW i \in 1 .. Len(entries)
      PROVE  /\ new[i] = Empty <=> entries[i] = Empty
             /\ entries[i] # Empty => Timely(new[i]) /\ new[i].key = entries[i].key
  <2>1. CASE new[i] = entries[i] BY <2>1 DEF Good
  <2>2. CASE entries[i] # Empty /\ new[i] = [entries[i] EXCEPT !.chance = FALSE]
    <3>1. PICK e \in Records : e = entries[i] /\ Timely(e) BY <2>2, Zenon DEF Good,
                           Timely
    <3>2. new[i] = [e EXCEPT !.chance = FALSE] BY <2>2, <3>1
    <3>3. /\ new[i] \in Records /\ new[i].key = e.key /\ new[i].answer = e.answer
          /\ new[i].put_at = e.put_at /\ new[i].expiry = e.expiry
      BY <3>2, Zenon DEF Records
    <3>4. Timely(new[i]) BY <3>1, <3>3 DEF Timely
    <3>5. new[i] # Empty BY <3>3, CacheAssumption DEF Records
    <3> QED BY <2>2, <3>1, <3>3, <3>4, <3>5
  <2> QED BY <2>1, <2>2
<1>2. ASSUME NEW i \in 1 .. Len(new), new[i] # Empty
      PROVE  Timely(new[i]) /\ new[i].key \in DOMAIN index /\ index[new[i].key] = i - 1
  BY <1>1, <1>2, Zenon DEF Good
<1>3. ASSUME NEW k \in DOMAIN index
      PROVE  index[k] + 1 \in 1 .. Len(new) /\ new[index[k] + 1] # Empty /\ new[index[k] + 1].key = k
  BY <1>1, Zenon DEF Good
<1> QED BY <1>2, <1>3 DEF Good
-----------------------------------------------------------------------------
(* get and put *)

\* An entry just made.
LEMMA NewEntry ==
    ASSUME NEW key \in Keys, NEW answer \in Answers, NEW now \in Nat, NEW ttl \in Nat,
           ttl = Lifetime(answer)
    PROVE  /\ Timely(Entry(key, answer, now, ttl)) /\ Entry(key, answer, now, ttl).key = key
           /\ Entry(key, answer, now, ttl) # Empty
<1>1. PICK expiry \in Nat : /\ expiry = now + ttl * TicksPerSecond
                            /\ expiry = now + TicksPerSecond * ttl
  BY CacheAssumption, SMTT(30)
<1>2. PICK e : e = Entry(key, answer, now, ttl) OBVIOUS
<1>3. e = [key |-> key, answer |-> answer, put_at |-> now, expiry |-> expiry, chance |-> TRUE]
  BY <1>1, <1>2 DEF Entry
<1>4. e \in Records BY <1>3, Zenon DEF Records
<1>5. e.key = key /\ e.answer = answer /\ e.put_at = now /\ e.expiry = expiry BY
                           <1>3, Zenon
<1>6. Timely(e) BY <1>1, <1>4, <1>5 DEF Timely
<1>7. e # Empty BY <1>4, CacheAssumption, Zenon DEF Records
<1> QED BY <1>2, <1>5, <1>6, <1>7

\* A shard with other entries.
LEMMA EntriesChanged ==
    ASSUME NEW shard \in Shards, NEW entries, Good(entries, shard.index, shard.hand)
    PROVE  Shard([shard EXCEPT !.entries = entries])
<1>1. PICK new : new = [shard EXCEPT !.entries = entries] BY Zenon
<1>2. entries \in Seq(Slots) BY DEF Good
<1>3. new \in Shards /\ new.entries = entries /\ new.index = shard.index /\ new.hand = shard.hand
  BY <1>1, <1>2, Zenon DEF Shards
<1> QED BY <1>1, <1>3 DEF Shard

\* A shard with other entries and another index.
LEMMA IndexChanged ==
    ASSUME NEW shard \in Shards, NEW entries, NEW index, Good(entries, index, shard.hand)
    PROVE  Shard([shard EXCEPT !.entries = entries, !.index = index])
<1>1. PICK new : new = [shard EXCEPT !.entries = entries, !.index = index] OBVIOUS
<1>2. entries \in Seq(Slots) /\ index \in Indexes BY DEF Good
<1>3. new \in Shards /\ new.entries = entries /\ new.index = index /\ new.hand = shard.hand
  BY <1>1, <1>2, Zenon DEF Shards
<1> QED BY <1>1, <1>3 DEF Shard

\* CacheShard::get
LEMMA GetKeeps ==
    ASSUME NEW shard, Shard(shard), NEW key \in Keys, NEW now \in Nat
    PROVE  Shard(get(shard, key, now))
<1>1. PICK entries, index, hand : /\ entries = shard.entries /\ index = shard.index /\ hand = shard.hand
                                  /\ shard \in Shards /\ Good(entries, index, hand)
  BY DEF Shard
<1>2. shard.entries = entries /\ shard.index = index BY <1>1
<1>3. CASE key \notin DOMAIN index
  <2>1. ~Hit(shard, key, now) BY <1>2, <1>3 DEF Hit
  <2>2. get(shard, key, now) = shard BY <1>2, <1>3, <2>1 DEF get
  <2> QED BY <2>2
<1>4. CASE key \in DOMAIN index /\ Hit(shard, key, now)
  <2>1. PICK j : j = index[key] + 1 OBVIOUS
  <2>2. entries[j] # Empty /\ Timely(entries[j]) /\ entries[j].key = key
    <3>1. j \in 1 .. Len(entries) /\ entries[j] # Empty /\ entries[j].key = key BY
                           <1>1, <1>4, <2>1 DEF Good
    <3> QED BY <1>1, <3>1 DEF Good
  <2>3. PICK r : r = [entries[j] EXCEPT !.chance = TRUE] BY Zenon
  <2>4. r \in Records /\ r.key = key /\ Timely(r)
    <3>1. PICK o \in Records : o = entries[j] /\ Timely(o) BY <2>2 DEF Timely
    <3>2. /\ r \in Records /\ r.key = o.key /\ r.answer = o.answer /\ r.put_at = o.put_at
          /\ r.expiry = o.expiry
      BY <2>3, <3>1, Zenon DEF Records
    <3> QED BY <2>2, <3>1, <3>2 DEF Timely
  <2>5. r # Empty BY <2>4, CacheAssumption, Zenon DEF Records
  <2>6. PICK e : e = [entries EXCEPT ![j] = r] BY Zenon
  <2>7. Good(e, index, hand) BY <1>1, <1>4, <2>1, <2>4, <2>5, <2>6, Updated
  <2>8. get(shard, key, now) = [shard EXCEPT !.entries[j].chance = TRUE]
    BY <1>2, <1>4, <2>1 DEF get
  <2>9. [shard EXCEPT !.entries[j].chance = TRUE] = [shard EXCEPT !.entries = e]
    BY <1>2, <2>3, <2>6
  <2>10. Good(e, shard.index, shard.hand) /\ shard \in Shards BY <1>1, <2>7, Zenon
  <2>11. Shard([shard EXCEPT !.entries = e]) BY <2>10, EntriesChanged, Zenon
  <2> QED BY <2>8, <2>9, <2>11, Zenon
<1>5. CASE key \in DOMAIN index /\ ~Hit(shard, key, now)
  <2>1. PICK e : e = [entries EXCEPT ![index[key] + 1] = Empty] BY Zenon
  <2>2. Good(e, Without(index, key), hand) BY <1>1, <1>5, <2>1, Removed
  <2>3. get(shard, key, now) = [shard EXCEPT !.entries = e, !.index = Without(index, key)]
    BY <1>2, <1>5, <2>1 DEF get
  <2>4. Good(e, Without(index, key), shard.hand) /\ shard \in Shards BY <1>1, <2>2,
                           Zenon
  <2>5. Shard([shard EXCEPT !.entries = e, !.index = Without(index, key)])
    BY <2>4, IndexChanged, Zenon
  <2> QED BY <2>3, <2>5, Zenon
<1> QED BY <1>3, <1>4, <1>5
\* CacheShard::replace_slot, of a slot in use or not
LEMMA Replaced ==
    ASSUME NEW entries, NEW index, NEW hand, Good(entries, index, hand),
           NEW slot \in Nat, NEW j \in 1 .. Len(entries), j = slot + 1,
           NEW entry, Timely(entry), entry # Empty, entry.key \notin DOMAIN index,
           NEW x, x = IF entries[j] = Empty THEN index ELSE Without(index, entries[j].key)
    PROVE  Good([entries EXCEPT ![j] = entry], With(x, entry.key, slot), hand)
<1>1. entries \in Seq(Slots) /\ index \in Indexes BY DEF Good
<1>2. CASE entries[j] = Empty
  <2>1. x = index BY <1>2
  <2>2. Good([entries EXCEPT ![j] = entry], With(index, entry.key, slot), hand)
    BY <1>2, Filled
  <2> QED BY <2>1, <2>2, Zenon
<1>3. CASE entries[j] # Empty
  <2>1. PICK key : key = entries[j].key /\ key \in DOMAIN index /\ index[key] = j - 1
    BY <1>3 DEF Good
  <2>2. PICK freed : freed = [entries EXCEPT ![j] = Empty] BY Zenon
  <2>3. freed = [entries EXCEPT ![index[key] + 1] = Empty]
    <3>1. index[key] + 1 = j BY <2>1
    <3> QED BY <2>2, <3>1, Zenon
  <2>4. Good(freed, Without(index, key), hand) BY <2>1, <2>3, Removed, Zenon
  <2>5. x = Without(index, key) BY <1>3, <2>1, Zenon
  <2>6. Good(freed, x, hand) BY <2>4, <2>5, Zenon
  <2>7. freed[j] = Empty /\ Len(freed) = Len(entries)
    BY <1>1, <2>2, Empty \in Slots, SlotChanged DEF Slots
  <2>8. entry.key \notin DOMAIN x
    <3>1. DOMAIN Without(index, key) = DOMAIN index \ {key} BY <1>1, KeyRemoved, Zenon
    <3> QED BY <2>5, <3>1
  <2>9. Good([freed EXCEPT ![j] = entry], With(x, entry.key, slot), hand)
    BY <2>6, <2>7, <2>8, Filled, Zenon
  <2>10. [freed EXCEPT ![j] = entry] = [entries EXCEPT ![j] = entry] BY <1>1, <2>2
  <2> QED BY <2>9, <2>10, Zenon
<1> QED BY <1>2, <1>3

\* ... of a shard
LEMMA ReplaceKeeps ==
    ASSUME NEW shard, Shard(shard), NEW slot \in Nat, slot + 1 \in 1 .. Len(shard.entries),
           NEW entry, Timely(entry), entry # Empty, entry.key \notin DOMAIN shard.index
    PROVE  Shard(replace_slot(shard, slot, entry))
<1>1. PICK entries, index, hand : /\ entries = shard.entries /\ index = shard.index /\ hand = shard.hand
                                  /\ shard \in Shards /\ Good(entries, index, hand)
  BY DEF Shard
<1>2. PICK j \in 1 .. Len(entries) : j = slot + 1 BY <1>1
<1>3. PICK x : x = IF entries[j] = Empty THEN index ELSE Without(index, entries[j].key) OBVIOUS
<1>4. Good([entries EXCEPT ![j] = entry], With(x, entry.key, slot), hand)
  <2>1. entry.key \notin DOMAIN index BY <1>1
  <2> QED BY <1>1, <1>2, <1>3, <2>1, Replaced, Zenon
<1>5. PICK e, y : e = [entries EXCEPT ![j] = entry] /\ y = With(x, entry.key, slot) BY
                           Zenon
<1>6. Good(e, y, shard.hand) BY <1>1, <1>4, <1>5, Zenon
<1>7. Shard([shard EXCEPT !.entries = e, !.index = y]) BY <1>1, <1>6, IndexChanged,
                           Zenon
<1>8. replace_slot(shard, slot, entry) = [shard EXCEPT !.entries[j] = entry, !.index = y]
  BY <1>1, <1>2, <1>3, <1>5, Zenon DEF replace_slot, SlotAt
<1>9. [shard EXCEPT !.entries[j] = entry, !.index = y] = [shard EXCEPT !.entries = e, !.index = y]
  BY <1>1, <1>5
<1> QED BY <1>7, <1>8, <1>9, Zenon
\* The CLOCK hand passes over entries only, never over an empty slot, and stops at a
\* slot of the shard within one round.
LEMMA EvictKeeps ==
    ASSUME NEW shard, Shard(shard), Capacity # 0, Len(shard.entries) = Capacity, NEW now \in Nat,
           NEW entry, Timely(entry), entry # Empty, entry.key \notin DOMAIN shard.index
    PROVE  Shard(Evict(shard, Capacity, entry, now))
<1> DEFINE At(d) == (shard.hand + d) % Capacity
           stops == {d \in 0 .. Capacity : \/ d = Capacity
                                           \/ Replaceable(SlotAt(shard, At(d)), now)}
           passed == Min(stops)
           fresh == [i \in DOMAIN shard.entries |-> IF \E d \in 0 .. passed - 1 : i = At(d) + 1
                                                    THEN [shard.entries[i] EXCEPT !.chance = FALSE]
                                                    ELSE shard.entries[i]]
           cleared == [shard EXCEPT !.entries = fresh]
<1>1. /\ shard \in Shards /\ Good(shard.entries, shard.index, shard.hand)
      /\ shard.entries \in Seq(Slots) /\ shard.hand \in 0 .. Capacity
  BY DEF Shard, Good
<1>2. Capacity \in Nat \ {0} BY CapacityIsNat
<1>3. \A d \in Nat : At(d) \in 0 .. Capacity - 1
  <2>1. ASSUME NEW n \in Nat PROVE n % Capacity \in 0 .. Capacity - 1 BY <1>2
  <2>2. ASSUME NEW d \in Nat PROVE shard.hand + d \in Nat BY <1>1, <1>2
  <2> QED BY <2>1, <2>2, Zenon
<1> HIDE DEF At
<1>4. /\ passed \in 0 .. Capacity
      /\ \A d \in 0 .. passed - 1 : ~Replaceable(SlotAt(shard, At(d)), now)
  <2>1. Capacity \in stops /\ stops \in SUBSET Nat BY <1>2
  <2>2. passed \in stops /\ \A y \in stops : passed <= y BY <2>1, NatMin, Zenon
  <2>3. passed \in 0 .. Capacity BY <2>2
  <2> HIDE DEF passed
  <2>4. ASSUME NEW d \in 0 .. passed - 1 PROVE ~Replaceable(SlotAt(shard, At(d)), now)
    <3>1. d \in 0 .. Capacity /\ ~(passed <= d) BY <1>2, <2>3
    <3>2. d \notin stops BY <2>2, <3>1, Zenon
    <3> QED BY <3>1, <3>2
  <2> QED BY <2>3, <2>4
<1> HIDE DEF stops, passed
<1>5. Good(fresh, shard.index, shard.hand)
  <2>1. ASSUME NEW i \in 1 .. Len(shard.entries)
        PROVE  /\ fresh[i] \in Slots
               /\ \/ fresh[i] = shard.entries[i]
                  \/ /\ shard.entries[i] # Empty
                     /\ fresh[i] = [shard.entries[i] EXCEPT !.chance = FALSE]
    <3>1. i \in DOMAIN shard.entries /\ shard.entries[i] \in Slots BY <1>1
    <3>2. CASE \E d \in 0 .. passed - 1 : i = At(d) + 1
      <4>1. PICK d \in 0 .. passed - 1 : i = At(d) + 1 BY <3>2
      <4>2. shard.entries[i] # Empty BY <1>4, <4>1 DEF Replaceable, SlotAt
      <4>3. PICK o \in Records : o = shard.entries[i] BY <3>1, <4>2 DEF Slots
      <4>4. fresh[i] = [o EXCEPT !.chance = FALSE] BY <3>1, <3>2, <4>3
      <4>5. fresh[i] \in Records BY <4>4, ZenonT(40) DEF Records
      <4> QED BY <4>2, <4>3, <4>4, <4>5 DEF Slots
    <3>3. CASE ~\E d \in 0 .. passed - 1 : i = At(d) + 1
      <4>1. fresh[i] = shard.entries[i] BY <3>1, <3>3
      <4> QED BY <3>1, <4>1
    <3> QED BY <3>2, <3>3
  <2>2. DOMAIN shard.entries = 1 .. Len(shard.entries) /\ Len(shard.entries) \in Nat BY
                           <1>1
  <2>3. fresh = [i \in 1 .. Len(shard.entries) |-> fresh[i]] BY <2>2
  <2> HIDE DEF fresh
  <2>4. fresh \in Seq(Slots) /\ Len(fresh) = Len(shard.entries) BY <2>1, <2>2, <2>3
  <2> QED BY <1>1, <2>1, <2>4, Cleared, Zenon
<1>6. Shard(cleared) BY <1>1, <1>5, EntriesChanged, Zenon
<1>7. cleared.entries = fresh /\ cleared.index = shard.index /\ Len(fresh) = Capacity
  <2>1. Len(fresh) = Len(shard.entries)
    <3>1. DOMAIN fresh = DOMAIN shard.entries OBVIOUS
    <3> HIDE DEF fresh
    <3>2. fresh \in Seq(Slots) BY <1>5 DEF Good
    <3> QED BY <1>1, <3>1, <3>2
  <2> HIDE DEF fresh
  <2>2. cleared.entries = fresh /\ cleared.index = shard.index BY <1>1, Zenon DEF
                           Shards
  <2> QED BY <2>1, <2>2
<1> HIDE DEF cleared, fresh
<1>8. PICK slot \in Nat : slot = At(passed) /\ slot + 1 \in 1 .. Len(cleared.entries)
  <2>1. passed \in Nat BY <1>4
  <2>2. At(passed) \in 0 .. Capacity - 1 BY <1>3, <2>1, Zenon
  <2> QED BY <1>2, <1>7, <2>2
<1>9. PICK replaced : replaced = replace_slot(cleared, slot, entry) /\ Shard(replaced)
  <2>1. entry.key \notin DOMAIN cleared.index BY <1>7
  <2> QED BY <1>6, <1>8, <2>1, ReplaceKeeps, Zenon
<1>10. PICK hand \in 0 .. Capacity : hand = At(passed + 1)
  <2>1. passed + 1 \in Nat BY <1>4
  <2>2. At(passed + 1) \in 0 .. Capacity - 1 BY <1>3, <2>1
  <2> QED BY <1>2, <2>2
<1>11. Evict(shard, Capacity, entry, now) = [replaced EXCEPT !.hand = hand]
  BY <1>8, <1>9, <1>10, Zenon DEF Evict, At, stops, passed, fresh, cleared
<1>12. PICK last : last = [replaced EXCEPT !.hand = hand] BY Zenon
<1>13. /\ last \in Shards /\ last.entries = replaced.entries /\ last.index = replaced.index
       /\ last.hand = hand
  BY <1>9, <1>12, Zenon DEF Shard, Shards
<1>14. Good(last.entries, last.index, last.hand)
  <2>1. Good(replaced.entries, replaced.index, replaced.hand) BY <1>9, Zenon DEF Shard
  <2>2. Good(replaced.entries, replaced.index, hand) BY <1>10, <2>1, Zenon DEF Good
  <2> QED BY <1>13, <2>2, Zenon
<1> QED BY <1>11, <1>12, <1>13, <1>14, Zenon DEF Shard
\* Filling the slot just appended.
LEMMA AppendThenSet ==
    ASSUME NEW S, NEW s \in Seq(S), NEW a \in S, NEW b \in S
    PROVE  [Append(s, a) EXCEPT ![Len(s) + 1] = b] = Append(s, b)
<1>1. PICK n \in Nat : n = Len(s) OBVIOUS
<1>2. ASSUME NEW c \in S, NEW y, y = Append(s, c)
      PROVE  y = [i \in 1 .. n + 1 |-> IF i = n + 1 THEN c ELSE s[i]]
  <2>1. y \in Seq(S) /\ Len(y) = n + 1 BY <1>1, <1>2
  <2>2. y[n + 1] = c /\ \A i \in 1 .. n : y[i] = s[i] BY <1>1, <1>2
  <2>3. y \in [1 .. n + 1 -> S] BY <2>1, <1>1
  <2>4. \A i \in 1 .. n + 1 : i \in 1 .. n \/ i = n + 1 BY <1>1
  <2>5. \A i \in 1 .. n + 1 : y[i] = IF i = n + 1 THEN c ELSE s[i] BY <2>2, <2>4,
                           Zenon
  <2> QED BY <2>3, <2>5, Zenon
<1>3. [[i \in 1 .. n + 1 |-> IF i = n + 1 THEN a ELSE s[i]] EXCEPT ![n + 1] = b]
          = [i \in 1 .. n + 1 |-> IF i = n + 1 THEN b ELSE s[i]]
  BY <1>1, Zenon
<1>4. PICK x, y : x = Append(s, a) /\ y = Append(s, b) BY Zenon
<1> QED BY <1>1, <1>2, <1>3, <1>4, Zenon

\* CacheShard::put
LEMMA PutKeeps ==
    ASSUME NEW shard, Shard(shard), NEW key \in Keys, NEW answer \in Answers, NEW now \in Nat,
           NEW ttl \in Nat, ttl = 0 \/ ttl = Lifetime(answer)
    PROVE  Shard(put(shard, Capacity, key, answer, ttl, now))
<1>1. PICK entries, index, hand : /\ entries = shard.entries /\ index = shard.index /\ hand = shard.hand
                                  /\ shard \in Shards /\ Good(entries, index, hand)
  BY DEF Shard
<1>2. PICK entry : entry = Entry(key, answer, now, ttl) OBVIOUS
<1>3. ttl # 0 => Timely(entry) /\ entry.key = key /\ entry # Empty BY <1>2, NewEntry
<1>4. PICK after : after = put(shard, Capacity, key, answer, ttl, now) OBVIOUS
<1>5. CASE Capacity = 0
  <2>1. after = shard BY <1>4, <1>5, Zenon DEF put
  <2> QED BY <1>4, <2>1, Zenon
<1>6. CASE Capacity # 0 /\ ttl = 0
  <2>1. CASE key \notin DOMAIN index
    <3>1. after = shard BY <1>1, <1>4, <1>6, <2>1, Zenon DEF put
    <3> QED BY <1>4, <3>1, Zenon
  <2>2. CASE key \in DOMAIN index
    <3>1. PICK e : e = [entries EXCEPT ![index[key] + 1] = Empty] BY Zenon
    <3>2. Good(e, Without(index, key), hand) BY <1>1, <2>2, <3>1, Removed
    <3>3. after = [shard EXCEPT !.entries = e, !.index = Without(index, key)]
      BY <1>1, <1>4, <1>6, <2>2, <3>1 DEF put
    <3>4. Good(e, Without(index, key), shard.hand) /\ shard \in Shards BY <1>1,
                           <3>2, Zenon
    <3>5. Shard([shard EXCEPT !.entries = e, !.index = Without(index, key)])
      BY <3>4, IndexChanged, Zenon
    <3> QED BY <1>4, <3>3, <3>5, Zenon
  <2> QED BY <2>1, <2>2, Zenon
<1>7. CASE Capacity # 0 /\ ttl # 0 /\ key \in DOMAIN index
  <2>1. PICK e : e = [entries EXCEPT ![index[key] + 1] = entry] BY Zenon
  <2>2. Good(e, index, hand) BY <1>1, <1>3, <1>7, <2>1, Updated
  <2>3. after = [shard EXCEPT !.entries = e] BY <1>1, <1>2, <1>4, <1>7, <2>1 DEF put
  <2>4. Good(e, shard.index, shard.hand) /\ shard \in Shards BY <1>1, <2>2, Zenon
  <2>5. Shard([shard EXCEPT !.entries = e]) BY <2>4, EntriesChanged, Zenon
  <2> QED BY <1>4, <2>3, <2>5, Zenon
<1>8. CASE Capacity # 0 /\ ttl # 0 /\ key \notin DOMAIN index /\ Len(entries) < Capacity
  <2>1. PICK e : e = Append(entries, Empty) /\ Good(e, index, hand) BY <1>1, <1>8,
                           Extended, Zenon
  <2>2. entries \in Seq(Slots) /\ Len(entries) \in Nat BY <1>1 DEF Good
  <2>3. PICK j \in 1 .. Len(e) : j = Len(entries) + 1 /\ e[j] = Empty BY <2>1, <2>2
  <2>4. PICK f : f = [e EXCEPT ![j] = entry] BY Zenon
  <2>5. Good(f, With(index, entry.key, Len(entries)), hand)
    BY <1>3, <1>8, <2>1, <2>2, <2>3, <2>4, Filled, Zenon
  <2>6. f = Append(entries, entry)
    <3>1. entry \in Slots /\ Empty \in Slots BY <1>3, <1>8 DEF Timely, Slots
    <3>2. [Append(entries, Empty) EXCEPT ![Len(entries) + 1] = entry] = Append(entries, entry)
      BY <2>2, <3>1, AppendThenSet, SMT
    <3> QED BY <2>1, <2>3, <2>4, <3>2, Zenon
  <2>7. after = [shard EXCEPT !.entries = f, !.index = With(index, entry.key, Len(entries))]
    BY <1>1, <1>2, <1>3, <1>4, <1>8, <2>6, Zenon DEF put
  <2>8. PICK x : x = With(index, entry.key, Len(entries)) OBVIOUS
  <2>9. Good(f, x, shard.hand) /\ shard \in Shards BY <1>1, <2>5, <2>8, Zenon
  <2>10. Shard([shard EXCEPT !.entries = f, !.index = x]) BY <2>9, IndexChanged, Zenon
  <2> QED BY <1>4, <2>7, <2>8, <2>10, Zenon
<1>9. CASE Capacity # 0 /\ ttl # 0 /\ key \notin DOMAIN index /\ ~(Len(entries) < Capacity)
  <2>1. after = Evict(shard, Capacity, entry, now) BY <1>1, <1>2, <1>4, <1>9, Zenon
                           DEF put
  <2>2. Len(shard.entries) = Capacity
    <3>1. entries \in Seq(Slots) /\ Len(entries) <= Capacity BY <1>1, Zenon DEF Good
    <3> QED BY <1>1, <1>9, <3>1, CapacityIsNat, SMTT(30)
  <2>3. entry.key \notin DOMAIN shard.index BY <1>1, <1>3, <1>9, Zenon
  <2>4. Shard(Evict(shard, Capacity, entry, now)) BY <1>3, <1>9, <2>2, <2>3,
                           EvictKeeps, Zenon
  <2> QED BY <1>4, <2>1, <2>4, Zenon
<1> QED BY <1>5, <1>6, <1>7, <1>8, <1>9, Zenon
-----------------------------------------------------------------------------
(* The theorems *)

\* A shard starts without slots.
LEMMA InitInvariant ==
    ASSUME CacheInit
    PROVE  InductiveInvariant
<1>1. PICK e : e = << >> OBVIOUS
<1>2. e \in Seq(Slots) /\ Len(e) = 0 BY <1>1
<1>3. e \in Indexes /\ DOMAIN e = {}
  <2>1. e = [k \in {} |-> 0] BY <1>1
  <2>2. e \in [{} -> Nat] /\ {} \in SUBSET Keys BY <2>1
  <2> QED BY <2>1, <2>2, Zenon DEF Indexes
<1>4. 0 \in 0 .. Capacity /\ 0 \in Nat /\ 0 <= Capacity BY CapacityIsNat
<1>5. Good(e, e, 0) BY <1>2, <1>3, <1>4 DEF Good
<1>6. cache = [shard |-> [entries |-> e, index |-> e, hand |-> 0], now |-> 0]
  BY <1>1, Zenon DEF CacheInit, EmptyShard
<1>7. PICK shard : /\ shard = [entries |-> e, index |-> e, hand |-> 0]
                   /\ cache = [shard |-> shard, now |-> 0]
  BY <1>6
<1>8. shard \in Shards /\ shard.entries = e /\ shard.index = e /\ shard.hand = 0
  BY <1>2, <1>3, <1>4, <1>7, Zenon DEF Shards
<1>9. Shard(shard) BY <1>5, <1>8, Zenon DEF Shard
<1>10. cache \in [shard : Shards, now : Nat] /\ cache.shard = shard BY <1>4, <1>7,
                           <1>8, Zenon
<1> QED BY <1>9, <1>10, Zenon DEF InductiveInvariant

\* Every step keeps the invariant.
LEMMA InvariantStep ==
    ASSUME InductiveInvariant, [CacheNext]_cache
    PROVE  InductiveInvariant'
<1>1. /\ cache \in [shard : Shards, now : Nat] /\ cache.now \in Nat /\ cache.shard \in Shards
      /\ Shard(cache.shard)
  BY Zenon DEF InductiveInvariant
<1>2. ASSUME NEW shard, Shard(shard), cache' = [cache EXCEPT !.shard = shard]
      PROVE  InductiveInvariant'
  <2>1. shard \in Shards BY <1>2 DEF Shard
  <2>2. cache' \in [shard : Shards, now : Nat] /\ cache'.shard = shard BY <1>1,
                           <1>2, <2>1, Zenon
  <2> QED BY <1>2, <2>2, Zenon DEF InductiveInvariant
<1>3. ASSUME NEW key \in Keys, Get(key) PROVE InductiveInvariant'
  <2>1. PICK shard : shard = get(cache.shard, key, cache.now) /\ Shard(shard)
    BY <1>1, GetKeeps, Zenon
  <2>2. cache' = [cache EXCEPT !.shard = shard] BY <1>3, <2>1, Zenon DEF Get
  <2> QED BY <1>2, <2>1, <2>2, Zenon
<1>4. ASSUME NEW key \in Keys, NEW answer \in Answers, Put(key, answer) PROVE InductiveInvariant'
  <2>1. PICK ttl \in Nat : ttl = CacheableTtl(answer) /\ ttl = Lifetime(answer)
    BY <1>4, CacheableIsLifetime DEF Put
  <2>2. PICK shard : shard = put(cache.shard, Capacity, key, answer, ttl, cache.now) /\ Shard(shard)
    BY <1>1, <2>1, PutKeeps, Zenon
  <2>3. cache' = [cache EXCEPT !.shard = shard] BY <1>4, <2>1, <2>2, Zenon DEF Put
  <2> QED BY <1>2, <2>2, <2>3, Zenon
<1>5. ASSUME NEW key \in Keys, Withdraw(key) PROVE InductiveInvariant'
  <2>1. PICK answer \in Answers :
            cache' = [cache EXCEPT !.shard = put(cache.shard, Capacity, key, answer, 0, cache.now)]
    BY <1>5, Zenon DEF Withdraw
  <2>2. 0 \in Nat OBVIOUS
  <2>3. PICK shard : shard = put(cache.shard, Capacity, key, answer, 0, cache.now) /\ Shard(shard)
    BY <1>1, <2>2, PutKeeps, Zenon
  <2>4. cache' = [cache EXCEPT !.shard = shard] BY <2>1, <2>3, Zenon
  <2> QED BY <1>2, <2>3, <2>4, Zenon
<1>6. CASE Pass
  <2>1. PICK now \in Nat : now = cache.now + 1 BY <1>1
  <2>2. cache' = [cache EXCEPT !.now = now] BY <1>6, <2>1, Zenon DEF Pass
  <2>3. cache' \in [shard : Shards, now : Nat] /\ cache'.shard = cache.shard BY
                           <1>1, <2>2, Zenon
  <2> QED BY <1>1, <2>3, Zenon DEF InductiveInvariant
<1>7. CASE UNCHANGED cache BY <1>7, Zenon DEF InductiveInvariant
<1> QED BY <1>3, <1>4, <1>5, <1>6, <1>7, Zenon DEF CacheNext

\* The inductive invariant holds in every reachable state.
THEOREM Invariance == CacheSpec => []InductiveInvariant
<1>1. CacheInit => InductiveInvariant BY InitInvariant
<1>2. InductiveInvariant /\ [CacheNext]_cache => InductiveInvariant' BY
                           InvariantStep, Zenon
<1> QED BY <1>1, <1>2, PTL DEF CacheSpec

\* A copy handed out `left' seconds before an entry expires overruns it by less than
\* a second, and is good for at least one.
LEMMA Rounding ==
    ASSUME NEW now \in Nat, NEW expiry \in Nat, now < expiry, NEW t \in Nat \ {0}
    PROVE  LET left == -((now - expiry) \div t)
           IN  left >= 1 /\ (now + left * t) - expiry \in 0 .. t - 1
<1>1. PICK a \in Int : a = now - expiry /\ a < 0 OBVIOUS
<1>2. PICK q \in Int : q = a \div t /\ a - t * q \in 0 .. t - 1 BY <1>1, DivMod
<1>3. PICK d \in 0 .. t - 1 : d = a - t * q BY <1>2, Zenon
<1>4. PICK p \in Int : p = t * q /\ (-q) * t = -p BY <1>2
<1>5. p = a - d /\ p < 0 BY <1>1, <1>3, <1>4, SMTT(30)
<1>6. q < 0 BY <1>2, <1>4, <1>5, SMTT(30)
<1>7. (now + (-q) * t) - expiry = d BY <1>1, <1>4, <1>5
<1> QED BY <1>1, <1>2, <1>3, <1>6, <1>7

\* Slots and index agree through replacements, expiry, eviction and removal, and a
\* hit is never handed out for longer than the shortest-lived record of the
\* upstream's answer, but for the rounding to a second.
THEOREM CacheStaysSound == CacheSpec => []CacheIsSound
<1>1. ASSUME InductiveInvariant PROVE CacheIsSound
  <2>1. PICK shard, now : shard = cache.shard /\ now = cache.now BY Zenon
  <2>2. now \in Nat /\ Good(shard.entries, shard.index, shard.hand)
    BY <1>1, <2>1, Zenon DEF InductiveInvariant, Shard
  <2>3. PICK entries, index, hand :
            /\ entries = shard.entries /\ index = shard.index /\ hand = shard.hand
            /\ Good(entries, index, hand)
    BY <2>2, Zenon
  <2>4. Len(entries) \in Nat /\ index \in [DOMAIN index -> Nat] BY <2>3 DEF Good,
                           Indexes
  <2>5. Consistent(shard, Capacity)
    <3>1. ASSUME NEW i \in 0 .. Len(entries) - 1, entries[i + 1] # Empty
          PROVE  \E k \in DOMAIN index : index[k] = i
      <4>1. i + 1 \in 1 .. Len(entries) /\ (i + 1) - 1 = i BY <2>4
      <4>2. PICK k \in DOMAIN index : index[k] = (i + 1) - 1
        BY <2>3, <3>1, <4>1, Zenon DEF Good
      <4> QED BY <4>1, <4>2, Zenon
    <3>2. ASSUME NEW k \in DOMAIN index
          PROVE  /\ index[k] \in 0 .. Len(entries) - 1 /\ entries[index[k] + 1] # Empty
                 /\ entries[index[k] + 1].key = k
      <4>1. /\ index[k] + 1 \in 1 .. Len(entries) /\ entries[index[k] + 1] # Empty
            /\ entries[index[k] + 1].key = k
        BY <2>3, Zenon DEF Good
      <4>2. index[k] \in Nat BY <2>4, Zenon
      <4> QED BY <2>4, <4>1, <4>2
    <3>3. Len(entries) <= Capacity /\ hand \in 0 .. Capacity BY <2>3, Zenon DEF Good
    <3> QED BY <2>3, <3>1, <3>2, <3>3, Zenon DEF Consistent, SlotAt
  <2>6. ASSUME NEW key \in Keys, Hit(shard, key, now)
        PROVE  LET entry == SlotAt(shard, shard.index[key])
               IN  /\ remaining_ttl(entry, now) >= 1
                   /\ Overrun(entry, now) \in 0 .. TicksPerSecond - 1
    <3>1. key \in DOMAIN index /\ ~(entries[index[key] + 1].expiry <= now)
      BY <2>3, <2>6 DEF Hit, SlotAt, Expired
    <3>2. PICK entry : entry = SlotAt(shard, shard.index[key]) /\ entry = entries[index[key] + 1]
      BY <2>3, Zenon DEF SlotAt
    <3>3. Timely(entry)
      <4>1. index[key] + 1 \in 1 .. Len(entries) /\ entries[index[key] + 1] # Empty
        BY <2>3, <3>1, Zenon DEF Good
      <4> QED BY <2>3, <3>2, <4>1, Zenon DEF Good
    <3>4. /\ entry.expiry \in Nat
          /\ entry.expiry = entry.put_at + TicksPerSecond * Min(Range(entry.answer.ttls))
      BY <3>3, Zenon DEF Timely, Records, Lifetime
    <3>5. PICK expiry \in Nat : expiry = entry.expiry /\ now < expiry
      BY <2>2, <3>1, <3>2, <3>4, SMT, SMTT(30)
    <3>6. LET left == -((now - expiry) \div TicksPerSecond)
          IN  left >= 1 /\ (now + left * TicksPerSecond) - expiry \in 0 .. TicksPerSecond - 1
      BY <2>2, <3>5, CacheAssumption, Rounding, Zenon
    <3> QED BY <3>2, <3>4, <3>5, <3>6, Zenon DEF remaining_ttl, Overrun
  <2> QED BY <2>1, <2>5, <2>6, Zenon DEF CacheIsSound
<1> QED BY <1>1, Invariance, PTL

=============================================================================

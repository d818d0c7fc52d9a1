----------------------- MODULE CoroutineRuntimeProofs -----------------------
(***************************************************************************)
(* Proofs about the coroutine runtime and the timer queue it drives, for   *)
(* every set of frames, every clock and every budget.                      *)
(*                                                                         *)
(* The first part is about the operations of TimerQueue: a queue that is   *)
(* Sound, its heap in order and its registrations knowing their places, is *)
(* so again after arm, remove_at, disarm and abandon (HeapIsKept).  The    *)
(* loops of sift_up and sift_down are a Repeat, which is reasoned about by *)
(* induction on the number of its rounds.                                  *)
(*                                                                         *)
(* The inductive invariant Core relates frames, scheduler and timers.  Its *)
(* part Forest says who owns a frame and what wakes it.  The operations on *)
(* frames and on the scheduler's lists come first, then one lemma for      *)
(* every action of the runtime, and the theorems.                          *)
(***************************************************************************)
EXTENDS CoroutineRuntime, TLAPS

-----------------------------------------------------------------------------
(* The timer queue *)

\* Induction over the naturals.  It is proved last, as NaturalInduction: the library it
\* comes from would weigh on every step after it.
Induction == \A S : 0 \in S /\ (\A n \in Nat : n \in S => n + 1 \in S) => Nat \subseteq S

Places(q) == 0 .. TQ!size(q) - 1

Armed(q) == {TQ!At(q, i) : i \in Places(q)}

\* Every registration knows its place, but for those in X: remove_at fills the
\* gap before the removed registration learns that it is out of the heap.
Placed(q, X) ==
    /\ q \in TQ!Queue /\ X \subseteq Frames
    /\ \A i \in Places(q) : q.heap_index[TQ!At(q, i)] = i /\ TQ!At(q, i) \notin X
    /\ \A r \in Frames \ X : \/ q.heap_index[r] = TQ!not_in_heap
                             \/ /\ q.heap_index[r] \in Places(q)
                                /\ TQ!At(q, q.heap_index[r]) = r

\* next_sequence_ has put the armed registrations in one order
Sequenced(q) ==
    /\ q.before \subseteq Armed(q) \X Armed(q)
    /\ \A x \in Armed(q) : <<x, x>> \notin q.before
    /\ \A x, y \in Armed(q) : x # y => <<x, y>> \in q.before \/ <<y, x>> \in q.before
    /\ \A x, y, z \in Armed(q) :
           <<x, y>> \in q.before /\ <<y, z>> \in q.before => <<x, z>> \in q.before

\* the registration at place i is earlier than the one at place j
Precedes(q, i, j) == TQ!earlier(q, TQ!At(q, i), TQ!At(q, j))

HeapOrder(q) == \A j \in Places(q) \ {0} : Precedes(q, TQ!Parent(j), j)

\* what every operation of the queue finds and leaves
Sound(q) == Placed(q, {}) /\ Sequenced(q) /\ HeapOrder(q)

SameFlags(q, n) ==
    n.running = q.running /\ n.accepting = q.accepting /\ n.failed = q.failed

\* n is q with A armed in it
Kept(q, n, A) == Sound(n) /\ Armed(n) = A /\ SameFlags(q, n)

\* What the members of a queue are.
LEMMA QueueTyped ==
    ASSUME NEW q \in TQ!Queue
    PROVE  /\ q.heap \in Seq(Frames) /\ TQ!size(q) \in Nat /\ TQ!size(q) = Len(q.heap)
           /\ q.heap_index \in [Frames -> Int] /\ q.deadline \in [Frames -> Int]
           /\ q.before \in SUBSET (Frames \X Frames)
           /\ q.running \in BOOLEAN /\ q.accepting \in BOOLEAN /\ q.failed \in BOOLEAN
           /\ \A i \in Places(q) : TQ!At(q, i) \in Frames /\ i \in Nat /\ i < TQ!size(q)
           /\ \A i \in Nat : i < TQ!size(q) => i \in Places(q)
<1>1. /\ q.heap \in Seq(Frames)
      /\ q.heap_index \in [Frames -> Int] /\ q.deadline \in [Frames -> Int]
      /\ q.before \in SUBSET (Frames \X Frames)
      /\ q.running \in BOOLEAN /\ q.accepting \in BOOLEAN /\ q.failed \in BOOLEAN
  BY DEF TQ!Queue
<1>2. TQ!size(q) \in Nat /\ TQ!size(q) = Len(q.heap) BY <1>1 DEF TQ!size
<1>3. ASSUME NEW i \in Places(q) PROVE TQ!At(q, i) \in Frames /\ i \in Nat /\ i < TQ!size(q)
  <2>1. i \in Nat /\ i < Len(q.heap) /\ i + 1 \in 1 .. Len(q.heap) BY <1>2, <1>3 DEF Places
  <2> QED BY <1>1, <1>2, <2>1 DEF TQ!At
<1>4. \A i \in Nat : i < TQ!size(q) => i \in Places(q) BY <1>2 DEF Places
<1> QED BY <1>1, <1>2, <1>3, <1>4, Zenon

\* Armed registrations know their places, the others that they have none.
LEMMA ArmedIs ==
    ASSUME NEW q, Placed(q, {})
    PROVE  /\ TQ!KnowsItsPlace(q) /\ Armed(q) = Range(q.heap) /\ Armed(q) \subseteq Frames
           /\ \A r \in Frames : r \in Armed(q) <=> q.heap_index[r] # TQ!not_in_heap
           /\ \A r \in Armed(q) : q.heap_index[r] \in Places(q) /\ TQ!At(q, q.heap_index[r]) = r
<1>1. q \in TQ!Queue BY DEF Placed
<1>2. /\ q.heap \in Seq(Frames) /\ TQ!size(q) \in Nat /\ TQ!size(q) = Len(q.heap)
      /\ q.heap_index \in [Frames -> Int]
      /\ \A i \in Places(q) : TQ!At(q, i) \in Frames /\ i \in Nat
  BY <1>1, QueueTyped, Zenon
<1>3. Armed(q) \subseteq Frames BY <1>2, Zenon DEF Armed
<1>4. \A r \in Armed(q) : q.heap_index[r] \in Places(q) /\ TQ!At(q, q.heap_index[r]) = r
  BY Zenon DEF Placed, Armed
<1>5. \A i \in Places(q) : i # TQ!not_in_heap BY <1>2 DEF TQ!not_in_heap
<1>6. \A r \in Frames : r \in Armed(q) <=> q.heap_index[r] # TQ!not_in_heap
  <2>1. ASSUME NEW r \in Frames, q.heap_index[r] # TQ!not_in_heap PROVE r \in Armed(q)
    BY <2>1, Zenon DEF Placed, Armed
  <2> QED BY <2>1, <1>4, <1>5, Zenon
<1>7. TQ!KnowsItsPlace(q) BY DEF TQ!KnowsItsPlace, Placed, Places
<1>8. Armed(q) = Range(q.heap)
  <2>1. DOMAIN q.heap = 1 .. TQ!size(q) BY <1>2
  <2>2. \A i \in Places(q) : i + 1 \in DOMAIN q.heap BY <1>2, <2>1 DEF Places
  <2>3. \A k \in DOMAIN q.heap : k - 1 \in Places(q) /\ (k - 1) + 1 = k BY <1>2, <2>1 DEF Places
  <2> QED BY <2>2, <2>3, Zenon DEF Armed, Range, TQ!At
<1> QED BY <1>3, <1>4, <1>6, <1>7, <1>8, Zenon

\* A queue that is sound is what TimersAreInOrder asks for.
LEMMA SoundIs ==
    ASSUME NEW q, Sound(q)
    PROVE  TQ!KnowsItsPlace(q) /\ TQ!InHeapOrder(q) /\ q \in TQ!Queue
<1>1. q \in TQ!Queue BY Zenon DEF Sound, Placed
<1>2. TQ!size(q) \in Nat BY <1>1, QueueTyped, Zenon
<1>3. \A j \in 1 .. TQ!size(q) - 1 : j \in Places(q) \ {0} BY <1>2 DEF Places
<1>4. TQ!InHeapOrder(q) BY <1>3, Zenon DEF TQ!InHeapOrder, Sound, HeapOrder, Precedes
<1> QED BY <1>1, <1>4, ArmedIs, Zenon DEF Sound

\* A function changed in two places.
LEMMA ChangedTwice ==
    ASSUME NEW A, NEW B, NEW g \in [A -> B], NEW i \in A, NEW j \in A, i # j,
           NEW u \in B, NEW v \in B
    PROVE  LET h == [g EXCEPT ![i] = u, ![j] = v]
           IN  /\ h \in [A -> B] /\ h[i] = u /\ h[j] = v
               /\ \A k \in A : k # i /\ k # j => h[k] = g[k]
OBVIOUS

\* What arm, remove_at, disarm and the destruction of frames do to a queue that is
\* sound: it stays sound, and what is armed in it is what should be.
LEMMA HeapIsKept ==
    ASSUME Induction
    PROVE
    /\ \A q, r, deadline :
           Sound(q) /\ r \in Frames /\ r \notin Armed(q) /\ deadline \in Int =>
               Kept(q, TQ!arm(q, r, deadline), Armed(q) \cup {r})
    /\ \A q, i : Sound(q) /\ i \in Places(q) =>
           Kept(q, TQ!remove_at(q, i), Armed(q) \ {TQ!At(q, i)})
    /\ \A q, r : Sound(q) /\ r \in Armed(q) => Kept(q, TQ!disarm(q, r), Armed(q) \ {r})
    /\ \A q, S : Sound(q) /\ S \in SUBSET Frames => Kept(q, AbandonAll(q, S), Armed(q) \ S)
\* A set with 0 in it that has every successor has every number.
<1>SetInduction. ASSUME NEW S, 0 \in S, \A n \in Nat : n \in S => n + 1 \in S
      PROVE  Nat \subseteq S
  BY <1>SetInduction, Zenon DEF Induction
\* after solves the recursion of Repeat(body, start, n)
<1> DEFINE Rounds(body, start, n, after) ==
               after = [k \in 0 .. n |-> IF k = 0 THEN start ELSE body[after[k - 1]]]
<1> HIDE DEF Rounds
\* The recursion of Repeat has a solution.
<1>RoundsExist. ASSUME NEW body, NEW start, NEW k \in Nat
      PROVE  \E after : Rounds(body, start, k, after)
  <2> USE <1>RoundsExist
  <2> DEFINE Solved(m) == \E a : Rounds(body, start, m, a)
             S == {m \in Nat : Solved(m)}
  <2>1. Solved(0)
    <3>1. Rounds(body, start, 0, [n \in 0 .. 0 |-> start]) BY DEF Rounds
    <3> QED BY <3>1, Zenon
  <2>2. ASSUME NEW m \in Nat, Solved(m) PROVE Solved(m + 1)
    <3>1. PICK a : Rounds(body, start, m, a) BY <2>2
    <3>2. \A n \in 0 .. m : a[n] = IF n = 0 THEN start ELSE body[a[n - 1]]
      BY <3>1 DEF Rounds
    <3> DEFINE g == [n \in 0 .. m + 1 |-> IF n = m + 1 THEN body[a[m]] ELSE a[n]]
    <3>3. ASSUME NEW n \in 0 .. m + 1
          PROVE  g[n] = IF n = 0 THEN start ELSE body[g[n - 1]]
      <4>1. CASE n = m + 1
        <5>1. n - 1 = m /\ m \in 0 .. m + 1 /\ m # m + 1 /\ n # 0 BY <4>1
        <5> QED BY <4>1, <5>1
      <4>2. CASE n # m + 1
        <5>1. n \in 0 .. m /\ (n # 0 => n - 1 \in 0 .. m + 1 /\ n - 1 # m + 1) BY <4>2
        <5> QED BY <3>2, <4>2, <5>1
      <4> QED BY <4>1, <4>2
    <3>4. Rounds(body, start, m + 1, g)
      <4>1. g = [n \in 0 .. m + 1 |-> g[n]] OBVIOUS
      <4> HIDE DEF g
      <4> QED BY <4>1, <3>3, Zenon DEF Rounds
    <3> QED BY <3>4, Zenon
  <2> HIDE DEF Solved
  <2>3. 0 \in S /\ \A n \in Nat : n \in S => n + 1 \in S
    <3>1. 0 \in Nat /\ \A n \in Nat : n + 1 \in Nat OBVIOUS
    <3> QED BY <2>1, <2>2, <3>1, Zenon
  <2>4. Nat \subseteq S
    <3> HIDE DEF S
    <3> QED BY <2>3, <1>SetInduction
  <2> QED BY <2>4, Zenon DEF Solved
\* Two solutions agree where both are defined.
<1>RoundsAgree. ASSUME NEW body, NEW start, NEW k \in Nat, NEW l \in Nat, NEW d, NEW e,
             Rounds(body, start, k, d), Rounds(body, start, l, e),
             NEW n \in Nat, n <= k, n <= l
      PROVE  d[n] = e[n]
  <2> USE <1>RoundsAgree
  <2>1. /\ \A m \in 0 .. k : d[m] = IF m = 0 THEN start ELSE body[d[m - 1]]
        /\ \A m \in 0 .. l : e[m] = IF m = 0 THEN start ELSE body[e[m - 1]]
    BY DEF Rounds
  <2> DEFINE S == {m \in Nat : m <= k /\ m <= l => d[m] = e[m]}
  <2>2. 0 \in S BY <2>1
  <2>3. ASSUME NEW m \in Nat, m \in S PROVE m + 1 \in S
    <3>1. ASSUME m + 1 <= k, m + 1 <= l PROVE d[m + 1] = e[m + 1]
      <4>1. /\ m <= k /\ m <= l /\ m + 1 \in 0 .. k /\ m + 1 \in 0 .. l
            /\ m + 1 # 0 /\ (m + 1) - 1 = m
        BY <3>1
      <4>2. d[m] = e[m] BY <2>3, <4>1, Zenon
      <4> QED BY <2>1, <4>1, <4>2
    <3> QED BY <3>1
  <2>4. Nat \subseteq S
    <3> HIDE DEF S
    <3> QED BY <2>2, <2>3, <1>SetInduction
  <2> QED BY <2>4, Zenon
\* No round leaves the start; one round more is the body once more.
<1>RepeatIs. ASSUME NEW body, NEW start, NEW k \in Nat
      PROVE  /\ TQ!Repeat(body, start, 0) = start
             /\ TQ!Repeat(body, start, k + 1) = body[TQ!Repeat(body, start, k)]
  <2> USE <1>RepeatIs
  <2>1. ASSUME NEW m \in Nat
        PROVE  \E a : Rounds(body, start, m, a) /\ TQ!Repeat(body, start, m) = a[m]
    <3> DEFINE after == CHOOSE a : Rounds(body, start, m, a)
    <3>1. PICK a : Rounds(body, start, m, a) BY <1>RoundsExist, Zenon
    <3>2. Rounds(body, start, m, after) BY <3>1, Zenon
    <3>3. TQ!Repeat(body, start, m) = after[m] BY DEF TQ!Repeat, Rounds
    <3> HIDE DEF after
    <3> QED BY <3>2, <3>3, Zenon
  <2>2. 0 \in Nat /\ k + 1 \in Nat /\ k <= k /\ k <= k + 1 /\ (k + 1) - 1 = k OBVIOUS
  <2>3. PICK a : Rounds(body, start, 0, a) /\ TQ!Repeat(body, start, 0) = a[0] BY <2>1, <2>2, Zenon
  <2>4. PICK b : Rounds(body, start, k, b) /\ TQ!Repeat(body, start, k) = b[k] BY <2>1, Zenon
  <2>5. PICK c : Rounds(body, start, k + 1, c) /\ TQ!Repeat(body, start, k + 1) = c[k + 1]
    BY <2>1, <2>2, Zenon
  <2>6. a[0] = start BY <2>3 DEF Rounds
  <2>7. c[k + 1] = body[c[k]] BY <2>2, <2>5 DEF Rounds
  <2>8. b[k] = c[k] BY <2>2, <2>4, <2>5, <1>RoundsAgree
  <2> QED BY <2>3, <2>4, <2>5, <2>6, <2>7, <2>8, Zenon
\* What the start has and every round keeps, the result of a loop has. A member
\* of I is a number of rounds with what the loop may have computed by then.
<1>RepeatKeeps. ASSUME NEW body, NEW start, NEW I, <<0, start>> \in I,
             \A k \in Nat : \A c : <<k, c>> \in I => <<k + 1, body[c]>> \in I,
             NEW n \in Nat
      PROVE  <<n, TQ!Repeat(body, start, n)>> \in I
  <2> USE <1>RepeatKeeps
  <2> DEFINE S == {m \in Nat : <<m, TQ!Repeat(body, start, m)>> \in I}
  <2>1. TQ!Repeat(body, start, 0) = start /\ 0 \in Nat BY <1>RepeatIs
  <2>2. 0 \in S BY <2>1, Zenon
  <2>3. ASSUME NEW m \in Nat, m \in S PROVE m + 1 \in S
    <3>1. TQ!Repeat(body, start, m + 1) = body[TQ!Repeat(body, start, m)] BY <1>RepeatIs, Zenon
    <3>2. m + 1 \in Nat OBVIOUS
    <3> QED BY <2>3, <3>1, <3>2, Zenon
  <2>4. Nat \subseteq S
    <3> HIDE DEF S
    <3> QED BY <2>2, <2>3, <1>SetInduction
  <2> QED BY <2>4, Zenon
\* A loop that only swaps places leaves all of this as it was.
<1> DEFINE Rearranged(q, n, X) ==
               /\ TQ!size(n) = TQ!size(q) /\ Armed(n) = Armed(q)
               /\ n.deadline = q.deadline /\ n.before = q.before
               /\ n.running = q.running /\ n.accepting = q.accepting /\ n.failed = q.failed
               /\ \A x \in X : n.heap_index[x] = q.heap_index[x]
<1> HIDE DEF Rearranged
\* A function on 1 .. n is a sequence of length n.
<1>SequenceFrom. ASSUME NEW n \in Nat, NEW h \in [1 .. n -> Frames]
      PROVE  h \in Seq(Frames) /\ Len(h) = n
  BY <1>SequenceFrom
\* Two places hold two registrations.
<1>PlacesDiffer. ASSUME NEW q, NEW X, Placed(q, X), NEW i \in Places(q), NEW j \in Places(q), i # j
      PROVE  TQ!At(q, i) # TQ!At(q, j)
  BY <1>PlacesDiffer, Zenon DEF Placed
\* Precedes is a strict order in which any two places of the heap are related.
<1> DEFINE OrderedPlaces(q) ==
               /\ \A i, j \in Places(q) : Precedes(q, i, j) => ~Precedes(q, j, i)
               /\ \A i, j \in Places(q) : i # j => Precedes(q, i, j) \/ Precedes(q, j, i)
               /\ \A i, j, k \in Places(q) :
                      Precedes(q, i, j) /\ Precedes(q, j, k) => Precedes(q, i, k)
<1> HIDE DEF OrderedPlaces
\* earlier is decided by deadlines, and between equal ones by the order of arming.
<1>EarlierIsAnOrder. ASSUME NEW q, NEW X, Placed(q, X), Sequenced(q)
      PROVE  OrderedPlaces(q)
  <2> USE <1>EarlierIsAnOrder
  <2>1. q.deadline \in [Frames -> Int] /\ \A i \in Places(q) : TQ!At(q, i) \in Armed(q) \cap Frames
    BY QueueTyped, Zenon DEF Placed, Armed
  <2>2. ASSUME NEW x \in Frames, NEW y \in Frames, x \in Armed(q), y \in Armed(q)
        PROVE  /\ TQ!earlier(q, x, y) => ~TQ!earlier(q, y, x)
               /\ x # y => TQ!earlier(q, x, y) \/ TQ!earlier(q, y, x)
    <3>1. /\ <<x, y>> \in q.before => <<y, x>> \notin q.before
          /\ x # y => <<x, y>> \in q.before \/ <<y, x>> \in q.before
      BY <2>2, Zenon DEF Sequenced
    <3>2. q.deadline[x] \in Int /\ q.deadline[y] \in Int BY <2>1
    <3> QED BY <3>1, <3>2 DEF TQ!earlier
  <2>3. ASSUME NEW x \in Frames, NEW y \in Frames, NEW z \in Frames,
               x \in Armed(q), y \in Armed(q), z \in Armed(q),
               TQ!earlier(q, x, y), TQ!earlier(q, y, z)
        PROVE  TQ!earlier(q, x, z)
    <3>1. <<x, y>> \in q.before /\ <<y, z>> \in q.before => <<x, z>> \in q.before
      BY <2>3, Zenon DEF Sequenced
    <3>2. q.deadline[x] \in Int /\ q.deadline[y] \in Int /\ q.deadline[z] \in Int BY <2>1
    <3> QED BY <2>3, <3>1, <3>2 DEF TQ!earlier
  <2>4. \A i, j \in Places(q) : Precedes(q, i, j) => ~Precedes(q, j, i)
    BY <2>1, <2>2, Zenon DEF Precedes
  <2>5. \A i, j \in Places(q) : i # j => Precedes(q, i, j) \/ Precedes(q, j, i)
    BY <2>1, <2>2, <1>PlacesDiffer, Zenon DEF Precedes
  <2>6. \A i, j, k \in Places(q) : Precedes(q, i, j) /\ Precedes(q, j, k) => Precedes(q, i, k)
    BY <2>1, <2>3, Zenon DEF Precedes
  <2> QED BY <2>4, <2>5, <2>6, Zenon DEF OrderedPlaces
\* The order survives what only rearranges the heap.
<1>SequencedKept. ASSUME NEW q, NEW n, NEW X, Sequenced(q), Rearranged(q, n, X)
      PROVE  Sequenced(n)
  BY <1>SequencedKept, Zenon DEF Sequenced, Rearranged
\* The parent of a place, and the places it is the parent of.
<1>ParentIs. ASSUME NEW j \in Nat
      PROVE  /\ j # 0 => /\ TQ!Parent(j) \in Nat /\ TQ!Parent(j) < j
                         /\ j = 2 * TQ!Parent(j) + 1 \/ j = 2 * TQ!Parent(j) + 2
             /\ TQ!Parent(2 * j + 1) = j /\ TQ!Parent(2 * j + 2) = j
  BY <1>ParentIs DEF TQ!Parent
\* Places and their parents.
<1>PlaceParent. ASSUME NEW q \in TQ!Queue, NEW j \in Places(q)
      PROVE  /\ j \in Nat /\ j < TQ!size(q)
             /\ j # 0 => /\ TQ!Parent(j) \in Places(q) /\ TQ!Parent(j) < j /\ TQ!Parent(j) # j
                         /\ j = 2 * TQ!Parent(j) + 1 \/ j = 2 * TQ!Parent(j) + 2
             /\ \A k \in Places(q) \ {0} : TQ!Parent(k) = j => j < k
  <2> USE <1>PlaceParent
  <2>1. TQ!size(q) \in Nat /\ j \in Nat /\ j < TQ!size(q) BY QueueTyped, Zenon
  <2>2. \A k \in Places(q) \ {0} : k \in Nat /\ k # 0 BY QueueTyped, Zenon
  <2>3. \A k \in Nat : k # 0 => TQ!Parent(k) < k BY <1>ParentIs, Zenon
  <2>4. j # 0 => /\ TQ!Parent(j) \in Nat /\ TQ!Parent(j) < j
                 /\ j = 2 * TQ!Parent(j) + 1 \/ j = 2 * TQ!Parent(j) + 2
    BY <2>1, <1>ParentIs, Zenon
  <2>5. j # 0 => TQ!Parent(j) \in Places(q) /\ TQ!Parent(j) # j BY <2>1, <2>4 DEF Places
  <2> QED BY <2>1, <2>2, <2>3, <2>4, <2>5, Zenon
\* swap_nodes exchanges two places and nothing else.
<1>Swap. ASSUME NEW q, NEW X, Placed(q, X), NEW i \in Places(q), NEW j \in Places(q), i # j
      PROVE  LET n == TQ!swap_nodes(q, i, j)
             IN  /\ Placed(n, X) /\ Rearranged(q, n, X) /\ Places(n) = Places(q)
                 /\ TQ!At(n, i) = TQ!At(q, j) /\ TQ!At(n, j) = TQ!At(q, i)
                 /\ \A k \in Places(q) \ {i, j} : TQ!At(n, k) = TQ!At(q, k)
  <2> USE <1>Swap
  <2> DEFINE n == TQ!swap_nodes(q, i, j)
             a == TQ!At(q, i)
             b == TQ!At(q, j)
             h == [q.heap EXCEPT ![i + 1] = b, ![j + 1] = a]
             x == [q.heap_index EXCEPT ![a] = j, ![b] = i]
  <2>1. q \in TQ!Queue BY DEF Placed
  <2>2. /\ q.heap \in Seq(Frames) /\ TQ!size(q) \in Nat /\ TQ!size(q) = Len(q.heap)
        /\ q.heap_index \in [Frames -> Int]
        /\ a \in Frames /\ b \in Frames /\ i \in Nat /\ j \in Nat
        /\ i < TQ!size(q) /\ j < TQ!size(q)
    BY <2>1, QueueTyped, Zenon
  <2>3. a # b BY <1>PlacesDiffer, Zenon
  <2>4. n = [q EXCEPT !.heap = h, !.heap_index = x] BY DEF TQ!swap_nodes
  <2> HIDE DEF n, a, b
  <2>5. /\ h \in Seq(Frames) /\ Len(h) = Len(q.heap)
        /\ h[i + 1] = b /\ h[j + 1] = a
        /\ \A k \in 1 .. Len(q.heap) : k # i + 1 /\ k # j + 1 => h[k] = q.heap[k]
    <3>1. /\ q.heap \in [1 .. Len(q.heap) -> Frames] /\ Len(q.heap) \in Nat
          /\ i + 1 \in 1 .. Len(q.heap) /\ j + 1 \in 1 .. Len(q.heap) /\ i + 1 # j + 1
      BY <2>2
    <3>2. /\ h \in [1 .. Len(q.heap) -> Frames] /\ h[i + 1] = b /\ h[j + 1] = a
          /\ \A k \in 1 .. Len(q.heap) : k # i + 1 /\ k # j + 1 => h[k] = q.heap[k]
      BY <2>2, <3>1, ChangedTwice, Zenon
    <3> HIDE DEF h
    <3> QED BY <3>1, <3>2, <1>SequenceFrom, Zenon
  <2>6. /\ x \in [Frames -> Int] /\ x[a] = j /\ x[b] = i
        /\ \A r \in Frames : r # a /\ r # b => x[r] = q.heap_index[r]
    <3>1. i \in Int /\ j \in Int BY <2>2
    <3> QED BY <3>1, <2>2, <2>3, ChangedTwice, Zenon
  <2> HIDE DEF h, x
  <2>7. /\ n \in TQ!Queue /\ n.heap = h /\ n.heap_index = x
        /\ n.deadline = q.deadline /\ n.before = q.before
        /\ n.running = q.running /\ n.accepting = q.accepting /\ n.failed = q.failed
    BY <2>1, <2>4, <2>5, <2>6, Zenon DEF TQ!Queue
  <2>8. TQ!size(n) = TQ!size(q) /\ Places(n) = Places(q) BY <2>5, <2>7 DEF TQ!size, Places
  <2>9. TQ!At(n, i) = b /\ TQ!At(n, j) = a BY <2>5, <2>7, Zenon DEF TQ!At
  <2>10. ASSUME NEW k \in Places(q), k \notin {i, j} PROVE TQ!At(n, k) = TQ!At(q, k)
    <3>1. k + 1 \in 1 .. Len(q.heap) /\ k + 1 # i + 1 /\ k + 1 # j + 1
      BY <2>2, <2>10 DEF Places
    <3> QED BY <2>5, <2>7, <3>1, Zenon DEF TQ!At
  <2>11. Armed(n) = Armed(q)
    <3>1. \A k \in Places(q) : TQ!At(n, k) \in Armed(q) BY <2>9, <2>10, Zenon DEF Armed, a, b
    <3>2. \A k \in Places(q) : TQ!At(q, k) \in Armed(n)
      BY <2>8, <2>9, <2>10, Zenon DEF Armed, a, b
    <3> QED BY <2>8, <3>1, <3>2, Zenon DEF Armed
  <2>12. a \notin X /\ b \notin X BY Zenon DEF Placed, a, b
  <2>13. ASSUME NEW k \in Places(q) PROVE x[TQ!At(n, k)] = k /\ TQ!At(n, k) \notin X
    <3>1. CASE k \in {i, j} BY <3>1, <2>6, <2>9, <2>12, Zenon
    <3>2. CASE k \notin {i, j}
      <4>1. TQ!At(q, k) # a /\ TQ!At(q, k) # b BY <3>2, <1>PlacesDiffer, Zenon DEF a, b
      <4>2. TQ!At(q, k) \in Frames BY <2>1, QueueTyped, Zenon
      <4> QED BY <3>2, <4>1, <4>2, <2>6, <2>10, Zenon DEF Placed
    <3> QED BY <3>1, <3>2, Zenon
  <2>14. ASSUME NEW r \in Frames, r \notin X
         PROVE  x[r] = TQ!not_in_heap \/ (x[r] \in Places(q) /\ TQ!At(n, x[r]) = r)
    <3>1. CASE r \in {a, b} BY <3>1, <2>6, <2>9, Zenon
    <3>2. CASE r \notin {a, b}
      <4>1. x[r] = q.heap_index[r] BY <3>2, <2>6, Zenon
      <4>2. CASE q.heap_index[r] \in Places(q) /\ TQ!At(q, q.heap_index[r]) = r
        <5>1. q.heap_index[r] \notin {i, j} BY <3>2, <4>2, Zenon DEF a, b
        <5> QED BY <4>1, <4>2, <5>1, <2>10, Zenon
      <4> QED BY <4>1, <4>2, <2>14, Zenon DEF Placed
    <3> QED BY <3>1, <3>2, Zenon
  <2>15. Placed(n, X) BY <2>7, <2>8, <2>13, <2>14, Zenon DEF Placed
  <2>16. \A r \in X : n.heap_index[r] = q.heap_index[r]
    BY <2>6, <2>7, <2>12, Zenon DEF Placed
  <2>17. Rearranged(q, n, X) BY <2>7, <2>8, <2>11, <2>16, Zenon DEF Rearranged
  <2> QED BY <2>8, <2>9, <2>10, <2>15, <2>17, Zenon DEF n, a, b
\* where a registration at place k is after places i and j were exchanged
<1> DEFINE Exchanged(i, j, k) == IF k = i THEN j ELSE IF k = j THEN i ELSE k
<1> HIDE DEF Exchanged
\* What a swap does to the order of the places.
<1>SwapPrecedes. ASSUME NEW q, NEW X, Placed(q, X), NEW i \in Places(q), NEW j \in Places(q), i # j,
             NEW x \in Places(q), NEW y \in Places(q)
      PROVE  Precedes(TQ!swap_nodes(q, i, j), x, y) <=>
                 Precedes(q, Exchanged(i, j, x), Exchanged(i, j, y))
  <2> USE <1>SwapPrecedes
  <2> DEFINE n == TQ!swap_nodes(q, i, j)
  <2>1. /\ Placed(n, X) /\ Rearranged(q, n, X) /\ Places(n) = Places(q)
        /\ TQ!At(n, i) = TQ!At(q, j) /\ TQ!At(n, j) = TQ!At(q, i)
        /\ \A k \in Places(q) \ {i, j} : TQ!At(n, k) = TQ!At(q, k)
    BY <1>Swap, ZenonT(60)
  <2> HIDE DEF n
  <2>2. \A k \in Places(q) : TQ!At(n, k) = TQ!At(q, Exchanged(i, j, k))
    BY <2>1, Zenon DEF Exchanged
  <2>3. n.deadline = q.deadline /\ n.before = q.before BY <2>1, Zenon DEF Rearranged
  <2>4. \A l, r : TQ!earlier(n, l, r) <=> TQ!earlier(q, l, r) BY <2>3, Zenon DEF TQ!earlier
  <2>5. TQ!At(n, x) = TQ!At(q, Exchanged(i, j, x)) /\ TQ!At(n, y) = TQ!At(q, Exchanged(i, j, y))
    BY <2>2, Zenon
  <2> QED BY <2>4, <2>5, Zenon DEF Precedes, n
\* The heap is in order but that the registration at place i may be too far down,
\* or too far up: sift_up and sift_down.
<1> DEFINE UpTo(q, i) ==
               \A j \in Places(q) \ {0} :
                   /\ j # i => Precedes(q, TQ!Parent(j), j)
                   /\ TQ!Parent(j) = i /\ i # 0 => Precedes(q, TQ!Parent(i), j)
<1> HIDE DEF UpTo
<1> DEFINE DownFrom(q, i) ==
               \A j \in Places(q) \ {0} :
                   /\ TQ!Parent(j) # i => Precedes(q, TQ!Parent(j), j)
                   /\ TQ!Parent(j) = i /\ i # 0 => Precedes(q, TQ!Parent(i), j)
<1> HIDE DEF DownFrom
\* A registration that is earlier than its parent goes one place up.
<1>UpStepKeeps. ASSUME NEW q, NEW X, Placed(q, X), Sequenced(q), NEW i \in Places(q), UpTo(q, i),
             i # 0, Precedes(q, i, TQ!Parent(i))
      PROVE  UpTo(TQ!swap_nodes(q, i, TQ!Parent(i)), TQ!Parent(i))
  <2> USE <1>UpStepKeeps
  <2> DEFINE p == TQ!Parent(i)
             n == TQ!swap_nodes(q, i, p)
             P(x, y) == Precedes(q, x, y)
  <2>1. q \in TQ!Queue /\ OrderedPlaces(q) BY <1>EarlierIsAnOrder, Zenon DEF Placed
  <2>2. p \in Places(q) /\ p < i /\ p # i /\ i \in Nat /\ p \in Nat
    <3>1. p \in Places(q) /\ p < i /\ p # i /\ i \in Nat BY <2>1, <1>PlaceParent, Zenon
    <3> QED BY <3>1, <2>1, <1>PlaceParent, Zenon
  <2>3. Places(n) = Places(q) BY <2>2, <1>Swap, Zenon
  <2>4. \A x, y \in Places(q) : Precedes(n, x, y) <=> P(Exchanged(i, p, x), Exchanged(i, p, y))
    BY <2>2, <1>SwapPrecedes, Zenon
  <2> HIDE DEF n
  <2>5. \A j \in Places(q) \ {0} :
            /\ TQ!Parent(j) \in Places(q) /\ TQ!Parent(j) # j
            /\ j # i => P(TQ!Parent(j), j)
            /\ TQ!Parent(j) = i => P(p, j)
    BY <2>1, <1>PlaceParent, Zenon DEF UpTo
  <2>6. p # 0 => TQ!Parent(p) \in Places(q) /\ TQ!Parent(p) # p /\ TQ!Parent(p) # i
    <3>1. p # 0 => TQ!Parent(p) \in Places(q) /\ TQ!Parent(p) # p /\ TQ!Parent(p) < p
      BY <2>1, <2>2, <1>PlaceParent, Zenon
    <3>2. p # 0 => TQ!Parent(p) \in Nat BY <3>1, <2>1, <1>PlaceParent, Zenon
    <3> QED BY <3>1, <3>2, <2>2
  <2>7. \A x, y, z \in Places(q) : P(x, y) /\ P(y, z) => P(x, z) BY <2>1, Zenon DEF OrderedPlaces
  <2>8. P(i, p) OBVIOUS
  <2> HIDE DEF P, p
  <2>9. ASSUME NEW j \in Places(q), j # 0, j # p PROVE Precedes(n, TQ!Parent(j), j)
    <3>1. CASE j = i BY <3>1, <2>2, <2>4, <2>8, Zenon DEF Exchanged, p
    <3>2. CASE j # i /\ TQ!Parent(j) = i BY <3>2, <2>2, <2>4, <2>5, <2>9, Zenon DEF Exchanged
    <3>3. CASE j # i /\ TQ!Parent(j) = p
      <4>1. P(p, j) BY <3>3, <2>5, <2>9, Zenon
      <4>2. P(i, j) BY <4>1, <2>2, <2>7, <2>8, Zenon
      <4> QED BY <3>3, <4>2, <2>2, <2>4, <2>9, Zenon DEF Exchanged
    <3>4. CASE j # i /\ TQ!Parent(j) # i /\ TQ!Parent(j) # p
      BY <3>4, <2>4, <2>5, <2>9, Zenon DEF Exchanged
    <3> QED BY <3>1, <3>2, <3>3, <3>4, Zenon
  <2>10. ASSUME NEW j \in Places(q), j # 0, TQ!Parent(j) = p, p # 0
         PROVE  Precedes(n, TQ!Parent(p), j)
    <3>1. P(TQ!Parent(p), p) BY <2>2, <2>5, <2>10, Zenon
    <3>2. CASE j = i BY <3>1, <3>2, <2>2, <2>4, <2>6, <2>10, Zenon DEF Exchanged
    <3>3. CASE j # i
      <4>1. j # p BY <2>5, <2>10, Zenon
      <4>2. P(p, j) BY <3>3, <2>5, <2>10, Zenon
      <4>3. P(TQ!Parent(p), j) BY <3>1, <4>2, <2>2, <2>6, <2>7, <2>10, Zenon
      <4> QED BY <3>3, <4>1, <4>3, <2>4, <2>6, <2>10, Zenon DEF Exchanged
    <3> QED BY <3>2, <3>3, Zenon
  <2> QED BY <2>3, <2>9, <2>10, Zenon DEF UpTo, n, p
\* The child sift_down looks at is the earliest one.
<1>EarliestChildIs. ASSUME NEW q, NEW X, Placed(q, X), Sequenced(q), NEW i \in Places(q),
             2 * i + 1 < TQ!size(q)
      PROVE  LET c == TQ!EarliestChild(q, i)
             IN  /\ c \in Places(q) /\ c # 0 /\ i < c /\ TQ!Parent(c) = i
                 /\ \A j \in Places(q) \ {0} : TQ!Parent(j) = i /\ j # c => Precedes(q, c, j)
  <2> USE <1>EarliestChildIs
  <2> DEFINE l == 2 * i + 1
             r == l + 1
  <2>1. q \in TQ!Queue /\ OrderedPlaces(q) BY <1>EarlierIsAnOrder, Zenon DEF Placed
  <2>2. TQ!size(q) \in Nat /\ i \in Nat BY <2>1, QueueTyped, Zenon
  <2>3. /\ l \in Places(q) /\ l # 0 /\ i < l /\ l # r /\ r # 0 /\ i < r /\ r = 2 * i + 2
        /\ r < TQ!size(q) <=> r \in Places(q)
    BY <2>2 DEF Places
  <2>4. TQ!Parent(l) = i /\ TQ!Parent(r) = i BY <2>2, <2>3, <1>ParentIs, Zenon
  <2>5. \A j \in Places(q) \ {0} : TQ!Parent(j) = i => j = l \/ j = r
    <3>1. ASSUME NEW j \in Places(q) \ {0}, TQ!Parent(j) = i PROVE j = l \/ j = r
      <4>1. j = 2 * i + 1 \/ j = 2 * i + 2 BY <3>1, <2>1, <1>PlaceParent, Zenon
      <4> QED BY <4>1, <2>3, Zenon
    <3> QED BY <3>1
  <2>6. TQ!EarliestChild(q, i) = IF r < TQ!size(q) /\ Precedes(q, r, l) THEN r ELSE l
    BY DEF TQ!EarliestChild, Precedes
  <2> HIDE DEF l, r
  <2>7. r \in Places(q) => Precedes(q, r, l) \/ Precedes(q, l, r)
    BY <2>1, <2>3, Zenon DEF OrderedPlaces
  <2> QED BY <2>3, <2>4, <2>5, <2>6, <2>7, Zenon
\* A registration that is later than its earliest child goes one place down.
<1>DownStepKeeps. ASSUME NEW q, NEW X, Placed(q, X), Sequenced(q), NEW i \in Places(q), DownFrom(q, i),
             2 * i + 1 < TQ!size(q), Precedes(q, TQ!EarliestChild(q, i), i)
      PROVE  DownFrom(TQ!swap_nodes(q, i, TQ!EarliestChild(q, i)), TQ!EarliestChild(q, i))
  <2> USE <1>DownStepKeeps
  <2> DEFINE c == TQ!EarliestChild(q, i)
             n == TQ!swap_nodes(q, i, c)
             P(x, y) == Precedes(q, x, y)
  <2>1. q \in TQ!Queue BY DEF Placed
  <2>2. /\ c \in Places(q) /\ c # 0 /\ i < c /\ TQ!Parent(c) = i
        /\ \A j \in Places(q) \ {0} : TQ!Parent(j) = i /\ j # c => P(c, j)
    BY <1>EarliestChildIs, Zenon
  <2>3. i \in Nat /\ c \in Nat BY <2>1, <2>2, QueueTyped, Zenon
  <2>4. i # c BY <2>2, <2>3
  <2>5. Places(n) = Places(q) BY <2>2, <2>4, <1>Swap, Zenon
  <2>6. \A x, y \in Places(q) : Precedes(n, x, y) <=> P(Exchanged(i, c, x), Exchanged(i, c, y))
    BY <2>2, <2>4, <1>SwapPrecedes, Zenon
  <2> HIDE DEF n
  <2>7. \A j \in Places(q) \ {0} :
            /\ TQ!Parent(j) \in Places(q) /\ TQ!Parent(j) # j
            /\ TQ!Parent(j) # i => P(TQ!Parent(j), j)
            /\ TQ!Parent(j) = i /\ i # 0 => P(TQ!Parent(i), j)
    BY <2>1, <1>PlaceParent, Zenon DEF DownFrom
  <2>8. P(c, i) OBVIOUS
  <2>9. i # 0 => TQ!Parent(i) # c
    <3>1. i # 0 => TQ!Parent(i) < i /\ TQ!Parent(i) \in Places(q) BY <2>1, <1>PlaceParent, Zenon
    <3>2. i # 0 => TQ!Parent(i) \in Nat BY <3>1, <2>1, QueueTyped, Zenon
    <3> QED BY <3>1, <3>2, <2>2, <2>3
  <2> HIDE DEF P, c
  <2>10. ASSUME NEW j \in Places(q), j # 0, TQ!Parent(j) # c PROVE Precedes(n, TQ!Parent(j), j)
    <3>1. CASE j = c BY <3>1, <2>2, <2>4, <2>6, <2>8, Zenon DEF Exchanged
    <3>2. CASE j = i
      <4>1. P(TQ!Parent(i), c) BY <3>2, <2>2, <2>7, <2>10, Zenon
      <4>2. TQ!Parent(i) \in Places(q) /\ TQ!Parent(i) # i BY <3>2, <2>7, <2>10, Zenon
      <4> QED BY <3>2, <4>1, <4>2, <2>4, <2>6, <2>10, Zenon DEF Exchanged
    <3>3. CASE j # c /\ j # i /\ TQ!Parent(j) = i
      BY <3>3, <2>2, <2>6, <2>10, Zenon DEF Exchanged
    <3>4. CASE j # c /\ j # i /\ TQ!Parent(j) # i
      BY <3>4, <2>6, <2>7, <2>10, Zenon DEF Exchanged
    <3> QED BY <3>1, <3>2, <3>3, <3>4, Zenon
  <2>11. ASSUME NEW j \in Places(q), j # 0, TQ!Parent(j) = c PROVE Precedes(n, TQ!Parent(c), j)
    <3>1. P(c, j) /\ j # c BY <2>4, <2>7, <2>11, Zenon
    <3>2. j # i BY <2>9, <2>11, Zenon
    <3> QED BY <3>1, <3>2, <2>2, <2>4, <2>6, <2>11, Zenon DEF Exchanged
  <2> QED BY <2>5, <2>10, <2>11, Zenon DEF DownFrom, n, c
\* Rearranging twice is rearranging.
<1>RearrangedTwice. ASSUME NEW p, NEW q, NEW n, NEW X, Rearranged(p, q, X), Rearranged(q, n, X)
      PROVE  Rearranged(p, n, X)
  BY <1>RearrangedTwice, Zenon DEF Rearranged
\* what every round of sift_up and sift_down keeps
<1> DEFINE Sifting(q, X, c) ==
               /\ c \in TQ!Cursor /\ c.index \in Places(q)
               /\ Placed(c.queue, X) /\ Rearranged(q, c.queue, X)
<1> HIDE DEF Sifting
\* ... and what brings them to an end: the heap is in order, or k rounds have gone
\* k places up or down
<1> DEFINE Rising(q, X, i, k, c) ==
               /\ Sifting(q, X, c) /\ UpTo(c.queue, c.index)
               /\ HeapOrder(c.queue) \/ c.index + k <= i
<1> HIDE DEF Rising
<1> DEFINE Sinking(q, X, i, k, c) ==
               /\ Sifting(q, X, c) /\ DownFrom(c.queue, c.index)
               /\ HeapOrder(c.queue) \/ i + k <= c.index
<1> HIDE DEF Sinking
\* What a round of either loop starts from.
<1>SiftingIs. ASSUME NEW q, NEW X, Sequenced(q), NEW c, Sifting(q, X, c), q \in TQ!Queue
      PROVE  /\ Sequenced(c.queue) /\ OrderedPlaces(c.queue) /\ c.queue \in TQ!Queue
             /\ Places(c.queue) = Places(q) /\ TQ!size(c.queue) = TQ!size(q)
             /\ c.index \in Places(c.queue) /\ c.index \in Nat
  <2> USE <1>SiftingIs
  <2>1. Sequenced(c.queue) BY <1>SequencedKept, Zenon DEF Sifting
  <2>2. TQ!size(c.queue) = TQ!size(q) BY Zenon DEF Sifting, Rearranged
  <2>3. Places(c.queue) = Places(q) BY <2>2, Zenon DEF Places
  <2>4. OrderedPlaces(c.queue) /\ c.queue \in TQ!Queue
    BY <2>1, <1>EarlierIsAnOrder, Zenon DEF Sifting, Placed
  <2>5. c.index \in Places(q) BY Zenon DEF Sifting
  <2>6. c.index \in Nat BY <2>5, QueueTyped, Zenon
  <2> QED BY <2>1, <2>2, <2>3, <2>4, <2>5, <2>6, Zenon
\* A swap is such a round.
<1>SiftingSwaps. ASSUME NEW q, NEW X, Sequenced(q), NEW c, Sifting(q, X, c), q \in TQ!Queue,
             NEW j \in Places(q), j # c.index
      PROVE  LET n == TQ!SwapWith(c, j)
             IN  /\ n.queue = TQ!swap_nodes(c.queue, c.index, j) /\ n.index = j
                 /\ Sifting(q, X, n)
  <2> USE <1>SiftingSwaps
  <2> DEFINE m == TQ!swap_nodes(c.queue, c.index, j)
             n == TQ!SwapWith(c, j)
  <2>1. n = [queue |-> m, index |-> j] BY DEF TQ!SwapWith
  <2>2. Places(c.queue) = Places(q) /\ c.index \in Places(c.queue) BY <1>SiftingIs, Zenon
  <2>3. Placed(m, X) /\ Rearranged(c.queue, m, X)
    BY <2>2, <1>Swap, Zenon DEF Sifting
  <2> HIDE DEF m, n
  <2>4. n.queue = m /\ n.index = j BY <2>1
  <2>5. m \in TQ!Queue /\ j \in Nat BY <2>3, QueueTyped, Zenon DEF Placed
  <2>6. n \in TQ!Cursor BY <2>1, <2>5 DEF TQ!Cursor
  <2>7. Rearranged(q, m, X) BY <2>3, <1>RearrangedTwice, Zenon DEF Sifting
  <2> QED BY <2>3, <2>4, <2>6, <2>7, Zenon DEF Sifting, m, n
\* A round of sift_up.
<1>UpRound. ASSUME NEW q, NEW X, Sequenced(q), q \in TQ!Queue, NEW i \in Nat, NEW k \in Nat, NEW c,
             Rising(q, X, i, k, c)
      PROVE  Rising(q, X, i, k + 1, TQ!UpStep(c))
  <2> USE <1>UpRound
  <2> DEFINE m == c.queue
             p == TQ!Parent(c.index)
  <2>1. Sifting(q, X, c) /\ UpTo(m, c.index) BY Zenon DEF Rising
  <2>2. /\ Sequenced(m) /\ OrderedPlaces(m) /\ m \in TQ!Queue /\ Placed(m, X)
        /\ Places(m) = Places(q) /\ c.index \in Places(m) /\ c.index \in Nat
    BY <2>1, <1>SiftingIs, Zenon DEF Sifting
  <2>3. c.index # 0 => p \in Places(m) /\ p < c.index /\ p # c.index BY <2>2, <1>PlaceParent, Zenon
  <2>4. CASE c.index # 0 /\ Precedes(m, c.index, p)
    <3>1. TQ!UpStep(c) = TQ!SwapWith(c, p) BY <2>4 DEF TQ!UpStep, Precedes
    <3> DEFINE n == TQ!SwapWith(c, p)
    <3>2. n.queue = TQ!swap_nodes(m, c.index, p) /\ n.index = p /\ Sifting(q, X, n)
      BY <2>1, <2>2, <2>3, <2>4, <1>SiftingSwaps, Zenon
    <3>3. UpTo(TQ!swap_nodes(m, c.index, p), p) BY <2>1, <2>2, <2>4, <1>UpStepKeeps, Zenon
    <3>4. ~HeapOrder(m) BY <2>2, <2>3, <2>4, Zenon DEF HeapOrder, OrderedPlaces
    <3>5. c.index + k <= i BY <3>4, Zenon DEF Rising
    <3>6. p \in Nat BY <2>2, <2>3, <2>4, QueueTyped, Zenon
    <3>7. p + (k + 1) <= i BY <2>2, <2>3, <2>4, <3>5, <3>6
    <3> HIDE DEF n
    <3> QED BY <3>1, <3>2, <3>3, <3>7, Zenon DEF Rising, n
  <2>5. CASE ~(c.index # 0 /\ Precedes(m, c.index, p))
    <3>1. TQ!UpStep(c) = c BY <2>5 DEF TQ!UpStep, Precedes
    <3>2. c.index # 0 => Precedes(m, p, c.index) BY <2>2, <2>3, <2>5, Zenon DEF OrderedPlaces
    <3>3. HeapOrder(m) BY <2>1, <3>2, Zenon DEF UpTo, HeapOrder
    <3> QED BY <2>1, <3>1, <3>3, Zenon DEF Rising
  <2> QED BY <2>4, <2>5, Zenon
\* A round of sift_down.
<1>DownRound. ASSUME NEW q, NEW X, Sequenced(q), q \in TQ!Queue, NEW i \in Nat, NEW k \in Nat, NEW c,
             Sinking(q, X, i, k, c)
      PROVE  Sinking(q, X, i, k + 1, TQ!DownStep(c))
  <2> USE <1>DownRound
  <2> DEFINE m == c.queue
             p == TQ!EarliestChild(m, c.index)
             below == 2 * c.index + 1 < TQ!size(m)
  <2>1. Sifting(q, X, c) /\ DownFrom(m, c.index) BY Zenon DEF Sinking
  <2>2. /\ Sequenced(m) /\ OrderedPlaces(m) /\ m \in TQ!Queue /\ Placed(m, X)
        /\ Places(m) = Places(q) /\ c.index \in Places(m) /\ c.index \in Nat
    BY <2>1, <1>SiftingIs, Zenon DEF Sifting
  <2>3. below => /\ p \in Places(m) /\ p # 0 /\ c.index < p /\ TQ!Parent(p) = c.index
                 /\ \A j \in Places(m) \ {0} :
                        TQ!Parent(j) = c.index /\ j # p => Precedes(m, p, j)
    BY <2>2, <1>EarliestChildIs, Zenon
  <2>4. below => p \in Nat BY <2>2, <2>3, QueueTyped, Zenon
  <2>5. below => p # c.index BY <2>2, <2>3, <2>4
  <2>6. CASE below /\ Precedes(m, p, c.index)
    <3>1. TQ!DownStep(c) = TQ!SwapWith(c, p) BY <2>6 DEF TQ!DownStep, Precedes
    <3> DEFINE n == TQ!SwapWith(c, p)
    <3>2. n.queue = TQ!swap_nodes(m, c.index, p) /\ n.index = p /\ Sifting(q, X, n)
      BY <2>1, <2>2, <2>3, <2>5, <2>6, <1>SiftingSwaps, Zenon
    <3>3. DownFrom(TQ!swap_nodes(m, c.index, p), p) BY <2>1, <2>2, <2>6, <1>DownStepKeeps, Zenon
    <3>4. ASSUME HeapOrder(m) PROVE FALSE
      <4>1. Precedes(m, TQ!Parent(p), p) BY <2>3, <2>6, <3>4, Zenon DEF HeapOrder
      <4>2. Precedes(m, c.index, p) BY <2>3, <2>6, <4>1, Zenon
      <4> QED BY <2>2, <2>3, <2>6, <4>2, Zenon DEF OrderedPlaces
    <3>5. i + k <= c.index BY <3>4, Zenon DEF Sinking
    <3>6. i + (k + 1) <= p
      <4>1. PICK x \in Nat, y \in Nat : x = c.index /\ y = p BY <2>2, <2>4, <2>6, Zenon
      <4>2. i + k <= x /\ x < y BY <2>3, <2>6, <3>5, <4>1, Zenon
      <4>3. i + (k + 1) <= y BY <4>2
      <4> QED BY <4>1, <4>3, Zenon
    <3> HIDE DEF n
    <3> QED BY <3>1, <3>2, <3>3, <3>6, Zenon DEF Sinking, n
  <2>7. CASE ~(below /\ Precedes(m, p, c.index))
    <3>1. TQ!DownStep(c) = c BY <2>7 DEF TQ!DownStep, Precedes
    <3>2. below => Precedes(m, c.index, p) BY <2>2, <2>3, <2>5, <2>7, Zenon DEF OrderedPlaces
    <3>3. ASSUME NEW j \in Places(m), j # 0, TQ!Parent(j) = c.index
          PROVE  Precedes(m, c.index, j)
      <4>1. below
        <5>1. j \in Nat /\ j < TQ!size(m) /\ (j = 2 * c.index + 1 \/ j = 2 * c.index + 2)
          BY <2>2, <3>3, <1>PlaceParent, Zenon
        <5>2. TQ!size(m) \in Nat BY <2>2, QueueTyped, Zenon
        <5> QED BY <2>2, <5>1, <5>2
      <4>2. CASE j = p BY <3>2, <4>1, <4>2, Zenon
      <4>3. CASE j # p
        <5>1. Precedes(m, p, j) /\ p \in Places(m) BY <2>3, <3>3, <4>1, <4>3, Zenon
        <5> QED BY <2>2, <3>2, <3>3, <4>1, <5>1, Zenon DEF OrderedPlaces
      <4> QED BY <4>2, <4>3, Zenon
    <3>4. HeapOrder(m) BY <2>1, <3>3, Zenon DEF DownFrom, HeapOrder
    <3> QED BY <2>1, <3>1, <3>4, Zenon DEF Sinking
  <2> QED BY <2>6, <2>7, Zenon
\* No round has gone anywhere.
<1>SiftingStarts. ASSUME NEW q, NEW X, Placed(q, X), NEW i \in Places(q)
      PROVE  LET c == [queue |-> q, index |-> i]
             IN  Sifting(q, X, c) /\ c \in TQ!Cursor /\ c.queue = q /\ c.index = i
  <2> USE <1>SiftingStarts
  <2> DEFINE c == [queue |-> q, index |-> i]
  <2>1. q \in TQ!Queue /\ i \in Nat BY QueueTyped, Zenon DEF Placed
  <2>2. c \in TQ!Cursor /\ c.queue = q /\ c.index = i BY <2>1 DEF TQ!Cursor
  <2>3. Rearranged(q, q, X) BY Zenon DEF Rearranged
  <2> QED BY <2>2, <2>3, Zenon DEF Sifting
\* sift_up ends with a heap in order, index rounds being enough.
<1>SiftUp. ASSUME NEW q, NEW X, Placed(q, X), Sequenced(q), NEW i \in Places(q), UpTo(q, i)
      PROVE  LET n == TQ!sift_up(q, i)
             IN  Placed(n, X) /\ Rearranged(q, n, X) /\ HeapOrder(n)
  <2> USE <1>SiftUp
  <2> DEFINE body == [c \in TQ!Cursor |-> TQ!UpStep(c)]
             start == [queue |-> q, index |-> i]
             I == {p \in Nat \X TQ!Cursor : Rising(q, X, i, p[1], p[2])}
             end == TQ!Repeat(body, start, i)
  <2>1. q \in TQ!Queue /\ i \in Nat BY QueueTyped, Zenon DEF Placed
  <2>2. \A k, c : <<k, c>> \in I <=> k \in Nat /\ Rising(q, X, i, k, c)
    <3>1. \A k, c : Rising(q, X, i, k, c) => c \in TQ!Cursor BY Zenon DEF Rising, Sifting
    <3>2. \A k, c : <<k, c>>[1] = k /\ <<k, c>>[2] = c OBVIOUS
    <3> QED BY <3>1, <3>2, Zenon
  <2>3. <<0, start>> \in I
    <3>1. Sifting(q, X, start) /\ start.queue = q /\ start.index = i BY <1>SiftingStarts, Zenon
    <3>2. i + 0 <= i /\ 0 \in Nat BY <2>1
    <3> HIDE DEF start
    <3>3. Rising(q, X, i, 0, start) BY <3>1, <3>2, Zenon DEF Rising
    <3> QED BY <2>2, <3>2, <3>3, Zenon
  <2>4. ASSUME NEW k \in Nat, NEW c, <<k, c>> \in I PROVE <<k + 1, body[c]>> \in I
    <3>1. Rising(q, X, i, k, c) /\ c \in TQ!Cursor BY <2>2, <2>4, Zenon DEF Rising, Sifting
    <3>2. body[c] = TQ!UpStep(c) BY <3>1, Zenon
    <3>3. Rising(q, X, i, k + 1, TQ!UpStep(c)) BY <2>1, <3>1, <1>UpRound, Zenon
    <3>4. k + 1 \in Nat OBVIOUS
    <3> QED BY <2>2, <3>2, <3>3, <3>4, Zenon
  <2>5. <<i, end>> \in I
    <3> HIDE DEF body, start, I
    <3> QED BY <2>1, <2>3, <2>4, <1>RepeatKeeps
  <2>6. Rising(q, X, i, i, end) BY <2>2, <2>5, Zenon
  <2>7. TQ!sift_up(q, i) = end.queue BY DEF TQ!sift_up
  <2> HIDE DEF end, I
  <2>8. Sifting(q, X, end) /\ UpTo(end.queue, end.index) BY <2>6, Zenon DEF Rising
  <2>9. HeapOrder(end.queue)
    <3>1. end.index \in Nat BY <2>1, <2>8, <1>SiftingIs, Zenon
    <3>2. end.index + i <= i => end.index = 0 BY <2>1, <3>1
    <3>3. end.index = 0 => HeapOrder(end.queue) BY <2>8, Zenon DEF UpTo, HeapOrder
    <3> QED BY <2>6, <3>2, <3>3, Zenon DEF Rising
  <2> QED BY <2>7, <2>8, <2>9, Zenon DEF Sifting
\* sift_down ends with a heap in order, as many rounds as there are places being enough.
<1>SiftDown. ASSUME NEW q, NEW X, Placed(q, X), Sequenced(q), NEW i \in Places(q), DownFrom(q, i)
      PROVE  LET n == TQ!sift_down(q, i)
             IN  Placed(n, X) /\ Rearranged(q, n, X) /\ HeapOrder(n)
  <2> USE <1>SiftDown
  <2> DEFINE body == [c \in TQ!Cursor |-> TQ!DownStep(c)]
             start == [queue |-> q, index |-> i]
             I == {p \in Nat \X TQ!Cursor : Sinking(q, X, i, p[1], p[2])}
             end == TQ!Repeat(body, start, TQ!size(q))
  <2>1. q \in TQ!Queue /\ i \in Nat /\ TQ!size(q) \in Nat BY QueueTyped, Zenon DEF Placed
  <2>2. \A k, c : <<k, c>> \in I <=> k \in Nat /\ Sinking(q, X, i, k, c)
    <3>1. \A k, c : Sinking(q, X, i, k, c) => c \in TQ!Cursor BY Zenon DEF Sinking, Sifting
    <3>2. \A k, c : <<k, c>>[1] = k /\ <<k, c>>[2] = c OBVIOUS
    <3> QED BY <3>1, <3>2, Zenon
  <2>3. <<0, start>> \in I
    <3>1. Sifting(q, X, start) /\ start.queue = q /\ start.index = i BY <1>SiftingStarts, Zenon
    <3>2. i + 0 <= i /\ 0 \in Nat BY <2>1
    <3> HIDE DEF start
    <3>3. Sinking(q, X, i, 0, start) BY <3>1, <3>2, Zenon DEF Sinking
    <3> QED BY <2>2, <3>2, <3>3, Zenon
  <2>4. ASSUME NEW k \in Nat, NEW c, <<k, c>> \in I PROVE <<k + 1, body[c]>> \in I
    <3>1. Sinking(q, X, i, k, c) /\ c \in TQ!Cursor BY <2>2, <2>4, Zenon DEF Sinking, Sifting
    <3>2. body[c] = TQ!DownStep(c) BY <3>1, Zenon
    <3>3. Sinking(q, X, i, k + 1, TQ!DownStep(c)) BY <2>1, <3>1, <1>DownRound, Zenon
    <3>4. k + 1 \in Nat OBVIOUS
    <3> QED BY <2>2, <3>2, <3>3, <3>4, Zenon
  <2>5. <<TQ!size(q), end>> \in I
    <3> HIDE DEF body, start, I
    <3> QED BY <2>1, <2>3, <2>4, <1>RepeatKeeps
  <2>6. Sinking(q, X, i, TQ!size(q), end) BY <2>2, <2>5, Zenon
  <2>7. TQ!sift_down(q, i) = end.queue BY DEF TQ!sift_down
  <2> HIDE DEF end, I
  <2>8. Sifting(q, X, end) BY <2>6, Zenon DEF Sinking
  <2>9. HeapOrder(end.queue)
    <3>1. end.index \in Nat /\ end.index < TQ!size(q)
      BY <2>1, <2>8, <1>SiftingIs, QueueTyped, Zenon
    <3>2. ~(i + TQ!size(q) <= end.index) BY <2>1, <3>1
    <3> QED BY <2>6, <3>2, Zenon DEF Sinking
  <2> QED BY <2>7, <2>8, <2>9, Zenon DEF Sifting
\* where the registration that is at place k once place i is filled comes from
<1> DEFINE Source(q, i, k) == IF k = i THEN TQ!size(q) - 1 ELSE k
<1> HIDE DEF Source
\* m is q without the registration at place i, which the last one has replaced
<1> DEFINE GapFilled(q, m, i) ==
               /\ m \in TQ!Queue /\ TQ!size(m) = TQ!size(q) - 1
               /\ \A k \in Places(m) : TQ!At(m, k) = TQ!At(q, Source(q, i, k))
               /\ \A r \in Frames :
                      m.heap_index[r] = IF r = TQ!At(q, TQ!size(q) - 1) /\ i # TQ!size(q) - 1 THEN i
                                        ELSE q.heap_index[r]
               /\ m.deadline = q.deadline /\ SameFlags(q, m)
               /\ m.before = {pair \in q.before : TQ!At(q, i) \notin {pair[1], pair[2]}}
<1> HIDE DEF GapFilled
\* The places of a queue with one registration less.
<1>SourceIs. ASSUME NEW q, Sound(q), NEW i \in Places(q), NEW m, GapFilled(q, m, i)
      PROVE  /\ q \in TQ!Queue /\ i \in Nat /\ TQ!size(q) \in Nat
             /\ TQ!size(q) - 1 \in Places(q) /\ TQ!size(q) - 1 \notin Places(m)
             /\ \A k \in Places(q) : k \in Places(m) <=> k # TQ!size(q) - 1
             /\ \A k \in Places(m) : /\ k \in Places(q) /\ Source(q, i, k) \in Places(q)
                                     /\ Source(q, i, k) # i
  <2> USE <1>SourceIs
  <2>1. q \in TQ!Queue BY Zenon DEF Sound, Placed
  <2>2. i \in Nat /\ i < TQ!size(q) /\ TQ!size(q) \in Nat BY <2>1, QueueTyped, Zenon
  <2>3. TQ!size(m) = TQ!size(q) - 1 BY Zenon DEF GapFilled
  <2>4. /\ TQ!size(q) - 1 \in Places(q) /\ TQ!size(q) - 1 \notin Places(m)
        /\ \A k \in Places(q) : k \in Places(m) <=> k # TQ!size(q) - 1
        /\ \A k \in Places(m) : k \in Places(q)
    BY <2>2, <2>3 DEF Places
  <2>5. \A k \in Places(m) : Source(q, i, k) \in Places(q) /\ Source(q, i, k) # i
    BY <2>4, Zenon DEF Source
  <2> QED BY <2>1, <2>2, <2>4, <2>5, Zenon
\* Filling the gap keeps the places of all the others ...
<1>GapPlaced. ASSUME NEW q, Sound(q), NEW i \in Places(q), NEW m, GapFilled(q, m, i)
      PROVE  Placed(m, {TQ!At(q, i)}) /\ Armed(m) = Armed(q) \ {TQ!At(q, i)}
  <2> USE <1>GapPlaced
  <2> DEFINE z == TQ!At(q, i)
             t == TQ!size(q) - 1
             tail == TQ!At(q, t)
  <2>1. /\ q \in TQ!Queue /\ t \in Places(q) /\ t \notin Places(m)
        /\ \A k \in Places(q) : k \in Places(m) <=> k # t
        /\ \A k \in Places(m) : /\ k \in Places(q) /\ Source(q, i, k) \in Places(q)
                                /\ Source(q, i, k) # i
    BY <1>SourceIs, Zenon
  <2>2. Placed(q, {}) BY Zenon DEF Sound
  <2>3. \A j, k \in Places(q) : j # k => TQ!At(q, j) # TQ!At(q, k) BY <2>2, <1>PlacesDiffer, Zenon
  <2>4. z \in Frames /\ tail \in Frames /\ \A k \in Places(q) : TQ!At(q, k) \in Frames
    BY <2>1, QueueTyped, Zenon
  <2>5. \A k \in Places(m) : TQ!At(m, k) = TQ!At(q, Source(q, i, k)) BY Zenon DEF GapFilled
  <2>6. \A r \in Frames : m.heap_index[r] = IF r = tail /\ i # t THEN i ELSE q.heap_index[r]
    BY Zenon DEF GapFilled
  <2>7. \A k \in Places(q) : Source(q, i, k) = IF k = i THEN t ELSE k BY Zenon DEF Source
  <2>8. \A k \in Places(q) : q.heap_index[TQ!At(q, k)] = k BY <2>2, Zenon DEF Placed
  <2>9. \A r \in Frames : \/ q.heap_index[r] = TQ!not_in_heap
                          \/ q.heap_index[r] \in Places(q) /\ TQ!At(q, q.heap_index[r]) = r
    BY <2>2, Zenon DEF Placed
  <2> HIDE DEF z, t, tail
  <2>10. ASSUME NEW k \in Places(m) PROVE m.heap_index[TQ!At(m, k)] = k /\ TQ!At(m, k) # z
    <3>1. TQ!At(m, k) # z BY <2>1, <2>3, <2>5, Zenon DEF z
    <3>2. CASE k = i
      <4>1. TQ!At(m, k) = tail /\ i # t BY <3>2, <2>1, <2>5, <2>7, Zenon DEF tail
      <4> QED BY <3>1, <3>2, <4>1, <2>4, <2>6, Zenon
    <3>3. CASE k # i
      <4>1. TQ!At(m, k) = TQ!At(q, k) /\ k # t /\ k \in Places(q)
        BY <3>3, <2>1, <2>5, <2>7, Zenon
      <4>2. TQ!At(q, k) # tail BY <4>1, <2>1, <2>3, Zenon DEF tail
      <4> QED BY <3>1, <4>1, <4>2, <2>4, <2>6, <2>8, Zenon
    <3> QED BY <3>2, <3>3, Zenon
  <2>11. ASSUME NEW r \in Frames, r # z
         PROVE  \/ m.heap_index[r] = TQ!not_in_heap
                \/ m.heap_index[r] \in Places(m) /\ TQ!At(m, m.heap_index[r]) = r
    <3>1. CASE r = tail
      <4>1. i # t BY <3>1, <2>11, Zenon DEF tail, z
      <4>2. m.heap_index[r] = i /\ i \in Places(m) BY <3>1, <4>1, <2>1, <2>6, Zenon
      <4>3. TQ!At(m, i) = r BY <3>1, <4>2, <2>5, <2>7, Zenon DEF tail
      <4> QED BY <4>2, <4>3, Zenon
    <3>2. CASE r # tail
      <4>1. m.heap_index[r] = q.heap_index[r] BY <3>2, <2>6, Zenon
      <4>2. CASE q.heap_index[r] \in Places(q) /\ TQ!At(q, q.heap_index[r]) = r
        <5>1. q.heap_index[r] # t /\ q.heap_index[r] # i BY <3>2, <4>2, <2>11, Zenon DEF tail, z
        <5> QED BY <4>1, <4>2, <5>1, <2>1, <2>5, <2>7, Zenon
      <4> QED BY <4>1, <4>2, <2>9, Zenon
    <3> QED BY <3>1, <3>2, Zenon
  <2>12. m \in TQ!Queue BY Zenon DEF GapFilled
  <2>13. Placed(m, {z}) BY <2>4, <2>10, <2>11, <2>12, Zenon DEF Placed
  <2>14. ASSUME NEW k \in Places(q), k # i PROVE TQ!At(q, k) \in Armed(m)
    <3>1. CASE k = t
      <4>1. i \in Places(m) BY <3>1, <2>1, <2>14, Zenon
      <4> QED BY <3>1, <4>1, <2>1, <2>5, <2>7, Zenon DEF Armed
    <3>2. CASE k # t
      <4>1. k \in Places(m) /\ TQ!At(m, k) = TQ!At(q, k) BY <3>2, <2>1, <2>5, <2>7, <2>14, Zenon
      <4> QED BY <4>1, Zenon DEF Armed
    <3> QED BY <3>1, <3>2, Zenon
  <2>15. \A k \in Places(m) : TQ!At(m, k) \in Armed(q) BY <2>1, <2>5, Zenon DEF Armed
  <2>16. Armed(m) = Armed(q) \ {z}
    <3>1. \A r \in Armed(m) : r \in Armed(q) /\ r # z BY <2>10, <2>15, Zenon DEF Armed
    <3>2. \A r \in Armed(q) : r # z => r \in Armed(m) BY <2>14, Zenon DEF Armed, z
    <3> QED BY <3>1, <3>2, Zenon
  <2> QED BY <2>13, <2>16, Zenon DEF z
\* ... and their order.
<1>GapSequenced. ASSUME NEW q, Sound(q), NEW i \in Places(q), NEW m, GapFilled(q, m, i)
      PROVE  /\ Sequenced(m)
             /\ \A x, y \in Places(m) :
                    Precedes(m, x, y) <=> Precedes(q, Source(q, i, x), Source(q, i, y))
  <2> USE <1>GapSequenced
  <2> DEFINE z == TQ!At(q, i)
  <2>1. Armed(m) = Armed(q) \ {z} BY <1>GapPlaced, Zenon
  <2>2. /\ q.before \subseteq Armed(q) \X Armed(q)
        /\ m.deadline = q.deadline /\ m.before = {pair \in q.before : z \notin {pair[1], pair[2]}}
    BY Zenon DEF Sound, Sequenced, GapFilled
  <2> HIDE DEF z
  <2>3. \A x, y : <<x, y>> \in m.before <=> <<x, y>> \in q.before /\ x # z /\ y # z
    <3>1. \A x, y : <<x, y>>[1] = x /\ <<x, y>>[2] = y OBVIOUS
    <3> QED BY <3>1, <2>2, Zenon
  <2>4. m.before \subseteq Armed(m) \X Armed(m)
    <3>1. ASSUME NEW pair \in m.before PROVE pair \in Armed(m) \X Armed(m)
      <4>1. pair \in q.before BY <3>1, <2>2, Zenon
      <4>2. PICK x \in Armed(q), y \in Armed(q) : pair = <<x, y>> BY <4>1, <2>2
      <4>3. x # z /\ y # z BY <3>1, <4>2, <2>3, Zenon
      <4> QED BY <4>2, <4>3, <2>1, Zenon
    <3> QED BY <3>1
  <2>5. Sequenced(m) BY <2>1, <2>3, <2>4, Zenon DEF Sound, Sequenced
  <2>6. \A l, r : l # z /\ r # z => (TQ!earlier(m, l, r) <=> TQ!earlier(q, l, r))
    BY <2>2, <2>3, Zenon DEF TQ!earlier
  <2>7. \A k \in Places(m) : TQ!At(m, k) = TQ!At(q, Source(q, i, k)) BY Zenon DEF GapFilled
  <2>8. \A k \in Places(m) : TQ!At(m, k) # z
    <3>1. Placed(m, {z}) BY <1>GapPlaced, Zenon DEF z
    <3> QED BY <3>1, Zenon DEF Placed
  <2>9. ASSUME NEW x \in Places(m), NEW y \in Places(m)
        PROVE  Precedes(m, x, y) <=> Precedes(q, Source(q, i, x), Source(q, i, y))
    <3>1. TQ!earlier(m, TQ!At(m, x), TQ!At(m, y)) <=> TQ!earlier(q, TQ!At(m, x), TQ!At(m, y))
      BY <2>6, <2>8, Zenon
    <3>2. TQ!At(m, x) = TQ!At(q, Source(q, i, x)) /\ TQ!At(m, y) = TQ!At(q, Source(q, i, y))
      BY <2>7, Zenon
    <3> QED BY <3>1, <3>2, Zenon DEF Precedes
  <2> QED BY <2>5, <2>9, Zenon
\* What replaced the removed registration may be too far down or too far up.
<1>GapOrder. ASSUME NEW q, Sound(q), NEW i \in Places(q), NEW m, GapFilled(q, m, i)
      PROVE  /\ i \notin Places(m) => HeapOrder(m)
             /\ i \in Places(m) /\ i # 0 /\ Precedes(m, i, TQ!Parent(i)) => UpTo(m, i)
             /\ i \in Places(m) /\ (i = 0 \/ ~Precedes(m, i, TQ!Parent(i))) => DownFrom(m, i)
  <2> USE <1>GapOrder
  <2> DEFINE t == TQ!size(q) - 1
             P(x, y) == Precedes(q, x, y)
  <2>1. /\ q \in TQ!Queue /\ t \in Places(q) /\ t \notin Places(m)
        /\ \A k \in Places(m) : k \in Places(q)
        /\ m \in TQ!Queue
    BY <1>SourceIs, Zenon DEF GapFilled
  <2>2. \A x, y \in Places(m) :
            Precedes(m, x, y) <=> P(Source(q, i, x), Source(q, i, y))
    BY <1>GapSequenced, Zenon
  <2>3. \A k : Source(q, i, k) = IF k = i THEN t ELSE k BY Zenon DEF Source
  <2>4. \A j \in Places(m) \ {0} : TQ!Parent(j) \in Places(m) /\ TQ!Parent(j) # j
    BY <2>1, <1>PlaceParent, Zenon
  <2>5. \A j \in Places(q) \ {0} : TQ!Parent(j) \in Places(q) /\ P(TQ!Parent(j), j)
    BY <2>1, <1>PlaceParent, Zenon DEF Sound, HeapOrder
  <2>6. /\ \A x, y \in Places(q) : x # y => P(x, y) \/ P(y, x)
        /\ \A x, y, z \in Places(q) : P(x, y) /\ P(y, z) => P(x, z)
    BY <1>EarlierIsAnOrder, Zenon DEF OrderedPlaces, Sound
  <2> HIDE DEF t, P
  <2>7. ASSUME NEW j \in Places(m), j # 0, j # i, TQ!Parent(j) # i
        PROVE  Precedes(m, TQ!Parent(j), j)
    BY <2>1, <2>2, <2>3, <2>4, <2>5, <2>7, Zenon
  <2>8. ASSUME i \notin Places(m) PROVE HeapOrder(m)
    BY <2>4, <2>7, <2>8, Zenon DEF HeapOrder
  <2>9. ASSUME NEW j \in Places(m), j # 0, TQ!Parent(j) = i, i # 0
        PROVE  Precedes(m, TQ!Parent(i), j)
    <3>1. i \in Places(m) /\ TQ!Parent(i) \in Places(m) /\ TQ!Parent(i) # i /\ j # i
      BY <2>4, <2>9, Zenon
    <3>2. P(TQ!Parent(i), i) /\ P(i, j) BY <2>1, <2>5, <2>9, Zenon
    <3>3. P(TQ!Parent(i), j) BY <3>1, <3>2, <2>1, <2>6, Zenon
    <3> QED BY <3>1, <3>3, <2>2, <2>3, Zenon
  <2>10. ASSUME i \in Places(m), i # 0, Precedes(m, i, TQ!Parent(i)) PROVE UpTo(m, i)
    <3>1. TQ!Parent(i) \in Places(m) /\ TQ!Parent(i) # i BY <2>4, <2>10, Zenon
    <3>2. P(t, TQ!Parent(i)) BY <3>1, <2>2, <2>3, <2>10, Zenon
    <3>3. ASSUME NEW j \in Places(m), j # 0, j # i, TQ!Parent(j) = i PROVE Precedes(m, i, j)
      <4>1. P(TQ!Parent(i), i) /\ P(i, j) BY <2>1, <2>5, <2>10, <3>3, Zenon
      <4>2. P(t, i) BY <3>1, <3>2, <4>1, <2>1, <2>6, Zenon
      <4>3. P(t, j) BY <4>1, <4>2, <2>1, <2>6, Zenon
      <4> QED BY <3>3, <4>3, <2>2, <2>3, <2>10, Zenon
    <3> QED BY <2>7, <2>9, <3>3, Zenon DEF UpTo
  <2>11. ASSUME i \in Places(m), i = 0 \/ ~Precedes(m, i, TQ!Parent(i)) PROVE DownFrom(m, i)
    <3>1. ASSUME i # 0 PROVE Precedes(m, TQ!Parent(i), i)
      <4>1. TQ!Parent(i) \in Places(m) /\ TQ!Parent(i) # i BY <2>4, <2>11, <3>1, Zenon
      <4>2. ~P(t, TQ!Parent(i)) BY <4>1, <2>2, <2>3, <2>11, <3>1, Zenon
      <4>3. P(TQ!Parent(i), t) BY <4>1, <4>2, <2>1, <2>6, Zenon
      <4> QED BY <4>1, <4>3, <2>2, <2>3, <2>11, Zenon
    <3> QED BY <2>7, <2>9, <3>1, Zenon DEF DownFrom
  <2> QED BY <2>8, <2>10, <2>11, Zenon
\* The removed registration learns that it is out of the heap.
<1>DetachedIs. ASSUME NEW m, NEW z \in Frames, Placed(m, {z}), Sequenced(m), HeapOrder(m)
      PROVE  LET n == TQ!Detached(m, z)
             IN  Sound(n) /\ Armed(n) = Armed(m) /\ TQ!size(n) = TQ!size(m) /\ SameFlags(m, n)
  <2> USE <1>DetachedIs
  <2> DEFINE n == TQ!Detached(m, z)
             x == [m.heap_index EXCEPT ![z] = TQ!not_in_heap]
             d == [m.deadline EXCEPT ![z] = 0]
  <2>1. m \in TQ!Queue BY Zenon DEF Placed
  <2>2. m.heap_index \in [Frames -> Int] /\ m.deadline \in [Frames -> Int]
    BY <2>1, QueueTyped, Zenon
  <2>3. n = [m EXCEPT !.heap_index = x, !.deadline = d] BY DEF TQ!Detached
  <2>4. /\ x \in [Frames -> Int] /\ d \in [Frames -> Int] /\ x[z] = TQ!not_in_heap
        /\ \A r \in Frames : r # z => x[r] = m.heap_index[r] /\ d[r] = m.deadline[r]
    BY <2>2 DEF TQ!not_in_heap
  <2> HIDE DEF n, x, d
  <2>5. /\ n \in TQ!Queue /\ n.heap = m.heap /\ n.heap_index = x /\ n.deadline = d
        /\ n.before = m.before /\ SameFlags(m, n)
    BY <2>1, <2>3, <2>4, Zenon DEF TQ!Queue, SameFlags
  <2>6. /\ TQ!size(n) = TQ!size(m) /\ Places(n) = Places(m) /\ Armed(n) = Armed(m)
        /\ \A k : TQ!At(n, k) = TQ!At(m, k)
    BY <2>5, Zenon DEF TQ!size, TQ!At, Places, Armed
  <2>7. \A k \in Places(m) : TQ!At(m, k) \in Frames /\ TQ!At(m, k) # z
    BY <2>1, QueueTyped, Zenon DEF Placed
  <2>8. Placed(n, {})
    <3>1. ASSUME NEW k \in Places(m) PROVE x[TQ!At(m, k)] = k
      BY <2>4, <2>7, Zenon DEF Placed
    <3>2. ASSUME NEW r \in Frames
          PROVE  x[r] = TQ!not_in_heap \/ (x[r] \in Places(m) /\ TQ!At(m, x[r]) = r)
      BY <2>4, Zenon DEF Placed
    <3> QED BY <2>5, <2>6, <3>1, <3>2, Zenon DEF Placed
  <2>9. Sequenced(n) BY <2>5, <2>6, Zenon DEF Sequenced
  <2>10. ASSUME NEW k \in Places(m), NEW l \in Places(m), Precedes(m, k, l)
         PROVE  Precedes(n, k, l)
    <3> DEFINE u == TQ!At(m, k)
               v == TQ!At(m, l)
    <3>1. n.deadline[u] = m.deadline[u] /\ n.deadline[v] = m.deadline[v] /\ n.before = m.before
      BY <2>4, <2>5, <2>7, Zenon
    <3>2. TQ!earlier(m, u, v) BY <2>10, Zenon DEF Precedes
    <3> HIDE DEF u, v
    <3>3. TQ!earlier(n, u, v) BY <3>1, <3>2 DEF TQ!earlier
    <3>4. TQ!At(n, k) = u /\ TQ!At(n, l) = v BY <2>6, Zenon DEF u, v
    <3> QED BY <3>3, <3>4, Zenon DEF Precedes
  <2>11. HeapOrder(n)
    <3>1. \A j \in Places(m) \ {0} : TQ!Parent(j) \in Places(m) BY <2>1, <1>PlaceParent, Zenon
    <3> QED BY <2>6, <2>10, <3>1, Zenon DEF HeapOrder
  <2> QED BY <2>5, <2>6, <2>8, <2>9, <2>11, Zenon DEF Sound, n
\* pop_back, and the last registration moved into the gap.
<1>RemovedIsFilled. ASSUME NEW q, Sound(q), NEW i \in Places(q)
      PROVE  LET popped == TQ!Popped(q, TQ!At(q, i))
             IN  /\ TQ!size(popped) = TQ!size(q) - 1
                 /\ i = TQ!size(q) - 1 => GapFilled(q, popped, i)
                 /\ i # TQ!size(q) - 1 =>
                        GapFilled(q, TQ!Moved(popped, TQ!At(q, TQ!size(q) - 1), i), i)
  <2> USE <1>RemovedIsFilled
  <2> DEFINE t == TQ!size(q) - 1
             z == TQ!At(q, i)
             tail == TQ!At(q, t)
             popped == TQ!Popped(q, z)
             h == SubSeq(q.heap, 1, t)
             b == {pair \in q.before : z \notin {pair[1], pair[2]}}
  <2>1. q \in TQ!Queue BY Zenon DEF Sound, Placed
  <2>2. /\ q.heap \in Seq(Frames) /\ TQ!size(q) = Len(q.heap) /\ TQ!size(q) \in Nat
        /\ q.heap_index \in [Frames -> Int] /\ q.before \in SUBSET (Frames \X Frames)
        /\ i \in Nat /\ i < TQ!size(q)
    BY <2>1, QueueTyped, Zenon
  <2>3. t \in Nat /\ t \in Places(q) /\ t <= Len(q.heap) /\ t < TQ!size(q) /\ i <= t
    BY <2>2 DEF Places
  <2>4. tail \in Frames BY <2>1, <2>3, QueueTyped, Zenon
  <2>5. /\ h \in Seq(Frames) /\ Len(h) = t /\ \A k \in 1 .. t : h[k] = q.heap[k]
        /\ h \in [1 .. t -> Frames]
    <3>1. /\ h \in Seq(Frames) /\ Len(h) = t /\ \A k \in 1 .. t : h[k] = q.heap[k]
      BY <2>2, <2>3, SMTT(30)
    <3> HIDE DEF h
    <3> QED BY <3>1
  <2>6. b \in SUBSET (Frames \X Frames) BY <2>2, Zenon
  <2>7. popped = [q EXCEPT !.heap = h, !.before = b] BY DEF TQ!Popped
  <2> HIDE DEF h, b, z, t, tail, popped
  <2>8. /\ popped \in TQ!Queue /\ popped.heap = h /\ popped.before = b
        /\ popped.heap_index = q.heap_index /\ popped.deadline = q.deadline
        /\ SameFlags(q, popped)
    BY <2>1, <2>5, <2>6, <2>7, Zenon DEF TQ!Queue, SameFlags
  <2>9. TQ!size(popped) = t BY <2>5, <2>8, Zenon DEF TQ!size
  <2>10. ASSUME i = t PROVE GapFilled(q, popped, i)
    <3>1. ASSUME NEW k \in Places(popped) PROVE TQ!At(popped, k) = TQ!At(q, Source(q, i, k))
      <4>1. k + 1 \in 1 .. t /\ k # i BY <2>3, <2>9, <2>10, <3>1 DEF Places
      <4>2. h[k + 1] = q.heap[k + 1] BY <2>5, <4>1, Zenon
      <4> QED BY <2>8, <4>1, <4>2, Zenon DEF TQ!At, Source
    <3> QED BY <2>8, <2>9, <2>10, <3>1, Zenon DEF GapFilled, b, z, t
  <2>11. ASSUME i # t PROVE GapFilled(q, TQ!Moved(popped, tail, i), i)
    <3> DEFINE m == TQ!Moved(popped, tail, i)
               g == [h EXCEPT ![i + 1] = tail]
               x == [q.heap_index EXCEPT ![tail] = i]
    <3>1. m = [popped EXCEPT !.heap = g, !.heap_index = x] BY <2>8, Zenon DEF TQ!Moved
    <3>2. i + 1 \in 1 .. t BY <2>2, <2>3, <2>11
    <3>3. /\ g \in [1 .. t -> Frames] /\ g[i + 1] = tail
          /\ \A k \in 1 .. t : k # i + 1 => g[k] = h[k]
      BY <2>4, <2>5, <3>2, Zenon
    <3>4. /\ x \in [Frames -> Int] /\ x[tail] = i
          /\ \A r \in Frames : r # tail => x[r] = q.heap_index[r]
      BY <2>2, <2>4
    <3> HIDE DEF m, g, x
    <3>5. g \in Seq(Frames) /\ Len(g) = t BY <2>3, <3>3, <1>SequenceFrom, Zenon
    <3>6. /\ m \in TQ!Queue /\ m.heap = g /\ m.heap_index = x /\ m.before = b
          /\ m.deadline = q.deadline /\ SameFlags(q, m)
      BY <2>8, <3>1, <3>4, <3>5, Zenon DEF TQ!Queue, SameFlags
    <3>7. TQ!size(m) = t BY <3>5, <3>6, Zenon DEF TQ!size
    <3>8. ASSUME NEW k \in Places(m) PROVE TQ!At(m, k) = TQ!At(q, Source(q, i, k))
      <4>1. k + 1 \in 1 .. t /\ (k + 1 = i + 1 <=> k = i) BY <2>2, <2>3, <3>7, <3>8 DEF Places
      <4>2. CASE k = i BY <4>2, <3>3, <3>6, Zenon DEF TQ!At, Source, tail, t
      <4>3. CASE k # i
        <5>1. g[k + 1] = q.heap[k + 1] BY <2>5, <3>3, <4>1, <4>3, Zenon
        <5> QED BY <3>6, <4>3, <5>1, Zenon DEF TQ!At, Source
      <4> QED BY <4>2, <4>3, Zenon
    <3>9. \A r \in Frames : m.heap_index[r] = IF r = tail /\ i # t THEN i ELSE q.heap_index[r]
      BY <2>11, <3>4, <3>6, Zenon
    <3> QED BY <3>6, <3>7, <3>8, <3>9, Zenon DEF GapFilled, b, z, t, tail, m
  <2> QED BY <2>9, <2>10, <2>11, Zenon DEF t, z, tail, popped
\* remove_at takes one registration out and leaves the queue sound.
<1>RemoveAt. ASSUME NEW q, Sound(q), NEW i \in Places(q)
      PROVE  LET n == TQ!remove_at(q, i)
             IN  /\ Sound(n) /\ Armed(n) = Armed(q) \ {TQ!At(q, i)}
                 /\ TQ!size(n) = TQ!size(q) - 1 /\ SameFlags(q, n)
  <2> USE <1>RemoveAt
  <2> DEFINE t == TQ!size(q) - 1
             z == TQ!At(q, i)
             popped == TQ!Popped(q, z)
             moved == TQ!Moved(popped, TQ!At(q, t), i)
             rises == i # 0 /\ TQ!earlier(moved, TQ!At(q, t), TQ!At(moved, TQ!Parent(i)))
             filled == IF i >= TQ!size(popped) THEN popped
                       ELSE IF rises THEN TQ!sift_up(moved, i) ELSE TQ!sift_down(moved, i)
  <2>1. q \in TQ!Queue BY Zenon DEF Sound, Placed
  <2>2. TQ!size(q) \in Nat /\ i \in Nat /\ i < TQ!size(q) /\ z \in Frames
    BY <2>1, QueueTyped, Zenon
  <2>3. /\ TQ!size(popped) = t /\ (i = t => GapFilled(q, popped, i))
        /\ (i # t => GapFilled(q, moved, i))
    BY <1>RemovedIsFilled, Zenon
  <2>4. TQ!remove_at(q, i) = TQ!Detached(filled, z) BY Zenon DEF TQ!remove_at
  <2> HIDE DEF popped, moved
  <2>5. t \in Int /\ t \in Places(q) /\ (i >= t <=> i = t) BY <2>2 DEF Places
  <2>6. \E m : GapFilled(q, m, i) /\ Rearranged(m, filled, {z}) /\ Placed(filled, {z}) /\ HeapOrder(filled)
    <3>1. CASE i = t
      <4>1. filled = popped BY <3>1, <2>3, <2>5, Zenon
      <4>2. GapFilled(q, popped, i) BY <3>1, <2>3, Zenon
      <4>3. i \notin Places(popped)
        <5>1. t \notin Places(popped) BY <4>2, <1>SourceIs, Zenon
        <5> QED BY <3>1, <5>1, Zenon
      <4>4. HeapOrder(popped) BY <4>2, <4>3, <1>GapOrder, Zenon
      <4>5. Placed(popped, {z}) BY <4>2, <1>GapPlaced, Zenon
      <4>6. Rearranged(popped, popped, {z}) BY Zenon DEF Rearranged
      <4> QED BY <4>1, <4>2, <4>4, <4>5, <4>6, Zenon
    <3>2. CASE i # t
      <4>1. GapFilled(q, moved, i) BY <3>2, <2>3, Zenon
      <4>2. filled = IF rises THEN TQ!sift_up(moved, i) ELSE TQ!sift_down(moved, i)
        BY <3>2, <2>3, <2>5, Zenon
      <4>3. i \in Places(moved) BY <3>2, <4>1, <1>SourceIs, Zenon
      <4>4. Placed(moved, {z}) /\ Sequenced(moved) BY <4>1, <1>GapPlaced, <1>GapSequenced, Zenon
      <4>5. TQ!At(moved, i) = TQ!At(q, t) BY <4>1, <4>3, Zenon DEF GapFilled, Source
      <4>6. rises <=> i # 0 /\ Precedes(moved, i, TQ!Parent(i)) BY <4>5, Zenon DEF Precedes
      <4> HIDE DEF filled, rises, z, t
      <4>7. CASE rises
        <5>1. UpTo(moved, i) BY <4>1, <4>3, <4>6, <4>7, <1>GapOrder, Zenon
        <5>2. filled = TQ!sift_up(moved, i) BY <4>2, <4>7, Zenon
        <5> QED BY <4>1, <4>3, <4>4, <5>1, <5>2, <1>SiftUp, Zenon
      <4>8. CASE ~rises
        <5>1. DownFrom(moved, i) BY <4>1, <4>3, <4>6, <4>8, <1>GapOrder, Zenon
        <5>2. filled = TQ!sift_down(moved, i) BY <4>2, <4>8, Zenon
        <5> QED BY <4>1, <4>3, <4>4, <5>1, <5>2, <1>SiftDown, Zenon
      <4> QED BY <4>7, <4>8, Zenon
    <3> QED BY <3>1, <3>2, Zenon
  <2> HIDE DEF filled, z, t
  <2>7. PICK m : GapFilled(q, m, i) /\ Rearranged(m, filled, {z}) /\ Placed(filled, {z}) /\ HeapOrder(filled)
    BY <2>6, Zenon
  <2>8. /\ Armed(m) = Armed(q) \ {z} /\ Sequenced(m)
        /\ TQ!size(m) = t /\ SameFlags(q, m)
    BY <2>7, <1>GapPlaced, <1>GapSequenced, Zenon DEF GapFilled, z, t
  <2>9. Sequenced(filled) BY <2>7, <2>8, <1>SequencedKept, Zenon
  <2>10. LET n == TQ!Detached(filled, z)
         IN  /\ Sound(n) /\ Armed(n) = Armed(filled) /\ TQ!size(n) = TQ!size(filled)
             /\ SameFlags(filled, n)
    BY <2>2, <2>7, <2>9, <1>DetachedIs, Zenon
  <2>11. Armed(filled) = Armed(m) /\ TQ!size(filled) = TQ!size(m) /\ SameFlags(m, filled)
    BY <2>7, Zenon DEF Rearranged, SameFlags
  <2>12. SameFlags(q, TQ!Detached(filled, z)) BY <2>8, <2>10, <2>11, Zenon DEF SameFlags
  <2> QED BY <2>4, <2>8, <2>10, <2>11, <2>12, Zenon DEF z, t
\* arm puts one registration in and leaves the queue sound.
<1>Arm. ASSUME NEW q, Sound(q), NEW r \in Frames, r \notin Armed(q), NEW deadline \in Int
      PROVE  LET n == TQ!arm(q, r, deadline)
             IN  Sound(n) /\ Armed(n) = Armed(q) \cup {r} /\ SameFlags(q, n)
  <2> USE <1>Arm
  <2> DEFINE s == TQ!size(q)
             h == Append(q.heap, r)
             x == [q.heap_index EXCEPT ![r] = s]
             d == [q.deadline EXCEPT ![r] = deadline]
             b == q.before \cup (Armed(q) \X {r})
             m == [q EXCEPT !.deadline[r] = deadline, !.before = @ \cup (Armed(q) \X {r}),
                            !.heap = Append(@, r), !.heap_index[r] = TQ!size(q)]
  <2>1. q \in TQ!Queue /\ Placed(q, {}) /\ Sequenced(q) BY Zenon DEF Sound, Placed
  <2>2. /\ q.heap \in Seq(Frames) /\ s \in Nat /\ s = Len(q.heap)
        /\ q.heap_index \in [Frames -> Int] /\ q.deadline \in [Frames -> Int]
        /\ q.before \in SUBSET (Frames \X Frames)
        /\ \A k \in Places(q) : TQ!At(q, k) \in Frames
    BY <2>1, QueueTyped, Zenon
  <2>3. /\ Armed(q) \subseteq Frames
        /\ \A f \in Frames : f \in Armed(q) <=> q.heap_index[f] # TQ!not_in_heap
    BY <2>1, ArmedIs, Zenon
  <2>4. TQ!arm(q, r, deadline) = TQ!sift_up(m, s) BY Zenon DEF TQ!arm, Armed, Places
  <2>5. h \in Seq(Frames) /\ Len(h) = s + 1 /\ h[s + 1] = r /\ \A k \in 1 .. s : h[k] = q.heap[k]
    BY <2>2
  <2>6. /\ x \in [Frames -> Int] /\ x[r] = s /\ \A f \in Frames : f # r => x[f] = q.heap_index[f]
        /\ d \in [Frames -> Int] /\ d[r] = deadline
        /\ \A f \in Frames : f # r => d[f] = q.deadline[f]
    BY <2>2
  <2>7. b \in SUBSET (Frames \X Frames) BY <2>2, <2>3, Zenon
  <2>8. \A f, g : <<f, g>> \in b <=> <<f, g>> \in q.before \/ (f \in Armed(q) /\ g = r)
    BY <2>3, Zenon
  <2>9. b \subseteq (Armed(q) \cup {r}) \X (Armed(q) \cup {r}) BY <2>1, <2>3, Zenon DEF Sequenced
  <2> HIDE DEF h, x, d, b, m, s
  <2>10. /\ m \in TQ!Queue /\ m.heap = h /\ m.heap_index = x /\ m.deadline = d /\ m.before = b
         /\ SameFlags(q, m)
    <3>1. m = [q EXCEPT !.deadline = d, !.before = b, !.heap = h, !.heap_index = x]
      BY <2>1 DEF TQ!Queue, m, d, b, h, x, s
    <3> QED BY <2>1, <2>5, <2>6, <2>7, <3>1, Zenon DEF TQ!Queue, SameFlags
  <2>11. /\ TQ!size(m) = s + 1 /\ TQ!At(m, s) = r /\ \A k \in Places(q) : TQ!At(m, k) = TQ!At(q, k)
    <3>1. TQ!size(m) = s + 1 /\ TQ!At(m, s) = r BY <2>5, <2>10, Zenon DEF TQ!size, TQ!At
    <3>2. \A k \in Places(q) : k + 1 \in 1 .. s BY <2>2 DEF Places, s
    <3> QED BY <3>1, <3>2, <2>5, <2>10, Zenon DEF TQ!At
  <2>12. Places(m) = Places(q) \cup {s} /\ s \notin Places(q) BY <2>2, <2>11 DEF Places, s
  <2>13. Armed(m) = Armed(q) \cup {r}
    <3>1. \A k \in Places(m) : TQ!At(m, k) \in Armed(q) \cup {r} BY <2>11, <2>12, Zenon DEF Armed
    <3>2. r \in Armed(m) /\ \A k \in Places(q) : TQ!At(q, k) \in Armed(m)
      BY <2>11, <2>12, Zenon DEF Armed
    <3> QED BY <3>1, <3>2, Zenon DEF Armed
  <2>14. Placed(m, {})
    <3>1. ASSUME NEW k \in Places(m) PROVE x[TQ!At(m, k)] = k
      <4>1. CASE k = s BY <4>1, <2>6, <2>11, Zenon
      <4>2. CASE k \in Places(q)
        <5>1. TQ!At(q, k) # r BY <4>2, Zenon DEF Armed
        <5> QED BY <4>2, <5>1, <2>1, <2>2, <2>6, <2>11, Zenon DEF Placed
      <4> QED BY <4>1, <4>2, <2>12, Zenon
    <3>2. ASSUME NEW f \in Frames
          PROVE  x[f] = TQ!not_in_heap \/ (x[f] \in Places(m) /\ TQ!At(m, x[f]) = f)
      <4>1. CASE f = r BY <4>1, <2>6, <2>11, <2>12, Zenon
      <4>2. CASE f # r
        <5>1. x[f] = q.heap_index[f] BY <4>2, <2>6, Zenon
        <5> QED BY <5>1, <2>1, <2>11, <2>12, Zenon DEF Placed
      <4> QED BY <4>1, <4>2, Zenon
    <3> QED BY <2>10, <3>1, <3>2, Zenon DEF Placed
  <2>15. Sequenced(m)
    <3>1. \A f, g : <<f, g>> \in q.before => f \in Armed(q) /\ g \in Armed(q)
      BY <2>1, Zenon DEF Sequenced
    <3>2. \A f \in Armed(q) : <<f, f>> \notin q.before /\ f # r BY <2>1, Zenon DEF Sequenced
    <3>3. \A f, g \in Armed(q) : f # g => <<f, g>> \in q.before \/ <<g, f>> \in q.before
      BY <2>1, Zenon DEF Sequenced
    <3>4. \A f, g, k \in Armed(q) :
              <<f, g>> \in q.before /\ <<g, k>> \in q.before => <<f, k>> \in q.before
      BY <2>1, Zenon DEF Sequenced
    <3>5. m.before \subseteq Armed(m) \X Armed(m) BY <2>9, <2>10, <2>13, Zenon
    <3>6. \A f \in Armed(m) : <<f, f>> \notin m.before BY <3>1, <3>2, <2>8, <2>10, <2>13, Zenon
    <3>7. \A f, g \in Armed(m) : f # g => <<f, g>> \in m.before \/ <<g, f>> \in m.before
      BY <3>3, <2>8, <2>10, <2>13, Zenon
    <3>8. ASSUME NEW f \in Armed(m), NEW g \in Armed(m), NEW k \in Armed(m),
                 <<f, g>> \in m.before, <<g, k>> \in m.before
          PROVE  <<f, k>> \in m.before
      <4>1. g \in Armed(q) BY <3>1, <3>8, <2>8, <2>10, Zenon
      <4>2. f \in Armed(q) /\ <<f, g>> \in q.before BY <3>1, <3>2, <3>8, <4>1, <2>8, <2>10, Zenon
      <4>3. CASE k = r BY <4>2, <4>3, <2>8, <2>10, Zenon
      <4>4. CASE k # r
        <5>1. <<g, k>> \in q.before /\ k \in Armed(q) BY <3>1, <3>8, <4>4, <2>8, <2>10, Zenon
        <5>2. <<f, k>> \in q.before BY <3>4, <4>1, <4>2, <5>1, Zenon
        <5> QED BY <5>2, <2>8, <2>10, Zenon
      <4> QED BY <4>3, <4>4, Zenon
    <3> QED BY <3>5, <3>6, <3>7, <3>8, Zenon DEF Sequenced
  <2>16. UpTo(m, s)
    <3>1. ASSUME NEW k \in Places(q), NEW l \in Places(q), Precedes(q, k, l)
          PROVE  Precedes(m, k, l)
      <4> DEFINE u == TQ!At(q, k)
                 v == TQ!At(q, l)
      <4>1. u \in Frames /\ v \in Frames /\ u # r /\ v # r BY <2>2, Zenon DEF Armed
      <4>2. m.deadline[u] = q.deadline[u] /\ m.deadline[v] = q.deadline[v]
        BY <4>1, <2>6, <2>10, Zenon
      <4>3. <<u, v>> \in m.before <=> <<u, v>> \in q.before BY <4>1, <2>8, <2>10, Zenon
      <4>4. TQ!earlier(q, u, v) BY <3>1, Zenon DEF Precedes
      <4> HIDE DEF u, v
      <4>5. TQ!earlier(m, u, v) BY <4>2, <4>3, <4>4 DEF TQ!earlier
      <4> QED BY <2>11, <4>5, Zenon DEF Precedes, u, v
    <3>2. ASSUME NEW j \in Places(m), j # 0, j # s PROVE Precedes(m, TQ!Parent(j), j)
      <4>1. j \in Places(q) BY <3>2, <2>12, Zenon
      <4>2. TQ!Parent(j) \in Places(q) BY <3>2, <4>1, <2>1, <1>PlaceParent, Zenon
      <4> QED BY <3>1, <3>2, <4>1, <4>2, Zenon DEF Sound, HeapOrder
    <3>3. ASSUME NEW j \in Places(m), j # 0 PROVE TQ!Parent(j) # s
      <4>1. j \in Nat /\ j < s + 1 /\ TQ!Parent(j) < j /\ TQ!Parent(j) \in Places(m)
        BY <3>3, <2>10, <2>11, <1>PlaceParent, Zenon
      <4>2. TQ!Parent(j) \in Nat BY <4>1, <2>10, QueueTyped, Zenon
      <4> QED BY <4>1, <4>2, <2>2
    <3> QED BY <3>2, <3>3, Zenon DEF UpTo
  <2>17. LET n == TQ!sift_up(m, s) IN Placed(n, {}) /\ Rearranged(m, n, {}) /\ HeapOrder(n)
    <3>1. s \in Places(m) BY <2>12, Zenon
    <3> QED BY <3>1, <2>14, <2>15, <2>16, <1>SiftUp, Zenon
  <2>18. LET n == TQ!sift_up(m, s)
         IN  Sequenced(n) /\ Armed(n) = Armed(q) \cup {r} /\ SameFlags(q, n)
    <3> DEFINE n == TQ!sift_up(m, s)
    <3>1. Rearranged(m, n, {}) BY <2>17, Zenon
    <3> HIDE DEF n
    <3>2. Sequenced(n) BY <3>1, <2>15, <1>SequencedKept, Zenon
    <3>3. Armed(n) = Armed(q) \cup {r} /\ SameFlags(m, n) BY <3>1, <2>13, Zenon DEF Rearranged, SameFlags
    <3>4. SameFlags(q, n) BY <3>3, <2>10, Zenon DEF SameFlags
    <3> QED BY <3>2, <3>3, <3>4, Zenon DEF n
  <2> QED BY <2>4, <2>17, <2>18, Zenon DEF Sound
\* disarm and abandon of an armed registration remove it; no check of theirs fails.
<1>DisarmAbandon. ASSUME NEW q, Sound(q), NEW r \in Armed(q)
      PROVE  /\ TQ!disarm(q, r) = TQ!abandon(q, r)
             /\ LET n == TQ!abandon(q, r)
                IN  /\ Sound(n) /\ Armed(n) = Armed(q) \ {r} /\ TQ!size(n) = TQ!size(q) - 1
                    /\ SameFlags(q, n)
  <2> USE <1>DisarmAbandon
  <2> DEFINE i == q.heap_index[r]
  <2>1. Placed(q, {}) BY Zenon DEF Sound
  <2>2. i \in Places(q) /\ TQ!At(q, i) = r /\ i # TQ!not_in_heap
    BY <2>1, ArmedIs, Zenon
  <2>3. i \in 0 .. TQ!size(q) - 1 BY <2>2, Zenon DEF Places
  <2>4. TQ!disarm(q, r) = TQ!remove_at(q, i) BY <2>2, <2>3, Zenon DEF TQ!disarm
  <2>5. TQ!abandon(q, r) = TQ!remove_at(q, i) BY <2>2, <2>3, Zenon DEF TQ!abandon
  <2> HIDE DEF i
  <2>6. /\ Sound(TQ!remove_at(q, i)) /\ Armed(TQ!remove_at(q, i)) = Armed(q) \ {TQ!At(q, i)}
        /\ TQ!size(TQ!remove_at(q, i)) = TQ!size(q) - 1 /\ SameFlags(q, TQ!remove_at(q, i))
    BY <2>2, <1>RemoveAt, Zenon
  <2> QED BY <2>2, <2>4, <2>5, <2>6, Zenon
\* a loop that abandons the registrations in S has removed those it met in k rounds
<1> DEFINE Abandoning(q, S, k, p) ==
               /\ Sound(p) /\ SameFlags(q, p) /\ Armed(p) \ S = Armed(q) \ S
               /\ Armed(p) \cap S = {} \/ TQ!size(p) + k = TQ!size(q)
<1> HIDE DEF Abandoning
\* the registrations to abandon, and a round of the loop
<1> DEFINE ToAbandon(p, S) == {f \in S : p.heap_index[f] # TQ!not_in_heap}
<1> HIDE DEF ToAbandon
<1> DEFINE AbandonOne(p, S) ==
               IF ToAbandon(p, S) = {} THEN p ELSE TQ!abandon(p, CHOOSE f \in ToAbandon(p, S) : TRUE)
<1> HIDE DEF AbandonOne
\* A round of it.
<1>AbandonRound. ASSUME NEW q, NEW S \in SUBSET Frames, NEW k \in Nat, NEW p, Abandoning(q, S, k, p),
             q \in TQ!Queue
      PROVE  Abandoning(q, S, k + 1, AbandonOne(p, S))
  <2> USE <1>AbandonRound
  <2>1. Sound(p) /\ Placed(p, {}) /\ p \in TQ!Queue BY Zenon DEF Abandoning, Sound, Placed
  <2>2. \A f : f \in ToAbandon(p, S) <=> f \in Armed(p) /\ f \in S
    BY <2>1, ArmedIs, Zenon DEF ToAbandon
  <2>3. CASE ToAbandon(p, S) = {}
    <3>1. AbandonOne(p, S) = p BY <2>3, Zenon DEF AbandonOne
    <3>2. Armed(p) \cap S = {} BY <2>2, <2>3, Zenon
    <3> QED BY <3>1, <3>2, Zenon DEF Abandoning
  <2>4. CASE ToAbandon(p, S) # {}
    <3> DEFINE f == CHOOSE g \in ToAbandon(p, S) : TRUE
               n == TQ!abandon(p, f)
    <3>1. f \in ToAbandon(p, S) BY <2>4, Zenon
    <3>2. AbandonOne(p, S) = n BY <2>4, Zenon DEF AbandonOne
    <3> HIDE DEF f
    <3>3. f \in Armed(p) /\ f \in S BY <2>2, <3>1, Zenon
    <3>4. Sound(n) /\ Armed(n) = Armed(p) \ {f} /\ TQ!size(n) = TQ!size(p) - 1 /\ SameFlags(p, n)
      BY <2>1, <3>3, <1>DisarmAbandon, Zenon
    <3>5. TQ!size(p) + k = TQ!size(q) BY <3>3, Zenon DEF Abandoning
    <3>6. TQ!size(p) \in Nat /\ TQ!size(q) \in Nat BY <2>1, QueueTyped, Zenon
    <3> HIDE DEF n
    <3>7. TQ!size(n) + (k + 1) = TQ!size(q) BY <3>4, <3>5, <3>6
    <3>8. Armed(n) \ S = Armed(p) \ S BY <3>3, <3>4, Zenon
    <3>9. Abandoning(q, S, k + 1, n) BY <3>4, <3>7, <3>8, Zenon DEF Abandoning, SameFlags
    <3> QED BY <3>2, <3>9, Zenon
  <2> QED BY <2>3, <2>4, Zenon
\* Destroying frames abandons what is armed in them and nothing else.
<1>AbandonAllIs. ASSUME NEW q, Sound(q), NEW S \in SUBSET Frames
      PROVE  LET n == AbandonAll(q, S)
             IN  Sound(n) /\ Armed(n) = Armed(q) \ S /\ SameFlags(q, n)
  <2> USE <1>AbandonAllIs
  <2> DEFINE body == [p \in TQ!Queue |-> AbandonOne(p, S)]
             I == {p \in Nat \X TQ!Queue : Abandoning(q, S, p[1], p[2])}
             end == TQ!Repeat(body, q, TQ!size(q))
  <2>1. q \in TQ!Queue /\ TQ!size(q) \in Nat BY QueueTyped, Zenon DEF Sound, Placed
  <2>2. \A k, p : <<k, p>> \in I <=> k \in Nat /\ Abandoning(q, S, k, p)
    <3>1. \A k, p : Abandoning(q, S, k, p) => p \in TQ!Queue
      BY Zenon DEF Abandoning, Sound, Placed
    <3>2. \A k, p : <<k, p>>[1] = k /\ <<k, p>>[2] = p OBVIOUS
    <3> QED BY <3>1, <3>2, Zenon
  <2>3. <<0, q>> \in I
    <3>1. TQ!size(q) + 0 = TQ!size(q) /\ 0 \in Nat BY <2>1
    <3>2. Abandoning(q, S, 0, q) BY <3>1, Zenon DEF Abandoning, SameFlags
    <3> QED BY <2>2, <3>1, <3>2, Zenon
  <2>4. ASSUME NEW k \in Nat, NEW p, <<k, p>> \in I PROVE <<k + 1, body[p]>> \in I
    <3>1. Abandoning(q, S, k, p) /\ p \in TQ!Queue
      BY <2>2, <2>4, Zenon DEF Abandoning, Sound, Placed
    <3>2. body[p] = AbandonOne(p, S) BY <3>1, Zenon
    <3>3. Abandoning(q, S, k + 1, AbandonOne(p, S)) BY <2>1, <3>1, <1>AbandonRound, Zenon
    <3>4. k + 1 \in Nat OBVIOUS
    <3> HIDE DEF body
    <3> QED BY <2>2, <3>2, <3>3, <3>4, Zenon
  <2>5. <<TQ!size(q), end>> \in I
    <3> HIDE DEF body, I
    <3> QED BY <2>1, <2>3, <2>4, <1>RepeatKeeps
  <2>6. Abandoning(q, S, TQ!size(q), end) BY <2>2, <2>5, Zenon
  <2>7. AbandonAll(q, S) = end BY Zenon DEF AbandonAll, AbandonOne, ToAbandon
  <2> HIDE DEF end, I
  <2>8. Armed(end) \cap S = {}
    <3>1. end \in TQ!Queue BY <2>6, Zenon DEF Abandoning, Sound, Placed
    <3>2. TQ!size(end) \in Nat BY <3>1, QueueTyped, Zenon
    <3>3. TQ!size(end) + TQ!size(q) = TQ!size(q) => Places(end) = {} BY <2>1, <3>2 DEF Places
    <3>4. Places(end) = {} => Armed(end) = {} BY Zenon DEF Armed
    <3> QED BY <2>6, <3>3, <3>4, Zenon DEF Abandoning
  <2>9. Armed(end) = Armed(q) \ S BY <2>6, <2>8, Zenon DEF Abandoning
  <2> QED BY <2>6, <2>7, <2>9, Zenon DEF Abandoning
<1>1. ASSUME NEW q, NEW r, NEW deadline, Sound(q), r \in Frames, r \notin Armed(q), deadline \in Int
      PROVE  Kept(q, TQ!arm(q, r, deadline), Armed(q) \cup {r})
  BY <1>1, <1>Arm, Zenon DEF Kept
<1>2. ASSUME NEW q, NEW i, Sound(q), i \in Places(q)
      PROVE  Kept(q, TQ!remove_at(q, i), Armed(q) \ {TQ!At(q, i)})
  BY <1>2, <1>RemoveAt, Zenon DEF Kept
<1>3. ASSUME NEW q, NEW r, Sound(q), r \in Armed(q)
      PROVE  Kept(q, TQ!disarm(q, r), Armed(q) \ {r})
  BY <1>3, <1>DisarmAbandon, Zenon DEF Kept
<1>4. ASSUME NEW q, NEW S, Sound(q), S \in SUBSET Frames
      PROVE  Kept(q, AbandonAll(q, S), Armed(q) \ S)
  BY <1>4, <1>AbandonAllIs, Zenon DEF Kept
<1> QED BY <1>1, <1>2, <1>3, <1>4, Zenon

\* An empty heap is the heap of no armed registration.
LEMMA EmptyIs ==
    ASSUME NEW q \in TQ!Queue
    PROVE  /\ q.heap = << >> <=> Armed(q) = {}
           /\ q.heap # << >> => 0 \in Places(q)
<1>1. q.heap \in Seq(Frames) /\ TQ!size(q) \in Nat /\ TQ!size(q) = Len(q.heap)
  BY QueueTyped, Zenon
<1>2. q.heap = << >> <=> TQ!size(q) = 0 BY <1>1
<1>3. /\ TQ!size(q) = 0 => Places(q) = {}
      /\ TQ!size(q) # 0 => 0 \in Places(q)
  BY <1>1 DEF Places
<1> QED BY <1>2, <1>3, Zenon DEF Armed

\* NewQueue and StartQueue.
LEMMA NewQueueIs ==
    /\ Sound(TQ!NewQueue) /\ Armed(TQ!NewQueue) = {} /\ ~TQ!NewQueue.failed /\ ~TQ!NewQueue.running
    /\ \A q : Sound(TQ!StartQueue(q)) /\ Armed(TQ!StartQueue(q)) = {} /\ ~TQ!StartQueue(q).failed
\* A queue in which nothing is armed is sound.
<1>EmptySound. ASSUME NEW q \in TQ!Queue, q.heap = << >>, q.before = {},
             \A r \in Frames : q.heap_index[r] = TQ!not_in_heap
      PROVE  Sound(q) /\ Armed(q) = {}
  <2> USE <1>EmptySound
  <2>1. Armed(q) = {} BY EmptyIs, Zenon
  <2>2. Places(q) = {} BY <2>1, Zenon DEF Armed
  <2> QED BY <2>1, <2>2, Zenon DEF Sound, Placed, Sequenced, HeapOrder
<1> DEFINE n == TQ!NewQueue
<1>1. /\ n \in TQ!Queue /\ n.heap = << >> /\ n.before = {} /\ n.failed = FALSE /\ n.running = FALSE
      /\ \A r \in Frames : n.heap_index[r] = TQ!not_in_heap
  BY DEF TQ!NewQueue, TQ!Queue, TQ!not_in_heap
<1>2. ASSUME NEW q
      PROVE  /\ TQ!StartQueue(q) \in TQ!Queue /\ TQ!StartQueue(q).heap = n.heap
             /\ TQ!StartQueue(q).before = n.before /\ TQ!StartQueue(q).failed = n.failed
             /\ TQ!StartQueue(q).heap_index = n.heap_index
  <2>1. TQ!StartQueue(q) = [n EXCEPT !.running = TRUE, !.accepting = TRUE]
    BY Zenon DEF TQ!StartQueue
  <2> HIDE DEF n
  <2> QED BY <1>1, <2>1, Zenon DEF TQ!Queue
<1> HIDE DEF n
<1>3. \A q : Sound(TQ!StartQueue(q)) /\ Armed(TQ!StartQueue(q)) = {}
  BY <1>1, <1>2, <1>EmptySound, Zenon
<1>4. Sound(n) /\ Armed(n) = {} BY <1>1, <1>EmptySound, Zenon
<1> QED BY <1>1, <1>2, <1>3, <1>4, Zenon DEF n

\* CloseQueue and StopQueue only change flags.
LEMMA FlagsOnly ==
    ASSUME NEW q, Sound(q), NEW running \in BOOLEAN, NEW accepting \in BOOLEAN
    PROVE  LET n == [q EXCEPT !.running = running, !.accepting = accepting]
           IN  /\ Sound(n) /\ Armed(n) = Armed(q) /\ n.failed = q.failed /\ n.heap = q.heap
               /\ n.running = running
<1> DEFINE n == [q EXCEPT !.running = running, !.accepting = accepting]
<1>1. q \in TQ!Queue BY Zenon DEF Sound, Placed
<1>2. /\ n \in TQ!Queue /\ n.heap = q.heap /\ n.heap_index = q.heap_index
      /\ n.before = q.before /\ n.deadline = q.deadline /\ n.failed = q.failed
      /\ n.running = running
  BY <1>1, Zenon DEF TQ!Queue
<1> HIDE DEF n
<1>3. /\ TQ!size(n) = TQ!size(q) /\ Places(n) = Places(q) /\ Armed(n) = Armed(q)
      /\ \A k : TQ!At(n, k) = TQ!At(q, k)
  BY <1>2, Zenon DEF TQ!size, TQ!At, Places, Armed
<1>4. \A k, l : Precedes(n, k, l) <=> Precedes(q, k, l)
  <2>1. \A l, r : TQ!earlier(n, l, r) <=> TQ!earlier(q, l, r) BY <1>2, Zenon DEF TQ!earlier
  <2>2. ASSUME NEW k, NEW l PROVE Precedes(n, k, l) <=> Precedes(q, k, l)
    <3>1. TQ!At(n, k) = TQ!At(q, k) /\ TQ!At(n, l) = TQ!At(q, l) BY <1>3, Zenon
    <3> QED BY <2>1, <3>1, Zenon DEF Precedes
  <2> QED BY <2>2, Zenon
<1>5. Placed(n, {}) BY <1>2, <1>3, Zenon DEF Sound, Placed
<1>6. Sequenced(n) BY <1>2, <1>3, Zenon DEF Sound, Sequenced
<1>7. HeapOrder(n) BY <1>3, <1>4, Zenon DEF Sound, HeapOrder
<1> QED BY <1>2, <1>3, <1>5, <1>6, <1>7, Zenon DEF Sound, n

-----------------------------------------------------------------------------
(* The inductive invariant *)

FrameType == [at : {"absent", "suspended", "running", "done"}, child : Frames \cup {None},
              continuation : Frames \cup {None}, op : {"none", "Pending", "Completed"}]

SchedulerType ==
    [ready : Seq(Frames), roots : SUBSET Frames, running : BOOLEAN, accepting : BOOLEAN,
     stop_requested : BOOLEAN, external_stop_pending : BOOLEAN,
     cancel_pending : BOOLEAN, shutdown_pending : BOOLEAN, failed : BOOLEAN]

\* f waits for a child that has not finished
Waits(fr, f) == fr[f].child # None /\ fr[fr[f].child].at # "done"

\* Who owns a frame, and what wakes it: the ready frames R and the armed ones A. A
\* frame that runs or is done awaits nothing, which is what makes it safe to destroy
\* the child of the next ready frame.
OwnedOnce(fr, roots, f) ==
    /\ fr[f].at = "absent" =>
           fr[f] = Absent /\ f \notin roots /\ \A p \in Frames : fr[p].child # f
    /\ fr[f].at # "absent" =>
           \/ /\ f \in roots /\ fr[f].continuation = None
              /\ \A p \in Frames : fr[p].child # f
           \/ /\ f \notin roots /\ fr[f].continuation \in Frames
              /\ \A p \in Frames : fr[p].child = f <=> p = fr[f].continuation

OneWaker(fr, R, A, f) ==
    /\ fr[f].at = "suspended" =>
           /\ f \in R \/ f \in A \/ Waits(fr, f)
           /\ f \in R => f \notin A /\ ~Waits(fr, f)
           /\ f \in A => ~Waits(fr, f)
    /\ fr[f].at # "suspended" => f \notin R /\ f \notin A /\ fr[f].child = None
    /\ fr[f].op = "Pending" <=> f \in A

\* Every frame is reached from the roots, so that cancel_all_now destroys them all.
Rooted(fr, roots) ==
    \A S \in SUBSET Frames :
        roots \subseteq S /\ (\A g \in S : fr[g].child \in S \cup {None}) =>
            \A f \in Frames : fr[f].at # "absent" => f \in S

Forest(fr, roots, R, A) ==
    /\ fr \in [Frames -> FrameType] /\ roots \in SUBSET Frames
    /\ \A f \in Frames : OwnedOnce(fr, roots, f)
    /\ \A f \in Frames : OneWaker(fr, R, A, f)
    /\ Rooted(fr, roots)

ReadyOnce(s) == \A i, j \in DOMAIN s.ready : s.ready[i] = s.ready[j] => i = j

Core(fr, s, q) ==
    /\ Forest(fr, s.roots, Range(s.ready), Armed(q))
    /\ s \in SchedulerType /\ ReadyOnce(s) /\ ~s.failed
    /\ Sound(q) /\ ~q.failed
    /\ s.running \/ \A f \in Frames : fr[f].at = "absent"

LoopType == [at : {"off", "loop", "expire", "ready", "cancel", "drain"}, budget : Int]

Inv ==
    /\ Core(frame, sched, timers)
    /\ loop \in LoopType /\ now \in Nat
    /\ loop.at = "off" => ~sched.running /\ ~timers.running

-----------------------------------------------------------------------------
(* What a forest is made of *)

\* What the members of a forest are.
LEMMA ForestTyped ==
    ASSUME NEW fr, NEW roots, NEW R, NEW A, Forest(fr, roots, R, A), NEW f \in Frames
    PROVE  /\ fr[f] \in FrameType /\ fr[f].at \in {"absent", "suspended", "running", "done"}
           /\ fr[f].child \in Frames \cup {None} /\ fr[f].continuation \in Frames \cup {None}
           /\ fr[f].op \in {"none", "Pending", "Completed"}
           /\ OwnedOnce(fr, roots, f) /\ OneWaker(fr, R, A, f)
           /\ fr[f].child # None => fr[f].child \in Frames /\ fr[f].at = "suspended"
           /\ fr[f].at = "absent" => fr[f] = Absent /\ f \notin roots /\ f \notin R /\ f \notin A
           /\ None \notin Frames
<1>1. fr[f] \in FrameType BY Zenon DEF Forest
<1>2. /\ fr[f].at \in {"absent", "suspended", "running", "done"}
      /\ fr[f].child \in Frames \cup {None} /\ fr[f].continuation \in Frames \cup {None}
      /\ fr[f].op \in {"none", "Pending", "Completed"}
  BY <1>1, Zenon DEF FrameType
<1>3. OwnedOnce(fr, roots, f) /\ OneWaker(fr, R, A, f) BY Zenon DEF Forest
<1> QED BY <1>1, <1>2, <1>3, BudgetsAssumption, Zenon DEF OwnedOnce, OneWaker

\* The same for all of them.
LEMMA ForestIs ==
    ASSUME NEW fr, NEW roots, NEW R, NEW A, Forest(fr, roots, R, A)
    PROVE  /\ fr \in [Frames -> FrameType] /\ roots \in SUBSET Frames /\ Rooted(fr, roots)
           /\ \A g \in Frames : fr[g].child # None => fr[g].child \in Frames
           /\ \A g \in Frames : fr[g].child # None => fr[g].at = "suspended"
           /\ \A g \in Frames : fr[g] \in FrameType
           /\ None \notin Frames
<1>1. fr \in [Frames -> FrameType] /\ roots \in SUBSET Frames /\ Rooted(fr, roots)
  BY Zenon DEF Forest
<1>2. ASSUME NEW g \in Frames
      PROVE  /\ fr[g] \in FrameType
             /\ fr[g].child # None => fr[g].child \in Frames /\ fr[g].at = "suspended"
  <2>1. fr[g] \in FrameType /\ OneWaker(fr, R, A, g) BY Zenon DEF Forest
  <2>2. fr[g].child \in Frames \cup {None} BY <2>1, Zenon DEF FrameType
  <2> QED BY <2>1, <2>2, Zenon DEF OneWaker
<1> QED BY <1>1, <1>2, BudgetsAssumption, Zenon

\* If frames are added below the roots or below frames that stay, and only frames that
\* await nothing (X) go, every frame is reached from the roots again.
LEMMA RootedKept ==
    ASSUME NEW fr, NEW roots, Rooted(fr, roots), NEW fs, NEW rs, NEW X \in SUBSET Frames,
           \A g \in X : fr[g].child = None,
           \A g \in Frames \ X : fr[g].child \in {fs[g].child, None} \cup X,
           roots \subseteq rs \cup X,
           \A f \in Frames : fs[f].at # "absent" =>
               \/ f \in rs
               \/ fr[f].at # "absent" /\ f \notin X
               \/ \E g \in Frames \ X : fr[g].at # "absent" /\ fs[g].child = f
    PROVE  Rooted(fs, rs)
<1> SUFFICES ASSUME NEW S \in SUBSET Frames, rs \subseteq S,
                    \A g \in S : fs[g].child \in S \cup {None},
                    NEW f \in Frames, fs[f].at # "absent"
             PROVE  f \in S
  BY Zenon DEF Rooted
<1>1. S \cup X \in SUBSET Frames /\ roots \subseteq S \cup X OBVIOUS
<1>2. ASSUME NEW g \in S \cup X PROVE fr[g].child \in (S \cup X) \cup {None}
  <2>1. CASE g \in X BY <2>1, Zenon
  <2>2. CASE g \notin X
    <3>1. g \in S /\ g \in Frames \ X BY <1>2, <2>2, Zenon
    <3>2. fr[g].child \in {fs[g].child, None} \cup X BY <3>1, Zenon
    <3>3. fs[g].child \in S \cup {None} BY <3>1, Zenon
    <3> QED BY <3>2, <3>3, Zenon
  <2> QED BY <2>1, <2>2, Zenon
<1>3. \A g \in Frames : fr[g].at # "absent" => g \in S \cup X
  <2> DEFINE T == S \cup X
  <2>1. T \in SUBSET Frames /\ roots \subseteq T /\ \A g \in T : fr[g].child \in T \cup {None}
    BY <1>1, <1>2, Zenon
  <2> HIDE DEF T
  <2>2. \A g \in Frames : fr[g].at # "absent" => g \in T BY <2>1, Zenon DEF Rooted
  <2> QED BY <2>2, Zenon DEF T
<1>4. CASE f \in rs BY <1>4, Zenon
<1>5. CASE fr[f].at # "absent" /\ f \notin X BY <1>3, <1>5, Zenon
<1>6. ASSUME NEW g \in Frames \ X, fr[g].at # "absent", fs[g].child = f PROVE f \in S
  <2>1. g \in S BY <1>3, <1>6, Zenon
  <2>2. f \in S \cup {None} BY <1>6, <2>1, Zenon
  <2> QED BY <2>2, BudgetsAssumption, Zenon
<1> QED BY <1>4, <1>5, <1>6, Zenon

\* The same where no frame goes.
LEMMA RootedGrows ==
    ASSUME NEW fr, NEW roots, Rooted(fr, roots), NEW fs, NEW rs, roots \subseteq rs,
           \A g \in Frames : fr[g].child \in {fs[g].child, None},
           \A f \in Frames : fs[f].at # "absent" =>
               \/ f \in rs
               \/ fr[f].at # "absent"
               \/ \E g \in Frames : fr[g].at # "absent" /\ fs[g].child = f
    PROVE  Rooted(fs, rs)
<1> SUFFICES ASSUME NEW S \in SUBSET Frames, rs \subseteq S,
                    \A g \in S : fs[g].child \in S \cup {None},
                    NEW f \in Frames, fs[f].at # "absent"
             PROVE  f \in S
  BY Zenon DEF Rooted
<1>1. \A g \in S : fr[g].child \in S \cup {None}
  <2>1. ASSUME NEW g \in S PROVE fr[g].child \in S \cup {None}
    <3>1. fr[g].child \in {fs[g].child, None} /\ fs[g].child \in S \cup {None} BY Zenon
    <3> QED BY <3>1, Zenon
  <2> QED BY <2>1
<1>2. roots \subseteq S OBVIOUS
<1>3. \A g \in Frames : fr[g].at # "absent" => g \in S BY <1>1, <1>2, Zenon DEF Rooted
<1>4. ASSUME NEW g \in Frames, fr[g].at # "absent", fs[g].child = f PROVE f \in S
  <2>1. f \in S \cup {None} BY <1>3, <1>4, Zenon
  <2> QED BY <2>1, BudgetsAssumption, Zenon
<1> QED BY <1>3, <1>4, Zenon

\* nothing about frame g changes but, perhaps, that its child gets on without finishing
Untouched(fr, roots, R, A, fs, rs, Rs, As, g) ==
    /\ fs[g] = fr[g]
    /\ g \in rs <=> g \in roots
    /\ g \in Rs <=> g \in R
    /\ g \in As <=> g \in A
    /\ \A p \in Frames : fs[p].child = g <=> fr[p].child = g
    /\ fr[g].child # None => (fs[fr[g].child].at = "done" <=> fr[fr[g].child].at = "done")

\* Only the frames in D are touched, and they are as they should be.
Touches(fr, roots, R, A, fs, rs, Rs, As, D) ==
    /\ \A g \in Frames \ D : Untouched(fr, roots, R, A, fs, rs, Rs, As, g)
    /\ \A g \in D : OwnedOnce(fs, rs, g) /\ OneWaker(fs, Rs, As, g)

\* Only the frames that a step touches have to be looked at.
LEMMA ForestKept ==
    ASSUME NEW fr, NEW roots, NEW R, NEW A, NEW fs, NEW rs, NEW Rs, NEW As, NEW D,
           Touches(fr, roots, R, A, fs, rs, Rs, As, D), Forest(fr, roots, R, A),
           fs \in [Frames -> FrameType], rs \in SUBSET Frames, Rooted(fs, rs)
    PROVE  Forest(fs, rs, Rs, As)
<1>1. ASSUME NEW g \in Frames, g \notin D
      PROVE  OwnedOnce(fs, rs, g) /\ OneWaker(fs, Rs, As, g)
  <2>1. Untouched(fr, roots, R, A, fs, rs, Rs, As, g) BY <1>1, Zenon DEF Touches
  <2>2. OwnedOnce(fr, roots, g) /\ OneWaker(fr, R, A, g) BY Zenon DEF Forest
  <2>3. OwnedOnce(fs, rs, g)
    <3>1. /\ fs[g] = fr[g] /\ (g \in rs <=> g \in roots)
          /\ \A p \in Frames : fs[p].child = g <=> fr[p].child = g
      BY <2>1, Zenon DEF Untouched
    <3>2. CASE fr[g].at = "absent" BY <2>2, <3>1, <3>2, Zenon DEF OwnedOnce
    <3>3. CASE fr[g].at # "absent"
      <4>1. CASE g \in roots BY <2>2, <3>1, <3>3, <4>1, Zenon DEF OwnedOnce
      <4>2. CASE g \notin roots
        <5>1. /\ fr[g].continuation \in Frames
              /\ \A p \in Frames : fr[p].child = g <=> p = fr[g].continuation
          BY <2>2, <3>3, <4>2, Zenon DEF OwnedOnce
        <5>2. \A p \in Frames : fs[p].child = g <=> p = fr[g].continuation BY <3>1, <5>1, Zenon
        <5> QED BY <3>1, <3>3, <4>2, <5>1, <5>2, Zenon DEF OwnedOnce
      <4> QED BY <4>1, <4>2, Zenon
    <3> QED BY <3>2, <3>3, Zenon
  <2>4. Waits(fs, g) <=> Waits(fr, g) BY <2>1, Zenon DEF Untouched, Waits
  <2>5. OneWaker(fs, Rs, As, g) BY <2>1, <2>2, <2>4, Zenon DEF Untouched, OneWaker
  <2> QED BY <2>3, <2>5, Zenon
<1> QED BY <1>1, Zenon DEF Forest, Touches

\* A frame that is given another record.
LEMMA FrameSet ==
    ASSUME NEW fr \in [Frames -> FrameType], NEW f \in Frames, NEW r \in FrameType
    PROVE  LET fs == [fr EXCEPT ![f] = r]
           IN  fs \in [Frames -> FrameType] /\ fs[f] = r /\ \A g \in Frames : g # f => fs[g] = fr[g]
OBVIOUS

\* What a destroyed frame is ...
LEMMA AbsentIs ==
    /\ Absent \in FrameType /\ Absent.at = "absent" /\ Absent.child = None
    /\ Absent.continuation = None /\ Absent.op = "none"
BY Zenon DEF Absent, FrameType

\* ... and a new one.
LEMMA CreatedIs ==
    ASSUME NEW p \in Frames \cup {None}
    PROVE  /\ Created(p) \in FrameType /\ Created(p).at = "suspended"
           /\ Created(p).child = None /\ Created(p).continuation = p /\ Created(p).op = "none"
BY AbsentIs, Zenon DEF Created, FrameType

-----------------------------------------------------------------------------
(* What the steps of a coroutine and of the scheduler do to the frames *)

\* A frame that waits for no child becomes ready or is armed, and no other changes.
LEMMA ForestOne ==
    ASSUME NEW fr, NEW roots, NEW R, NEW A, Forest(fr, roots, R, A), NEW f \in Frames,
           fr[f].at \in {"running", "suspended"}, ~Waits(fr, f),
           NEW r \in FrameType, r.at = "suspended", r.child = fr[f].child,
           r.continuation = fr[f].continuation, NEW Rs, NEW As,
           \A g \in Frames : g # f => (g \in Rs <=> g \in R) /\ (g \in As <=> g \in A),
           f \in Rs <=> f \notin As, r.op = "Pending" <=> f \in As
    PROVE  Forest([fr EXCEPT ![f] = r], roots, Rs, As)
<1> DEFINE fs == [fr EXCEPT ![f] = r]
<1>1. /\ fr \in [Frames -> FrameType] /\ roots \in SUBSET Frames /\ Rooted(fr, roots)
      /\ \A g \in Frames : fr[g].child # None => fr[g].child \in Frames
  BY ForestIs, Zenon
<1>2. fs \in [Frames -> FrameType] /\ fs[f] = r /\ \A g \in Frames : g # f => fs[g] = fr[g]
  <2>1. fr \in [Frames -> FrameType] BY <1>1, Zenon
  <2> QED BY <2>1, FrameSet, Zenon
<1> HIDE DEF fs
<1>3. \A g \in Frames : fs[g].child = fr[g].child BY <1>2, Zenon
<1>4. \A g \in Frames : fs[g].at = "done" <=> fr[g].at = "done" BY <1>2, Zenon
<1>5. OwnedOnce(fr, roots, f) BY Zenon DEF Forest
<1>6. OwnedOnce(fs, roots, f)
  <2>1. CASE f \in roots BY <1>2, <1>3, <1>5, <2>1, Zenon DEF OwnedOnce
  <2>2. CASE f \notin roots
    <3>1. /\ fr[f].continuation \in Frames
          /\ \A p \in Frames : fr[p].child = f <=> p = fr[f].continuation
      BY <1>5, <2>2, Zenon DEF OwnedOnce
    <3> QED BY <1>2, <1>3, <2>2, <3>1, Zenon DEF OwnedOnce
  <2> QED BY <2>1, <2>2, Zenon
<1>7. OneWaker(fs, Rs, As, f)
  <2>1. ~Waits(fs, f) BY <1>1, <1>2, <1>3, <1>4, Zenon DEF Waits
  <2> QED BY <1>2, <2>1, Zenon DEF OneWaker
<1>8. ASSUME NEW g \in Frames \ {f} PROVE Untouched(fr, roots, R, A, fs, roots, Rs, As, g)
  <2>1. fr[g].child # None => fr[g].child \in Frames BY <1>1, Zenon
  <2> QED BY <1>2, <1>3, <1>4, <2>1, Zenon DEF Untouched
<1>9. Rooted(fs, roots)
  <2>1. \A g \in Frames : fr[g].child \in {fs[g].child, None} BY <1>3, Zenon
  <2>2. \A g \in Frames : fs[g].at # "absent" => fr[g].at # "absent" BY <1>2, Zenon
  <2> QED BY <1>1, <2>1, <2>2, RootedGrows
<1>10. Touches(fr, roots, R, A, fs, roots, Rs, As, {f}) BY <1>6, <1>7, <1>8, Zenon DEF Touches
<1>11. Forest(fs, roots, Rs, As) BY <1>1, <1>2, <1>9, <1>10, ForestKept, Zenon
<1> QED BY <1>11, Zenon DEF fs

\* A coroutine yields: it is ready. A coroutine sleeps: it is armed.
LEMMA ForestSuspend ==
    ASSUME NEW fr, NEW roots, NEW R, NEW A, Forest(fr, roots, R, A), NEW f \in Frames,
           fr[f].at = "running"
    PROVE  /\ Forest([fr EXCEPT ![f].at = "suspended"], roots, R \cup {f}, A)
           /\ Forest([fr EXCEPT ![f] = [@ EXCEPT !.at = "suspended", !.op = "Pending"]],
                     roots, R, A \cup {f})
<1> DEFINE yields == [fr[f] EXCEPT !.at = "suspended"]
           sleeps == [fr[f] EXCEPT !.at = "suspended", !.op = "Pending"]
<1>1. fr[f] \in FrameType /\ OneWaker(fr, R, A, f) BY Zenon DEF Forest
<1>2. /\ fr[f].child = None /\ f \notin R /\ f \notin A
      /\ fr[f].op # "Pending" /\ ~Waits(fr, f)
  BY <1>1, Zenon DEF OneWaker, Waits
<1>3. /\ yields \in FrameType /\ yields.at = "suspended" /\ yields.child = fr[f].child
      /\ yields.continuation = fr[f].continuation /\ yields.op = fr[f].op
  BY <1>1, Zenon DEF FrameType
<1>4. /\ sleeps \in FrameType /\ sleeps.at = "suspended" /\ sleeps.child = fr[f].child
      /\ sleeps.continuation = fr[f].continuation /\ sleeps.op = "Pending"
  BY <1>1, Zenon DEF FrameType
<1>5. Forest([fr EXCEPT ![f] = yields], roots, R \cup {f}, A)
  <2>1. \A g \in Frames : g # f => (g \in R \cup {f} <=> g \in R) /\ (g \in A <=> g \in A)
    OBVIOUS
  <2> HIDE DEF yields
  <2>2. (f \in R \cup {f} <=> f \notin A) /\ (yields.op = "Pending" <=> f \in A)
    BY <1>2, <1>3, Zenon
  <2> QED BY <1>2, <1>3, <2>1, <2>2, ForestOne
<1>6. Forest([fr EXCEPT ![f] = sleeps], roots, R, A \cup {f})
  <2>1. \A g \in Frames : g # f => (g \in R <=> g \in R) /\ (g \in A \cup {f} <=> g \in A)
    OBVIOUS
  <2> HIDE DEF sleeps
  <2>2. (f \in R <=> f \notin A \cup {f}) /\ (sleeps.op = "Pending" <=> f \in A \cup {f})
    BY <1>2, <1>4, Zenon
  <2> QED BY <1>2, <1>4, <2>1, <2>2, ForestOne
<1> QED BY <1>5, <1>6, Zenon

\* An operation completes: its timer is no longer armed and its frame is ready.
LEMMA ForestComplete ==
    ASSUME NEW fr, NEW roots, NEW R, NEW A, Forest(fr, roots, R, A), NEW f \in Frames, f \in A
    PROVE  /\ Forest([fr EXCEPT ![f].op = "Completed"], roots, R \cup {f}, A \ {f})
           /\ fr[f].at = "suspended" /\ f \notin R
<1> DEFINE r == [fr[f] EXCEPT !.op = "Completed"]
<1>1. fr[f] \in FrameType /\ OneWaker(fr, R, A, f) BY Zenon DEF Forest
<1>2. fr[f].at = "suspended" /\ f \notin R /\ ~Waits(fr, f) BY <1>1, Zenon DEF OneWaker
<1>3. /\ r \in FrameType /\ r.at = "suspended" /\ r.child = fr[f].child
      /\ r.continuation = fr[f].continuation /\ r.op = "Completed"
  BY <1>1, <1>2, Zenon DEF FrameType
<1> HIDE DEF r
<1>4. \A g \in Frames : g # f => (g \in R \cup {f} <=> g \in R) /\ (g \in A \ {f} <=> g \in A)
  OBVIOUS
<1>5. (f \in R \cup {f} <=> f \notin A \ {f}) /\ (r.op = "Pending" <=> f \in A \ {f})
  BY <1>3, Zenon
<1>6. Forest([fr EXCEPT ![f] = r], roots, R \cup {f}, A \ {f})
  BY <1>2, <1>3, <1>4, <1>5, ForestOne
<1> QED BY <1>2, <1>6, Zenon DEF r

\* A task is spawned: a root that is ready.
LEMMA ForestSpawn ==
    ASSUME NEW fr, NEW roots, NEW R, NEW A, Forest(fr, roots, R, A), NEW f \in Frames,
           fr[f].at = "absent"
    PROVE  Forest([fr EXCEPT ![f] = Created(None)], roots \cup {f}, R \cup {f}, A)
<1> DEFINE r == Created(None)
           fs == [fr EXCEPT ![f] = r]
           rs == roots \cup {f}
           Rs == R \cup {f}
<1>1. /\ fr \in [Frames -> FrameType] /\ roots \in SUBSET Frames /\ Rooted(fr, roots)
      /\ \A g \in Frames : fr[g].child # None => fr[g].child \in Frames
      /\ None \notin Frames
  BY ForestIs, Zenon
<1>2. /\ r \in FrameType /\ r.at = "suspended" /\ r.child = None
      /\ r.continuation = None /\ r.op = "none"
  <2>1. None \in Frames \cup {None} OBVIOUS
  <2> QED BY <2>1, CreatedIs, Zenon
<1> HIDE DEF r
<1>3. fs \in [Frames -> FrameType] /\ fs[f] = r /\ \A g \in Frames : g # f => fs[g] = fr[g]
  <2>1. fr \in [Frames -> FrameType] /\ r \in FrameType BY <1>1, <1>2, Zenon
  <2> QED BY <2>1, FrameSet, Zenon
<1>4. OwnedOnce(fr, roots, f) /\ OneWaker(fr, R, A, f) BY Zenon DEF Forest
<1>5. /\ fr[f].child = None /\ f \notin R /\ f \notin A /\ f \notin roots
      /\ \A p \in Frames : fr[p].child # f
  BY <1>4, Zenon DEF OneWaker, OwnedOnce
<1> HIDE DEF fs, rs, Rs
<1>6. \A g \in Frames : fs[g].child = fr[g].child BY <1>2, <1>3, <1>5, Zenon
<1>7. \A g : (g \in rs <=> g \in roots \/ g = f) /\ (g \in Rs <=> g \in R \/ g = f)
  BY Zenon DEF rs, Rs
<1>8. OwnedOnce(fs, rs, f) BY <1>2, <1>3, <1>5, <1>6, <1>7, Zenon DEF OwnedOnce
<1>9. OneWaker(fs, Rs, A, f) BY <1>2, <1>3, <1>5, <1>7, Zenon DEF OneWaker, Waits
<1>10. ASSUME NEW g \in Frames \ {f} PROVE Untouched(fr, roots, R, A, fs, rs, Rs, A, g)
  <2>1. fr[g].child # None => fs[fr[g].child] = fr[fr[g].child] BY <1>1, <1>3, <1>5, Zenon
  <2> QED BY <1>3, <1>6, <1>7, <2>1, Zenon DEF Untouched
<1>11. Rooted(fs, rs)
  <2>1. \A g \in Frames : fr[g].child \in {fs[g].child, None} BY <1>6, Zenon
  <2>2. \A g \in Frames : fs[g].at # "absent" => g \in rs \/ fr[g].at # "absent"
    BY <1>3, <1>7, Zenon
  <2>3. roots \subseteq rs BY <1>7, Zenon
  <2> QED BY <1>1, <2>1, <2>2, <2>3, RootedGrows
<1>12. Forest(fs, rs, Rs, A)
  <2>1. Touches(fr, roots, R, A, fs, rs, Rs, A, {f}) BY <1>8, <1>9, <1>10, Zenon DEF Touches
  <2>2. rs \in SUBSET Frames BY <1>1, <1>7, Zenon
  <2> QED BY <1>3, <1>11, <2>1, <2>2, ForestKept, Zenon
<1> QED BY <1>12, Zenon DEF fs, r, rs, Rs

\* A coroutine awaits a new task: the child is ready, its parent waits for it.
LEMMA ForestAwait ==
    ASSUME NEW fr, NEW roots, NEW R, NEW A, Forest(fr, roots, R, A),
           NEW f \in Frames, fr[f].at = "running", NEW c \in Frames, fr[c].at = "absent"
    PROVE  Forest([fr EXCEPT ![c] = Created(f),
                             ![f] = [@ EXCEPT !.at = "suspended", !.child = c]],
                  roots, R \cup {c}, A)
<1> DEFINE n == Created(f)
           r == [fr[f] EXCEPT !.at = "suspended", !.child = c]
           fs == [fr EXCEPT ![c] = n, ![f] = r]
           Rs == R \cup {c}
<1>1. /\ fr \in [Frames -> FrameType] /\ roots \in SUBSET Frames /\ Rooted(fr, roots)
      /\ \A g \in Frames : fr[g].child # None => fr[g].child \in Frames
      /\ None \notin Frames /\ fr[f] \in FrameType
  BY ForestIs, Zenon
<1>2. /\ n \in FrameType /\ n.at = "suspended" /\ n.child = None
      /\ n.continuation = f /\ n.op = "none"
  <2>1. f \in Frames \cup {None} OBVIOUS
  <2> QED BY <2>1, CreatedIs, Zenon
<1>3. /\ r \in FrameType /\ r.at = "suspended" /\ r.child = c
      /\ r.continuation = fr[f].continuation /\ r.op = fr[f].op
  BY <1>1, Zenon DEF FrameType
<1>4. f # c /\ c # f OBVIOUS
<1>5. [fr EXCEPT ![c] = Created(f), ![f] = [@ EXCEPT !.at = "suspended", !.child = c]] = fs
  BY <1>1, <1>4
<1> HIDE DEF n, r
<1>6. /\ fs \in [Frames -> FrameType] /\ fs[c] = n /\ fs[f] = r
      /\ \A g \in Frames : g # c /\ g # f => fs[g] = fr[g]
  <2>1. fr \in [Frames -> FrameType] /\ n \in FrameType /\ r \in FrameType /\ c # f
    BY <1>1, <1>2, <1>3, <1>4, Zenon
  <2> QED BY <2>1, ChangedTwice
<1>7. /\ OwnedOnce(fr, roots, f) /\ OneWaker(fr, R, A, f)
      /\ OwnedOnce(fr, roots, c) /\ OneWaker(fr, R, A, c)
  BY Zenon DEF Forest
<1>8. /\ fr[c].child = None /\ c \notin R /\ c \notin A /\ c \notin roots
      /\ \A p \in Frames : fr[p].child # c
  BY <1>7, Zenon DEF OneWaker, OwnedOnce
<1>9. fr[f].child = None /\ f \notin R /\ f \notin A BY <1>7, Zenon DEF OneWaker
<1> HIDE DEF fs, Rs
<1>10. \A g : g \in Rs <=> g \in R \/ g = c BY Zenon DEF Rs
<1>11. ASSUME NEW g \in Frames, g # c, NEW p \in Frames
       PROVE  fs[p].child = g <=> fr[p].child = g
  <2>1. g # None BY <1>1, Zenon
  <2>2. CASE p = f BY <1>3, <1>6, <1>9, <1>11, <2>1, <2>2, Zenon
  <2>3. CASE p = c BY <1>2, <1>6, <1>8, <2>1, <2>3, Zenon
  <2>4. CASE p # f /\ p # c BY <1>6, <2>4, Zenon
  <2> QED BY <2>2, <2>3, <2>4, Zenon
<1>12. ASSUME NEW p \in Frames PROVE fs[p].child = c <=> p = f
  <2>1. c # None BY <1>1, Zenon
  <2>2. CASE p = f BY <1>3, <1>6, <2>2, Zenon
  <2>3. CASE p = c BY <1>2, <1>4, <1>6, <2>1, <2>3, Zenon
  <2>4. CASE p # f /\ p # c BY <1>6, <1>8, <2>4, Zenon
  <2> QED BY <2>2, <2>3, <2>4, Zenon
<1>13. OwnedOnce(fs, roots, c) BY <1>2, <1>6, <1>8, <1>12, Zenon DEF OwnedOnce
<1>14. OneWaker(fs, Rs, A, c) BY <1>2, <1>6, <1>8, <1>10, Zenon DEF OneWaker, Waits
<1>15. OwnedOnce(fs, roots, f)
  <2>1. \A p \in Frames : fs[p].child = f <=> fr[p].child = f BY <1>4, <1>11, Zenon
  <2>2. CASE f \in roots BY <1>3, <1>6, <1>7, <2>1, <2>2, Zenon DEF OwnedOnce
  <2>3. CASE f \notin roots
    <3>1. /\ fr[f].continuation \in Frames
          /\ \A p \in Frames : fr[p].child = f <=> p = fr[f].continuation
      BY <1>7, <2>3, Zenon DEF OwnedOnce
    <3> QED BY <1>3, <1>6, <2>1, <2>3, <3>1, Zenon DEF OwnedOnce
  <2> QED BY <2>2, <2>3, Zenon
<1>16. OneWaker(fs, Rs, A, f)
  <2>1. Waits(fs, f) BY <1>1, <1>2, <1>3, <1>6, Zenon DEF Waits
  <2> QED BY <1>3, <1>4, <1>6, <1>7, <1>9, <1>10, <2>1, Zenon DEF OneWaker
<1>17. ASSUME NEW g \in Frames \ {f, c} PROVE Untouched(fr, roots, R, A, fs, roots, Rs, A, g)
  <2>1. \A p \in Frames : p # c => (fs[p].at = "done" <=> fr[p].at = "done")
    BY <1>3, <1>6, Zenon
  <2>2. fr[g].child # None => fr[g].child \in Frames /\ fr[g].child # c BY <1>1, <1>8, Zenon
  <2> QED BY <1>6, <1>10, <1>11, <2>1, <2>2, Zenon DEF Untouched
<1>18. Rooted(fs, roots)
  <2>1. \A g \in Frames : fr[g].child \in {fs[g].child, None} BY <1>6, <1>8, <1>9, Zenon
  <2>2. \A g \in Frames : fs[g].at # "absent" =>
            \/ g \in roots \/ fr[g].at # "absent"
            \/ \E p \in Frames : fr[p].at # "absent" /\ fs[p].child = g
    <3>1. fr[f].at # "absent" OBVIOUS
    <3>2. fs[f].child = c BY <1>3, <1>6, Zenon
    <3> QED BY <1>6, <3>1, <3>2, Zenon
  <2>3. roots \subseteq roots OBVIOUS
  <2> QED BY <1>1, <2>1, <2>2, <2>3, RootedGrows
<1>19. Forest(fs, roots, Rs, A)
  <2>1. Touches(fr, roots, R, A, fs, roots, Rs, A, {f, c})
    BY <1>13, <1>14, <1>15, <1>16, <1>17, Zenon DEF Touches
  <2> QED BY <1>1, <1>6, <1>18, <2>1, ForestKept, Zenon
<1> QED BY <1>5, <1>19, Zenon DEF Rs

\* A coroutine returns or throws: the one that waits for it becomes ready.
LEMMA ForestFinish ==
    ASSUME NEW fr, NEW roots, NEW R, NEW A, Forest(fr, roots, R, A), NEW f \in Frames,
           fr[f].at = "running", NEW Rs,
           \A g \in Frames : g \in Rs <=> g \in R \/ g = fr[f].continuation
    PROVE  /\ Forest([fr EXCEPT ![f].at = "done"], roots, Rs, A)
           /\ LET c == fr[f].continuation
              IN  c # None => c \in Frames /\ c # f /\ fr[c].at = "suspended" /\ c \notin R
<1> DEFINE r == [fr[f] EXCEPT !.at = "done"]
           c == fr[f].continuation
           fs == [fr EXCEPT ![f] = r]
           D == {f} \cup ({c} \cap Frames)
<1>1. /\ fr \in [Frames -> FrameType] /\ roots \in SUBSET Frames /\ Rooted(fr, roots)
      /\ \A g \in Frames : fr[g].child # None => fr[g].child \in Frames
      /\ \A g \in Frames : fr[g].child # None => fr[g].at = "suspended"
      /\ None \notin Frames /\ fr[f] \in FrameType
  BY ForestIs, Zenon
<1>2. /\ r \in FrameType /\ r.at = "done" /\ r.child = fr[f].child
      /\ r.continuation = c /\ r.op = fr[f].op /\ c \in Frames \cup {None}
  BY <1>1, Zenon DEF FrameType
<1> HIDE DEF r
<1>3. fs \in [Frames -> FrameType] /\ fs[f] = r /\ \A g \in Frames : g # f => fs[g] = fr[g]
  <2>1. fr \in [Frames -> FrameType] /\ r \in FrameType BY <1>1, <1>2, Zenon
  <2> QED BY <2>1, FrameSet, Zenon
<1>4. OwnedOnce(fr, roots, f) /\ OneWaker(fr, R, A, f) BY Zenon DEF Forest
<1>5. fr[f].child = None /\ f \notin R /\ f \notin A /\ fr[f].op # "Pending"
  BY <1>4, Zenon DEF OneWaker
<1>6. \A p \in Frames : fr[p].child = f <=> p = c
  BY <1>1, <1>4, Zenon DEF OwnedOnce
<1>7. ASSUME c \in Frames
      PROVE  /\ fr[c].child = f /\ fr[c].at = "suspended" /\ c # f /\ Waits(fr, c)
             /\ c \notin R /\ c \notin A /\ fr[c].op # "Pending"
             /\ OwnedOnce(fr, roots, c)
  <2>1. fr[c].child = f /\ f # None BY <1>1, <1>6, <1>7, Zenon
  <2>2. fr[c].at = "suspended" BY <1>1, <1>7, <2>1, Zenon
  <2>3. Waits(fr, c) BY <2>1, Zenon DEF Waits
  <2>4. OwnedOnce(fr, roots, c) /\ OneWaker(fr, R, A, c) BY <1>7, Zenon DEF Forest
  <2>5. c \notin R /\ c \notin A /\ fr[c].op # "Pending" BY <2>2, <2>3, <2>4, Zenon DEF OneWaker
  <2>6. c # f BY <1>5, <2>1, Zenon
  <2> QED BY <2>1, <2>2, <2>3, <2>4, <2>5, <2>6, Zenon
<1> HIDE DEF fs, c
<1>8. \A g \in Frames : fs[g].child = fr[g].child BY <1>2, <1>3, Zenon
<1>9. f # c BY <1>5, <1>6, <1>1, Zenon
<1>10. \A g \in Frames : g \in Rs <=> g \in R \/ g = c BY DEF c
<1>11. OwnedOnce(fs, roots, f)
  <2>1. CASE f \in roots BY <1>2, <1>3, <1>4, <1>8, <2>1, Zenon DEF OwnedOnce, c
  <2>2. CASE f \notin roots
    <3>1. c \in Frames BY <1>4, <2>2, Zenon DEF OwnedOnce, c
    <3> QED BY <1>2, <1>3, <1>6, <1>8, <2>2, <3>1, Zenon DEF OwnedOnce
  <2> QED BY <2>1, <2>2, Zenon
<1>12. OneWaker(fs, Rs, A, f)
  <2>1. f \notin Rs BY <1>5, <1>9, <1>10, Zenon
  <2> QED BY <1>2, <1>3, <1>5, <2>1, Zenon DEF OneWaker
<1>13. ASSUME c \in Frames PROVE OwnedOnce(fs, roots, c) /\ OneWaker(fs, Rs, A, c)
  <2>1. fs[c] = fr[c] BY <1>3, <1>9, <1>13, Zenon
  <2>2. OwnedOnce(fs, roots, c)
    <3>1. CASE c \in roots BY <1>7, <1>8, <1>13, <2>1, <3>1, Zenon DEF OwnedOnce
    <3>2. CASE c \notin roots
      <4>1. /\ fr[c].continuation \in Frames
            /\ \A p \in Frames : fr[p].child = c <=> p = fr[c].continuation
        BY <1>7, <1>13, <3>2, Zenon DEF OwnedOnce
      <4>2. \A p \in Frames : fs[p].child = c <=> p = fr[c].continuation BY <1>8, <4>1, Zenon
      <4> QED BY <1>7, <1>13, <2>1, <3>2, <4>1, <4>2, Zenon DEF OwnedOnce
    <3> QED BY <3>1, <3>2, Zenon
  <2>3. OneWaker(fs, Rs, A, c)
    <3>1. ~Waits(fs, c) BY <1>2, <1>3, <1>7, <1>13, <2>1, Zenon DEF Waits
    <3>2. c \in Rs BY <1>10, <1>13, Zenon
    <3> QED BY <1>7, <1>13, <2>1, <3>1, <3>2, Zenon DEF OneWaker
  <2> QED BY <2>2, <2>3, Zenon
<1>14. ASSUME NEW g \in Frames \ D PROVE Untouched(fr, roots, R, A, fs, roots, Rs, A, g)
  <2>1. g # f /\ g # c OBVIOUS
  <2>2. fr[g].child # None => fr[g].child \in Frames /\ fr[g].child # f
    BY <1>1, <1>6, <2>1, Zenon
  <2> QED BY <1>3, <1>8, <1>10, <2>1, <2>2, Zenon DEF Untouched
<1>15. Rooted(fs, roots)
  <2>1. \A g \in Frames : fr[g].child \in {fs[g].child, None} BY <1>8, Zenon
  <2>2. \A g \in Frames : fs[g].at # "absent" => fr[g].at # "absent" BY <1>3, Zenon
  <2> QED BY <1>1, <2>1, <2>2, RootedGrows
<1>16. Forest(fs, roots, Rs, A)
  <2>1. \A g \in D : OwnedOnce(fs, roots, g) /\ OneWaker(fs, Rs, A, g)
    BY <1>11, <1>12, <1>13, Zenon
  <2>2. Touches(fr, roots, R, A, fs, roots, Rs, A, D) BY <1>14, <2>1, Zenon DEF Touches
  <2> HIDE DEF D
  <2> QED BY <1>1, <1>3, <1>15, <2>2, ForestKept, Zenon
<1>17. c # None => c \in Frames /\ c # f /\ fr[c].at = "suspended" /\ c \notin R
  BY <1>2, <1>7, Zenon
<1> QED BY <1>16, <1>17, Zenon DEF fs, r, c

\* Frames that go are Absent afterwards.
LEMMA DestroyIs ==
    ASSUME NEW fr \in [Frames -> FrameType], NEW X
    PROVE  /\ Destroy(fr, X) \in [Frames -> FrameType]
           /\ \A g \in Frames : g \in X => Destroy(fr, X)[g] = Absent
           /\ \A g \in Frames : g \notin X => Destroy(fr, X)[g] = fr[g]
<1>1. Absent \in FrameType BY AbsentIs, Zenon
<1> QED BY <1>1, Zenon DEF Destroy

\* A root that is done is destroyed.
LEMMA ForestEndRoot ==
    ASSUME NEW fr, NEW roots, NEW R, NEW A, Forest(fr, roots, R, A), NEW f \in roots,
           fr[f].at = "done"
    PROVE  Forest(Destroy(fr, {f}), roots \ {f}, R, A)
<1> DEFINE fs == Destroy(fr, {f})
           rs == roots \ {f}
<1>1. /\ fr \in [Frames -> FrameType] /\ roots \in SUBSET Frames /\ Rooted(fr, roots)
      /\ \A g \in Frames : fr[g].child # None => fr[g].child \in Frames
      /\ None \notin Frames /\ f \in Frames
  BY ForestIs, Zenon
<1>2. /\ fs \in [Frames -> FrameType] /\ fs[f] = Absent
      /\ \A g \in Frames : g # f => fs[g] = fr[g]
  <2>1. fr \in [Frames -> FrameType] BY <1>1, Zenon
  <2>2. /\ fs \in [Frames -> FrameType]
        /\ \A g \in Frames : g \in {f} => fs[g] = Absent
        /\ \A g \in Frames : g \notin {f} => fs[g] = fr[g]
    BY <2>1, DestroyIs
  <2> HIDE DEF fs
  <2> QED BY <1>1, <2>2, Zenon
<1>3. OwnedOnce(fr, roots, f) /\ OneWaker(fr, R, A, f) BY <1>1, Zenon DEF Forest
<1>4. /\ fr[f].child = None /\ f \notin R /\ f \notin A
      /\ \A p \in Frames : fr[p].child # f
  BY <1>3, Zenon DEF OneWaker, OwnedOnce
<1> HIDE DEF fs, rs
<1>5. \A g \in Frames : fs[g].child = fr[g].child BY <1>2, <1>4, AbsentIs, Zenon
<1>6. \A g : g \in rs <=> g \in roots /\ g # f BY Zenon DEF rs
<1>7. OwnedOnce(fs, rs, f) BY <1>2, <1>4, <1>5, <1>6, AbsentIs, Zenon DEF OwnedOnce
<1>8. OneWaker(fs, R, A, f) BY <1>2, <1>4, AbsentIs, Zenon DEF OneWaker
<1>9. ASSUME NEW g \in Frames \ {f} PROVE Untouched(fr, roots, R, A, fs, rs, R, A, g)
  <2>1. fr[g].child # None => fs[fr[g].child] = fr[fr[g].child] BY <1>1, <1>2, <1>4, Zenon
  <2> QED BY <1>2, <1>5, <1>6, <2>1, Zenon DEF Untouched
<1>10. Rooted(fs, rs)
  <2> DEFINE X == {f}
  <2>1. \A g : g \in X <=> g = f OBVIOUS
  <2> HIDE DEF X
  <2>2. \A g \in Frames \ X : fr[g].child \in {fs[g].child, None} \cup X BY <1>5, Zenon
  <2>3. \A g \in Frames : fs[g].at # "absent" =>
            \/ g \in rs
            \/ fr[g].at # "absent" /\ g \notin X
            \/ \E p \in Frames \ X : fr[p].at # "absent" /\ fs[p].child = g
    BY <1>2, <2>1, AbsentIs, Zenon
  <2>4. roots \subseteq rs \cup X BY <1>6, <2>1, Zenon
  <2>5. f \in Frames /\ fr[f].child = None BY <1>1, <1>4, Zenon
  <2>6. X \in SUBSET Frames /\ \A g \in X : fr[g].child = None BY <2>1, <2>5
  <2> QED BY <1>1, <2>2, <2>3, <2>4, <2>6, RootedKept
<1>11. Forest(fs, rs, R, A)
  <2>1. Touches(fr, roots, R, A, fs, rs, R, A, {f}) BY <1>7, <1>8, <1>9, Zenon DEF Touches
  <2>2. rs \in SUBSET Frames BY <1>1, <1>6, Zenon
  <2> QED BY <1>2, <1>10, <2>1, <2>2, ForestKept, Zenon
<1> QED BY <1>11, Zenon DEF fs, rs

\* the child that f awaits, and the frames once f is resumed and the awaiter is gone
Below(fr, f) == {fr[f].child} \cap Frames

Resumed(fr, f, gone) ==
    [Destroy(fr, gone) EXCEPT ![f] = [@ EXCEPT !.at = "running", !.child = None, !.op = "none"]]

\* neither f nor the child it awaited has a timer, and the child awaits nothing
Settled(fr, A, f) == f \notin A /\ \A g \in Below(fr, f) : g \notin A /\ fr[g].child = None

\* A ready frame is resumed: its awaiter goes, and with it the child that is done.
LEMMA ForestResume ==
    ASSUME NEW fr, NEW roots, NEW R, NEW A, Forest(fr, roots, R, A), NEW f \in Frames, f \in R
    PROVE  Forest(Resumed(fr, f, Below(fr, f)), roots, R \ {f}, A) /\ Settled(fr, A, f)
<1> DEFINE gone == Below(fr, f)
<1> gone = Below(fr, f) OBVIOUS
<1> HIDE DEF gone
<1> DEFINE ds == Destroy(fr, gone)
           r == [fr[f] EXCEPT !.at = "running", !.child = None, !.op = "none"]
           fs == [ds EXCEPT ![f] = r]
           Rs == R \ {f}
<1>1. /\ fr \in [Frames -> FrameType] /\ roots \in SUBSET Frames /\ Rooted(fr, roots)
      /\ \A g \in Frames : fr[g].child # None => fr[g].child \in Frames
      /\ \A g \in Frames : fr[g].child # None => fr[g].at = "suspended"
      /\ None \notin Frames /\ fr[f] \in FrameType
  BY ForestIs, Zenon
<1>2. /\ r \in FrameType /\ r.at = "running" /\ r.child = None
      /\ r.continuation = fr[f].continuation /\ r.op = "none"
  BY <1>1, Zenon DEF FrameType
<1>3. OwnedOnce(fr, roots, f) /\ OneWaker(fr, R, A, f) BY Zenon DEF Forest
<1>4. fr[f].at = "suspended" /\ f \notin A /\ ~Waits(fr, f) BY <1>3, Zenon DEF OneWaker
<1>5. \A g : g \in gone <=> g \in Frames /\ g = fr[f].child BY Zenon DEF Below
<1>6. ASSUME NEW g \in gone
      PROVE  /\ g \in Frames /\ g # f /\ fr[g].at = "done" /\ fr[g].child = None
             /\ g \notin R /\ g \notin A /\ g \notin roots
             /\ \A p \in Frames : fr[p].child = g <=> p = f
  <2>1. g \in Frames /\ g = fr[f].child /\ g # None BY <1>1, <1>5, Zenon
  <2>2. fr[g].at = "done" BY <1>4, <2>1, Zenon DEF Waits
  <2>3. OwnedOnce(fr, roots, g) /\ OneWaker(fr, R, A, g) BY <2>1, Zenon DEF Forest
  <2>4. fr[g].child = None /\ g \notin R /\ g \notin A BY <2>2, <2>3, Zenon DEF OneWaker
  <2>5. g \notin roots /\ \A p \in Frames : fr[p].child = g <=> p = f
    BY <2>1, <2>2, <2>3, Zenon DEF OwnedOnce
  <2> QED BY <1>4, <2>1, <2>2, <2>4, <2>5, Zenon
<1>7. /\ ds \in [Frames -> FrameType]
      /\ \A g \in Frames : g \in gone => ds[g] = Absent
      /\ \A g \in Frames : g \notin gone => ds[g] = fr[g]
  <2>1. fr \in [Frames -> FrameType] BY <1>1, Zenon
  <2> QED BY <2>1, DestroyIs
<1>8. f \notin gone BY <1>6, Zenon
<1>9. Resumed(fr, f, gone) = fs
  <2>1. ds[f] = fr[f] BY <1>7, <1>8, Zenon
  <2> HIDE DEF ds
  <2>2. [ds EXCEPT ![f] = [@ EXCEPT !.at = "running", !.child = None, !.op = "none"]]
            = [ds EXCEPT ![f] = [ds[f] EXCEPT !.at = "running", !.child = None, !.op = "none"]]
    OBVIOUS
  <2> QED BY <2>1, <2>2, Zenon DEF ds, Resumed
<1> HIDE DEF r, ds
<1>10. /\ fs \in [Frames -> FrameType] /\ fs[f] = r
       /\ \A g \in Frames : g \in gone => fs[g] = Absent
       /\ \A g \in Frames : g # f /\ g \notin gone => fs[g] = fr[g]
  <2>1. ds \in [Frames -> FrameType] /\ r \in FrameType BY <1>2, <1>7, Zenon
  <2>2. fs \in [Frames -> FrameType] /\ fs[f] = r /\ \A g \in Frames : g # f => fs[g] = ds[g]
    BY <2>1, FrameSet, Zenon
  <2> HIDE DEF fs
  <2> QED BY <1>7, <1>8, <2>2, Zenon
<1> HIDE DEF fs, Rs
<1>11. \A g : g \in Rs <=> g \in R /\ g # f BY Zenon DEF Rs
<1>12. ASSUME NEW g \in Frames, g \notin gone, NEW p \in Frames
       PROVE  fs[p].child = g <=> fr[p].child = g
  <2>1. g # None BY <1>1, Zenon
  <2>2. CASE p = f BY <1>2, <1>5, <1>10, <1>12, <2>1, <2>2, Zenon
  <2>3. CASE p \in gone BY <1>6, <1>10, <2>1, <2>3, AbsentIs, Zenon
  <2>4. CASE p # f /\ p \notin gone BY <1>10, <2>4, Zenon
  <2> QED BY <2>2, <2>3, <2>4, Zenon
<1>13. OwnedOnce(fs, roots, f)
  <2>1. \A p \in Frames : fs[p].child = f <=> fr[p].child = f BY <1>8, <1>12, Zenon
  <2>2. CASE f \in roots BY <1>2, <1>3, <1>4, <1>10, <2>1, <2>2, Zenon DEF OwnedOnce
  <2>3. CASE f \notin roots
    <3>1. /\ fr[f].continuation \in Frames
          /\ \A p \in Frames : fr[p].child = f <=> p = fr[f].continuation
      BY <1>3, <1>4, <2>3, Zenon DEF OwnedOnce
    <3> QED BY <1>2, <1>10, <2>1, <2>3, <3>1, Zenon DEF OwnedOnce
  <2> QED BY <2>2, <2>3, Zenon
<1>14. OneWaker(fs, Rs, A, f) BY <1>2, <1>4, <1>10, <1>11, Zenon DEF OneWaker
<1>15. ASSUME NEW g \in gone PROVE OwnedOnce(fs, roots, g) /\ OneWaker(fs, Rs, A, g)
  <2>1. g \in Frames /\ fs[g] = Absent BY <1>6, <1>10, Zenon
  <2>2. ASSUME NEW p \in Frames PROVE fs[p].child # g
    <3>1. g # None BY <1>1, <2>1, Zenon
    <3>2. CASE p = f BY <1>2, <1>10, <3>1, <3>2, Zenon
    <3>3. CASE p \in gone BY <1>10, <3>1, <3>3, AbsentIs, Zenon
    <3>4. CASE p # f /\ p \notin gone
      <4>1. fr[p].child # g BY <1>6, <3>4, Zenon
      <4> QED BY <1>10, <3>4, <4>1, Zenon
    <3> QED BY <3>2, <3>3, <3>4, Zenon
  <2>3. OwnedOnce(fs, roots, g) BY <1>6, <2>1, <2>2, AbsentIs, Zenon DEF OwnedOnce
  <2>4. OneWaker(fs, Rs, A, g) BY <1>6, <1>11, <2>1, AbsentIs, Zenon DEF OneWaker
  <2> QED BY <2>3, <2>4, Zenon
<1>16. ASSUME NEW g \in Frames \ (gone \cup {f})
       PROVE  Untouched(fr, roots, R, A, fs, roots, Rs, A, g)
  <2>1. g \in Frames /\ g # f /\ g \notin gone BY Zenon
  <2>2. fr[g].child # None => fr[g].child \in Frames /\ fr[g].child \notin gone
    <3>1. fr[g].child # None => fr[g].child \in Frames BY <1>1, <2>1, Zenon
    <3>2. ASSUME fr[g].child \in gone PROVE FALSE
      <4>1. \A p \in Frames : fr[p].child = fr[g].child <=> p = f BY <1>6, <3>2, Zenon
      <4> QED BY <2>1, <4>1, Zenon
    <3> QED BY <3>1, <3>2, Zenon
  <2>3. \A p \in Frames : p \notin gone => (fs[p].at = "done" <=> fr[p].at = "done")
    BY <1>2, <1>4, <1>10, Zenon
  <2> QED BY <1>10, <1>11, <1>12, <2>1, <2>2, <2>3, Zenon DEF Untouched
<1>17. Rooted(fs, roots)
  <2>1. gone \in SUBSET Frames /\ \A g \in gone : fr[g].child = None BY <1>6, Zenon
  <2>2. ASSUME NEW g \in Frames \ gone PROVE fr[g].child \in {fs[g].child, None} \cup gone
    <3>1. CASE g = f BY <1>1, <1>5, <3>1, Zenon
    <3>2. CASE g # f BY <1>10, <3>2, Zenon
    <3> QED BY <3>1, <3>2, Zenon
  <2>3. \A g \in Frames : fs[g].at # "absent" =>
            \/ g \in roots
            \/ fr[g].at # "absent" /\ g \notin gone
            \/ \E p \in Frames \ gone : fr[p].at # "absent" /\ fs[p].child = g
    BY <1>4, <1>8, <1>10, AbsentIs, Zenon
  <2>4. roots \subseteq roots \cup gone OBVIOUS
  <2>5. gone \in SUBSET Frames BY <2>1, Zenon
  <2> QED BY <1>1, <2>1, <2>2, <2>3, <2>4, <2>5, RootedKept
<1>18. Forest(fs, roots, Rs, A)
  <2> DEFINE D == gone \cup {f}
  <2>1. /\ \A g \in Frames \ D : Untouched(fr, roots, R, A, fs, roots, Rs, A, g)
        /\ \A g \in D : OwnedOnce(fs, roots, g) /\ OneWaker(fs, Rs, A, g)
    BY <1>13, <1>14, <1>15, <1>16, Zenon
  <2> HIDE DEF D
  <2>2. Touches(fr, roots, R, A, fs, roots, Rs, A, D) BY <2>1, Zenon DEF Touches
  <2> QED BY <1>1, <1>10, <1>17, <2>2, ForestKept, Zenon
<1>19. \A g \in gone : g \notin A /\ fr[g].child = None BY <1>6, Zenon
<1> QED BY <1>4, <1>9, <1>18, <1>19, Zenon DEF Rs, gone, Settled

\* When no frame exists, there is nothing to own or to wake.
LEMMA ForestEmpty ==
    ASSUME NEW fr \in [Frames -> FrameType], \A g \in Frames : fr[g] = Absent
    PROVE  Forest(fr, {}, {}, {})
<1>1. None \notin Frames BY BudgetsAssumption, Zenon
<1>2. \A f \in Frames : OwnedOnce(fr, {}, f) BY <1>1, AbsentIs, Zenon DEF OwnedOnce
<1>3. \A f \in Frames : OneWaker(fr, {}, {}, f) BY AbsentIs, Zenon DEF OneWaker
<1>4. Rooted(fr, {}) BY AbsentIs, Zenon DEF Rooted
<1> QED BY <1>2, <1>3, <1>4, Zenon DEF Forest

-----------------------------------------------------------------------------
(* The scheduler's operations keep Core *)

\* t is s but for flags that neither frames nor timers depend on
SameWork(s, t) ==
    /\ t \in SchedulerType /\ t.ready = s.ready /\ t.roots = s.roots
    /\ t.running = s.running /\ t.failed = s.failed

\* Such flags are nothing to Core.
LEMMA CoreFlags ==
    ASSUME NEW fr, NEW s, NEW q, Core(fr, s, q), NEW t, SameWork(s, t)
    PROVE  Core(fr, t, q)
BY Zenon DEF Core, SameWork, ReadyOnce

\* A stop that was asked for only changes flags.
LEMMA ObservedIs ==
    ASSUME NEW s \in SchedulerType
    PROVE  SameWork(s, observe_external_stop(s))
<1>1. CASE s.external_stop_pending
  <2>1. observe_external_stop(s) = [s EXCEPT !.stop_requested = TRUE, !.accepting = FALSE]
    BY <1>1, Zenon DEF observe_external_stop
  <2> QED BY <2>1, Zenon DEF SameWork, SchedulerType
<1>2. CASE ~s.external_stop_pending
  <2>1. observe_external_stop(s) = s BY <1>2, Zenon DEF observe_external_stop
  <2> QED BY <2>1, Zenon DEF SameWork
<1> QED BY <1>1, <1>2, Zenon

\* What the members of a scheduler are.
LEMMA SchedulerTyped ==
    ASSUME NEW s \in SchedulerType
    PROVE  /\ s.ready \in Seq(Frames) /\ s.roots \in SUBSET Frames
           /\ s.running \in BOOLEAN /\ s.failed \in BOOLEAN
           /\ s.cancel_pending \in BOOLEAN /\ s.shutdown_pending \in BOOLEAN
BY Zenon DEF SchedulerType

\* t is s with one more frame at the end of its ready list
Scheduled(s, t, f) ==
    /\ t \in SchedulerType /\ ReadyOnce(t) /\ Range(t.ready) = Range(s.ready) \cup {f}
    /\ t.roots = s.roots /\ t.running = s.running /\ t.failed = s.failed
    /\ t.cancel_pending = s.cancel_pending

\* schedule appends a frame that is not ready yet.
LEMMA ScheduleIs ==
    ASSUME NEW s \in SchedulerType, s.running, ReadyOnce(s), NEW fr, NEW f \in Frames,
           fr[f].at = "suspended", f \notin Range(s.ready)
    PROVE  Scheduled(s, schedule(s, fr, f), f)
<1> DEFINE n == schedule(s, fr, f)
           e == Append(s.ready, f)
<1>1. n = [s EXCEPT !.ready = Append(s.ready, f)] BY Zenon DEF schedule
<1>2. s.ready \in Seq(Frames) BY SchedulerTyped, Zenon
<1>3. /\ e \in Seq(Frames) /\ DOMAIN e = 1 .. Len(s.ready) + 1 /\ DOMAIN s.ready = 1 .. Len(s.ready)
      /\ Len(s.ready) \in Nat /\ e[Len(s.ready) + 1] = f
      /\ \A i \in 1 .. Len(s.ready) : e[i] = s.ready[i]
  BY <1>2
<1> HIDE DEF e
<1>4. /\ n \in SchedulerType /\ n.ready = e /\ n.roots = s.roots /\ n.running = s.running
      /\ n.failed = s.failed /\ n.cancel_pending = s.cancel_pending
  <2>1. n = [s EXCEPT !.ready = e] BY <1>1, Zenon DEF e
  <2>2. e \in Seq(Frames) BY <1>3, Zenon
  <2> HIDE DEF n
  <2> QED BY <2>1, <2>2, Zenon DEF SchedulerType
<1>5. \A i \in 1 .. Len(s.ready) : s.ready[i] # f BY <1>3, Zenon DEF Range
<1>6. Range(e) = Range(s.ready) \cup {f}
  <2>1. ASSUME NEW i \in DOMAIN e PROVE e[i] \in Range(s.ready) \cup {f}
    <3>1. i \in 1 .. Len(s.ready) \/ i = Len(s.ready) + 1 BY <1>3
    <3> QED BY <1>3, <3>1, Zenon DEF Range
  <2>2. f \in Range(e)
    <3>1. Len(s.ready) + 1 \in DOMAIN e BY <1>3
    <3> QED BY <1>3, <3>1, Zenon DEF Range
  <2>3. ASSUME NEW i \in DOMAIN s.ready PROVE s.ready[i] \in Range(e)
    <3>1. i \in DOMAIN e /\ e[i] = s.ready[i] BY <1>3
    <3> QED BY <3>1, Zenon DEF Range
  <2>4. Range(e) \subseteq Range(s.ready) \cup {f} BY <2>1 DEF Range
  <2>5. Range(s.ready) \subseteq Range(e) BY <2>3 DEF Range
  <2> QED BY <2>2, <2>4, <2>5, Zenon
<1>7. ReadyOnce(n)
  <2>1. ASSUME NEW i \in DOMAIN e, NEW j \in DOMAIN e, e[i] = e[j] PROVE i = j
    <3>1. /\ i \in 1 .. Len(s.ready) \/ i = Len(s.ready) + 1
          /\ j \in 1 .. Len(s.ready) \/ j = Len(s.ready) + 1
      BY <1>3
    <3>2. CASE i \in 1 .. Len(s.ready) /\ j \in 1 .. Len(s.ready)
      BY <1>3, <2>1, <3>2, Zenon DEF ReadyOnce
    <3>3. CASE i \in 1 .. Len(s.ready) /\ j = Len(s.ready) + 1 BY <1>3, <1>5, <2>1, <3>3, Zenon
    <3>4. CASE i = Len(s.ready) + 1 /\ j \in 1 .. Len(s.ready) BY <1>3, <1>5, <2>1, <3>4, Zenon
    <3> QED BY <3>1, <3>2, <3>3, <3>4, Zenon
  <2> HIDE DEF n
  <2> QED BY <1>4, <2>1, Zenon DEF ReadyOnce
<1> HIDE DEF n
<1>8. Scheduled(s, n, f) BY <1>4, <1>6, <1>7, Zenon DEF Scheduled
<1> QED BY <1>8, Zenon DEF n

\* The head of the ready list leaves it.
LEMMA TailIs ==
    ASSUME NEW s \in SchedulerType, ReadyOnce(s), s.ready # << >>
    PROVE  LET n == [s EXCEPT !.ready = Tail(s.ready)]
               f == Head(s.ready)
           IN  /\ n \in SchedulerType /\ ReadyOnce(n) /\ f \in Frames /\ f \in Range(s.ready)
               /\ Range(n.ready) = Range(s.ready) \ {f}
               /\ n.roots = s.roots /\ n.running = s.running /\ n.failed = s.failed
<1> DEFINE e == Tail(s.ready)
           n == [s EXCEPT !.ready = e]
           f == Head(s.ready)
<1>1. s.ready \in Seq(Frames) BY SchedulerTyped, Zenon
<1>2. /\ e \in Seq(Frames) /\ f \in Frames /\ Len(s.ready) \in Nat /\ Len(s.ready) > 0
      /\ DOMAIN s.ready = 1 .. Len(s.ready) /\ DOMAIN e = 1 .. Len(s.ready) - 1
      /\ f = s.ready[1] /\ \A i \in 1 .. Len(s.ready) - 1 : e[i] = s.ready[i + 1]
  BY <1>1
<1> HIDE DEF e, f
<1>3. /\ n \in SchedulerType /\ n.ready = e
      /\ n.roots = s.roots /\ n.running = s.running /\ n.failed = s.failed
  <2>1. e \in Seq(Frames) BY <1>2, Zenon
  <2> QED BY <2>1, Zenon DEF SchedulerType
<1>4. 1 \in DOMAIN s.ready BY <1>2
<1>5. f \in Range(s.ready) BY <1>2, <1>4, Zenon DEF Range
<1>6. ASSUME NEW i \in DOMAIN e PROVE i + 1 \in DOMAIN s.ready /\ e[i] = s.ready[i + 1] /\ i + 1 # 1
  BY <1>2
<1>7. ASSUME NEW i \in DOMAIN s.ready, i # 1 PROVE \E j \in DOMAIN e : s.ready[i] = e[j]
  <2>1. i - 1 \in DOMAIN e /\ s.ready[i] = e[i - 1] BY <1>2, <1>7
  <2> QED BY <2>1, Zenon
<1>8. Range(e) = Range(s.ready) \ {f}
  <2>1. ASSUME NEW i \in DOMAIN e PROVE e[i] \in Range(s.ready) /\ e[i] # f
    <3>1. i + 1 \in DOMAIN s.ready /\ e[i] = s.ready[i + 1] /\ i + 1 # 1 BY <1>6, Zenon
    <3>2. s.ready[i + 1] # s.ready[1] BY <1>4, <3>1, Zenon DEF ReadyOnce
    <3> QED BY <1>2, <3>1, <3>2, Zenon DEF Range
  <2>2. ASSUME NEW i \in DOMAIN s.ready, s.ready[i] # f PROVE s.ready[i] \in Range(e)
    <3>1. i # 1 BY <1>2, <2>2, Zenon
    <3>2. PICK j \in DOMAIN e : s.ready[i] = e[j] BY <1>7, <3>1, Zenon
    <3> QED BY <3>2, Zenon DEF Range
  <2>3. \A x \in Range(e) : x \in Range(s.ready) /\ x # f BY <2>1, Zenon DEF Range
  <2>4. \A x \in Range(s.ready) : x # f => x \in Range(e)
    <3> SUFFICES ASSUME NEW x \in Range(s.ready), x # f PROVE x \in Range(e)
      OBVIOUS
    <3>1. PICK i \in DOMAIN s.ready : x = s.ready[i] BY Zenon DEF Range
    <3> QED BY <2>2, <3>1, Zenon
  <2> QED BY <2>3, <2>4, Zenon
<1>9. ReadyOnce(n)
  <2>1. ASSUME NEW i \in DOMAIN e, NEW j \in DOMAIN e, e[i] = e[j] PROVE i = j
    <3>1. i + 1 \in DOMAIN s.ready /\ j + 1 \in DOMAIN s.ready /\ s.ready[i + 1] = s.ready[j + 1]
      BY <1>6, <2>1, Zenon
    <3>2. i + 1 = j + 1 BY <3>1, Zenon DEF ReadyOnce
    <3>3. i \in Int /\ j \in Int BY <1>2
    <3> QED BY <3>2, <3>3
  <2> HIDE DEF n
  <2> QED BY <1>3, <2>1, Zenon DEF ReadyOnce
<1> QED BY <1>2, <1>3, <1>5, <1>8, <1>9, Zenon DEF e, f

\* When a step leaves a frame that has become ready, schedule makes Core complete.
LEMMA CoreScheduled ==
    ASSUME NEW fr, NEW s \in SchedulerType, NEW q, ReadyOnce(s), ~s.failed, s.running,
           Sound(q), ~q.failed, NEW f \in Frames, f \notin Range(s.ready),
           Forest(fr, s.roots, Range(s.ready) \cup {f}, Armed(q))
    PROVE  /\ Core(fr, schedule(s, fr, f), q) /\ schedule(s, fr, f).running
           /\ schedule(s, fr, f).cancel_pending = s.cancel_pending
<1> DEFINE n == schedule(s, fr, f)
           R == Range(s.ready) \cup {f}
<1>1. fr[f].at = "suspended"
  <2>1. f \in R OBVIOUS
  <2> HIDE DEF R
  <2>2. OneWaker(fr, R, Armed(q), f) BY Zenon DEF Forest, R
  <2> QED BY <2>1, <2>2, Zenon DEF OneWaker
<1>2. /\ n \in SchedulerType /\ ReadyOnce(n) /\ Range(n.ready) = R
      /\ n.roots = s.roots /\ n.running = s.running /\ n.failed = s.failed
      /\ n.cancel_pending = s.cancel_pending
  <2>1. Scheduled(s, n, f) BY <1>1, ScheduleIs
  <2> HIDE DEF n
  <2> QED BY <2>1, Zenon DEF Scheduled
<1> HIDE DEF n
<1>3. Core(fr, n, q) BY <1>2, Zenon DEF Core
<1> QED BY <1>2, <1>3, Zenon DEF n

-----------------------------------------------------------------------------
(* What destroys frames keeps Core *)

\* All the frames there are hang on the roots.
LEMMA SubtreeOfRoots ==
    ASSUME NEW fr, NEW roots, NEW R, NEW A, Forest(fr, roots, R, A)
    PROVE  \A f \in Frames : f \in Subtree(fr, roots) <=> fr[f].at # "absent"
<1> DEFINE P == {f \in Frames : fr[f].at # "absent"}
<1>1. /\ roots \in SUBSET Frames /\ Rooted(fr, roots) /\ None \notin Frames
      /\ \A g \in Frames : fr[g].child # None => fr[g].child \in Frames
  BY ForestIs, Zenon
<1>2. P \in SUBSET Frames /\ roots \subseteq P \cup {None}
  <2>1. \A g \in roots : g \in Frames /\ fr[g].at # "absent"
    <3> SUFFICES ASSUME NEW g \in roots PROVE g \in Frames /\ fr[g].at # "absent"
      OBVIOUS
    <3>1. g \in Frames BY <1>1, Zenon
    <3>2. OwnedOnce(fr, roots, g) BY <3>1, Zenon DEF Forest
    <3> QED BY <3>1, <3>2, Zenon DEF OwnedOnce
  <2> QED BY <2>1
<1>3. ASSUME NEW g \in P PROVE fr[g].child \in P \cup {None}
  <2>1. CASE fr[g].child = None BY <2>1, Zenon
  <2>2. CASE fr[g].child # None
    <3>1. fr[g].child \in Frames BY <1>1, <2>2, Zenon
    <3>2. OwnedOnce(fr, roots, fr[g].child) BY <3>1, Zenon DEF Forest
    <3>3. fr[fr[g].child].at # "absent" BY <3>2, Zenon DEF OwnedOnce
    <3> QED BY <3>1, <3>3, Zenon
  <2> QED BY <2>1, <2>2, Zenon
<1>4. ASSUME NEW f \in Frames, f \in Subtree(fr, roots) PROVE fr[f].at # "absent"
  <2>1. f \in P
    <3> HIDE DEF P
    <3> QED BY <1>2, <1>3, <1>4, Zenon DEF Subtree
  <2> QED BY <2>1, Zenon
<1>5. ASSUME NEW f \in Frames, fr[f].at # "absent" PROVE f \in Subtree(fr, roots)
  <2>1. ASSUME NEW S \in SUBSET Frames, roots \subseteq S \cup {None},
               \A g \in S : fr[g].child \in S \cup {None}
        PROVE  f \in S
    <3>1. roots \subseteq S BY <1>1, <2>1, Zenon
    <3> QED BY <1>1, <1>5, <2>1, <3>1, Zenon DEF Rooted
  <2> QED BY <2>1, Zenon DEF Subtree
<1> QED BY <1>4, <1>5, Zenon

\* The awaiter of a frame that may be resumed has at most one frame below it.
LEMMA SubtreeOfChild ==
    ASSUME NEW fr, NEW c, c \in Frames => fr[c].child = None, c \in Frames \cup {None}
    PROVE  Subtree(fr, {c}) = {c} \cap Frames
<1> DEFINE P == {c} \cap Frames
<1>1. None \notin Frames BY BudgetsAssumption, Zenon
<1>2. P \in SUBSET Frames /\ {c} \subseteq P \cup {None} OBVIOUS
<1>3. \A g \in P : fr[g].child \in P \cup {None} BY Zenon
<1>4. ASSUME NEW f \in Subtree(fr, {c}) PROVE f \in P
  <2> HIDE DEF P
  <2> QED BY <1>2, <1>3, Zenon DEF Subtree
<1>5. ASSUME NEW f \in P PROVE f \in Subtree(fr, {c})
  <2>1. f \in Frames /\ f = c /\ f # None BY <1>1, Zenon
  <2>2. \A S \in SUBSET Frames : {c} \subseteq S \cup {None} => f \in S BY <2>1, Zenon
  <2> QED BY <2>1, <2>2, Zenon DEF Subtree
<1> QED BY <1>4, <1>5, Zenon

\* The members of a State.
LEMMA StateIs ==
    ASSUME NEW fr, NEW s, NEW q
    PROVE  /\ State(fr, s, q).frame = fr /\ State(fr, s, q).sched = s
           /\ State(fr, s, q).timers = q
           /\ \A t : [State(fr, s, q) EXCEPT !.sched = t] = State(fr, t, q)
           /\ \A p : [State(fr, s, q) EXCEPT !.timers = p] = State(fr, s, p)
BY DEF State

Empty(fr, s, q) ==
    /\ \A f \in Frames : fr[f] = Absent
    /\ s.ready = << >> /\ s.roots = {} /\ q.heap = << >>

\* Core of a state in which nothing is left.
LEMMA CoreEmpty ==
    ASSUME NEW fr \in [Frames -> FrameType], NEW s \in SchedulerType, NEW q, Sound(q),
           Empty(fr, s, q), ~s.failed, ~q.failed
    PROVE  Core(fr, s, q)
<1>1. Forest(fr, {}, {}, {}) BY ForestEmpty, Zenon DEF Empty
<1>2. Range(s.ready) = {} /\ ReadyOnce(s)
  <2>1. s.ready = << >> BY Zenon DEF Empty
  <2>2. DOMAIN s.ready = {} BY <2>1
  <2> QED BY <2>2 DEF Range, ReadyOnce
<1>3. Armed(q) = {}
  <2>1. q \in TQ!Queue BY SoundIs, Zenon
  <2> QED BY <2>1, EmptyIs, Zenon DEF Empty
<1>4. \A f \in Frames : fr[f].at = "absent" BY AbsentIs, Zenon DEF Empty
<1> QED BY <1>1, <1>2, <1>3, <1>4, Zenon DEF Core, Empty

\* A Core without frames is empty.
LEMMA CoreWithoutFrames ==
    ASSUME NEW fr, NEW s, NEW q, Core(fr, s, q), \A f \in Frames : fr[f].at = "absent"
    PROVE  Empty(fr, s, q)
<1> DEFINE R == Range(s.ready)
           A == Armed(q)
<1>1. Forest(fr, s.roots, R, A) /\ s \in SchedulerType /\ Sound(q) BY Zenon DEF Core
<1> HIDE DEF R, A
<1>2. \A f \in Frames : fr[f] = Absent /\ f \notin s.roots /\ f \notin R /\ f \notin A
  <2> SUFFICES ASSUME NEW f \in Frames
               PROVE  fr[f] = Absent /\ f \notin s.roots /\ f \notin R /\ f \notin A
    OBVIOUS
  <2>1. fr[f].at = "absent" OBVIOUS
  <2>2. fr[f].at = "absent" => fr[f] = Absent /\ f \notin s.roots /\ f \notin R /\ f \notin A
    BY <1>1, ForestTyped
  <2> QED BY <2>1, <2>2, Zenon
<1>3. s.ready \in Seq(Frames) /\ s.roots \in SUBSET Frames BY <1>1, SchedulerTyped, Zenon
<1>4. s.ready = << >>
  <2>1. \A i \in DOMAIN s.ready : s.ready[i] \in Frames /\ s.ready[i] \in R
    <3>1. \A i \in DOMAIN s.ready : s.ready[i] \in Frames BY <1>3
    <3> QED BY <3>1, Zenon DEF Range, R
  <2>2. DOMAIN s.ready = {} BY <1>2, <2>1, Zenon
  <2>3. 1 \notin DOMAIN s.ready BY <2>2, Zenon
  <2> QED BY <1>3, <2>3
<1>5. s.roots = {} BY <1>2, <1>3, Zenon
<1>6. q.heap = << >>
  <2>1. q \in TQ!Queue BY <1>1, SoundIs, Zenon
  <2>2. A \subseteq Frames BY <1>1, ArmedIs, Zenon DEF Sound, A
  <2>3. Armed(q) = {} BY <1>2, <2>2, Zenon DEF A
  <2> QED BY <2>1, <2>3, EmptyIs, Zenon
<1> QED BY <1>2, <1>4, <1>5, <1>6, Zenon DEF Empty

\* S is a state the runtime may be in, and one without anything in it
Proper(S) == \E fs, ss, qs : S = State(fs, ss, qs) /\ Core(fs, ss, qs)

Emptied(S) == \E fs, ss, qs : S = State(fs, ss, qs) /\ Core(fs, ss, qs) /\ Empty(fs, ss, qs)

\* cancel_all_now destroys every frame and every timer in them.
LEMMA CancelIs ==
    ASSUME Induction, NEW fr, NEW s, NEW q, Core(fr, s, q)
    PROVE  Emptied(cancel_all_now(State(fr, s, q)))
<1> DEFINE gone == Subtree(fr, s.roots)
           fs == Destroy(fr, gone)
           ss == [s EXCEPT !.ready = << >>, !.roots = {}]
           qs == AbandonAll(q, gone)
           R == Range(s.ready)
           A == Armed(q)
<1>1. cancel_all_now(State(fr, s, q)) = State(fs, ss, qs)
  <2> DEFINE S == State(fr, s, q)
  <2>1. S.frame = fr /\ S.sched = s /\ S.timers = q BY StateIs
  <2> HIDE DEF S
  <2>2. cancel_all_now(S) = State(fs, ss, qs) BY <2>1, Zenon DEF cancel_all_now
  <2> QED BY <2>2, Zenon DEF S
<1>2. /\ Forest(fr, s.roots, R, A) /\ s \in SchedulerType /\ ~s.failed
      /\ Sound(q) /\ ~q.failed
  BY Zenon DEF Core
<1> HIDE DEF R, A
<1>3. \A f \in Frames : f \in gone <=> fr[f].at # "absent" BY <1>2, SubtreeOfRoots
<1>4. gone \in SUBSET Frames BY Zenon DEF Subtree
<1> HIDE DEF gone
<1>5. fr \in [Frames -> FrameType] BY <1>2, ForestIs, Zenon
<1>6. \A f \in Frames : fr[f].at = "absent" => fr[f] = Absent /\ f \notin A
  BY <1>2, ForestTyped
<1>7. fs \in [Frames -> FrameType] /\ \A f \in Frames : fs[f] = Absent
  <2>1. /\ fs \in [Frames -> FrameType]
        /\ \A f \in Frames : f \in gone => fs[f] = Absent
        /\ \A f \in Frames : f \notin gone => fs[f] = fr[f]
    BY <1>5, DestroyIs
  <2> HIDE DEF fs
  <2> QED BY <1>3, <1>6, <2>1, Zenon
<1>8. ss \in SchedulerType /\ ss.ready = << >> /\ ss.roots = {} /\ ss.failed = s.failed
  <2>1. << >> \in Seq(Frames) /\ {} \in SUBSET Frames OBVIOUS
  <2>2. s \in SchedulerType BY <1>2, Zenon
  <2> QED BY <2>1, <2>2, Zenon DEF SchedulerType
<1>9. Sound(qs) /\ Armed(qs) = Armed(q) \ gone /\ SameFlags(q, qs)
  <2>1. Kept(q, AbandonAll(q, gone), Armed(q) \ gone) BY <1>2, <1>4, HeapIsKept, Zenon
  <2> QED BY <2>1, Zenon DEF Kept
<1> HIDE DEF fs, ss, qs
<1>10. qs.heap = << >>
  <2>1. Armed(q) \subseteq Frames BY <1>2, ArmedIs, Zenon DEF Sound
  <2>2. Armed(qs) = {} BY <1>3, <1>6, <1>9, <2>1, Zenon DEF A
  <2>3. qs \in TQ!Queue BY <1>9, SoundIs, Zenon
  <2> QED BY <2>2, <2>3, EmptyIs, Zenon
<1>11. Empty(fs, ss, qs) BY <1>7, <1>8, <1>10, Zenon DEF Empty
<1>12. ~ss.failed /\ ~qs.failed BY <1>2, <1>8, <1>9, Zenon DEF SameFlags
<1>13. Core(fs, ss, qs)
  <2>1. /\ fs \in [Frames -> FrameType] /\ ss \in SchedulerType /\ Sound(qs)
    BY <1>7, <1>8, <1>9, Zenon
  <2> QED BY <2>1, <1>11, <1>12, CoreEmpty, Zenon
<1> QED BY <1>1, <1>11, <1>13, Zenon DEF Emptied

\* deactivate stops a scheduler that has nothing left.
LEMMA DeactivateIs ==
    ASSUME NEW fr, NEW s, NEW q, Core(fr, s, q), Empty(fr, s, q)
    PROVE  \E ss : /\ deactivate(State(fr, s, q)) = State(fr, ss, q)
                   /\ Core(fr, ss, q) /\ Empty(fr, ss, q) /\ ~ss.running
<1> DEFINE ss == [s EXCEPT !.running = FALSE, !.accepting = FALSE,
                           !.cancel_pending = FALSE, !.shutdown_pending = FALSE,
                           !.external_stop_pending = FALSE]
<1>1. deactivate(State(fr, s, q)) = State(fr, ss, q) BY DEF deactivate, State
<1>2. s \in SchedulerType /\ ~s.failed /\ Sound(q) /\ ~q.failed /\ fr \in [Frames -> FrameType]
  BY Zenon DEF Core, Forest
<1>3. /\ ss \in SchedulerType /\ ss.ready = s.ready /\ ss.roots = s.roots /\ ss.failed = s.failed
      /\ ss.running = FALSE
  <2>1. s \in SchedulerType BY <1>2, Zenon
  <2> QED BY <2>1, Zenon DEF SchedulerType
<1> HIDE DEF ss
<1>4. Empty(fr, ss, q) BY <1>3, Zenon DEF Empty
<1>5. Core(fr, ss, q)
  <2>1. ~ss.failed BY <1>2, <1>3, Zenon
  <2> QED BY <1>2, <1>3, <1>4, <2>1, CoreEmpty, Zenon
<1> QED BY <1>1, <1>3, <1>4, <1>5, Zenon

\* finish_root destroys a root that is done.
LEMMA FinishRootIs ==
    ASSUME NEW fr, NEW s, NEW q, Core(fr, s, q), NEW f \in s.roots, fr[f].at = "done"
    PROVE  LET fs == Destroy(fr, {f})
               ss == [s EXCEPT !.roots = s.roots \ {f}]
           IN  finish_root(State(fr, s, q), f) = State(fs, ss, q) /\ Core(fs, ss, q)
<1> DEFINE fs == Destroy(fr, {f})
           roots == s.roots \ {f}
           ss == [s EXCEPT !.roots = roots]
<1>1. finish_root(State(fr, s, q), f) = State(fs, ss, q)
  <2> DEFINE S == State(fr, s, q)
  <2>1. S.frame = fr /\ S.sched = s /\ S.timers = q BY StateIs
  <2> HIDE DEF S
  <2>2. finish_root(S, f) = State(fs, ss, q) BY <2>1, Zenon DEF finish_root
  <2> QED BY <2>2, Zenon DEF S
<1>2. /\ Forest(fr, s.roots, Range(s.ready), Armed(q)) /\ s \in SchedulerType /\ ReadyOnce(s)
      /\ ~s.failed /\ Sound(q) /\ ~q.failed
  BY Zenon DEF Core
<1>3. s.roots \in SUBSET Frames BY <1>2, SchedulerTyped, Zenon
<1>4. f \in Frames /\ roots \in SUBSET Frames BY <1>3, Zenon
<1>5. s.running BY <1>4, Zenon DEF Core
<1>6. Forest(fs, roots, Range(s.ready), Armed(q)) BY <1>2, ForestEndRoot
<1> HIDE DEF fs, roots
<1>7. /\ ss \in SchedulerType /\ ss.ready = s.ready /\ ss.roots = roots /\ ss.failed = s.failed
      /\ ss.running = s.running
  <2>1. s \in SchedulerType BY <1>2, Zenon
  <2> QED BY <1>4, <2>1, Zenon DEF SchedulerType
<1> HIDE DEF ss
<1>8. Core(fs, ss, q) BY <1>2, <1>5, <1>6, <1>7, Zenon DEF Core, ReadyOnce
<1> QED BY <1>1, <1>8, Zenon DEF fs, roots, ss

\* the flags that cancel_all and shutdown left for the end of the dispatch are cleared
Cleared(S) ==
    [S EXCEPT !.sched = [@ EXCEPT !.cancel_pending = FALSE, !.shutdown_pending = FALSE]]

\* Clearing them changes nothing else.
LEMMA ClearedIs ==
    ASSUME NEW fr, NEW s \in SchedulerType, NEW q
    PROVE  \E t : Cleared(State(fr, s, q)) = State(fr, t, q) /\ SameWork(s, t)
<1> DEFINE t == [s EXCEPT !.cancel_pending = FALSE, !.shutdown_pending = FALSE]
<1>1. Cleared(State(fr, s, q)) = State(fr, t, q) BY DEF State, Cleared
<1>2. SameWork(s, t) BY Zenon DEF SameWork, SchedulerType
<1> QED BY <1>1, <1>2, Zenon

\* The end of a dispatch keeps Core, whatever was asked for meanwhile.
LEMMA AfterResumeIs ==
    ASSUME Induction, NEW fr, NEW s, NEW q, Core(fr, s, q), NEW f \in Frames
    PROVE  Proper(AfterResume(State(fr, s, q), f))
<1> DEFINE S == State(fr, s, q)
           finished == IF f \in S.sched.roots /\ S.frame[f].at = "done"
                       THEN finish_root(S, f) ELSE S
           cleared == Cleared(finished)
<1>1. /\ ~finished.sched.cancel_pending => AfterResume(S, f) = finished
      /\ finished.sched.cancel_pending /\ finished.sched.shutdown_pending =>
             AfterResume(S, f) = deactivate(cancel_all_now(cleared))
      /\ finished.sched.cancel_pending /\ ~finished.sched.shutdown_pending =>
             AfterResume(S, f) = cancel_all_now(cleared)
  BY Zenon DEF AfterResume, Cleared
<1>2. S.sched = s /\ S.frame = fr BY StateIs
<1>3. PICK fs, ss : finished = State(fs, ss, q) /\ Core(fs, ss, q)
  <2>1. CASE f \in s.roots /\ fr[f].at = "done"
    <3>1. finished = finish_root(S, f)
      <4> HIDE DEF S
      <4> QED BY <1>2, <2>1, Zenon
    <3> HIDE DEF finished
    <3> DEFINE fs == Destroy(fr, {f})
               ss == [s EXCEPT !.roots = s.roots \ {f}]
    <3>2. finish_root(S, f) = State(fs, ss, q) /\ Core(fs, ss, q) BY <2>1, FinishRootIs, Zenon
    <3> HIDE DEF fs, ss
    <3> QED BY <3>1, <3>2, Zenon
  <2>2. CASE ~(f \in s.roots /\ fr[f].at = "done")
    <3>1. finished = S
      <4> HIDE DEF S
      <4> QED BY <1>2, <2>2, Zenon
    <3> HIDE DEF finished
    <3> QED BY <3>1, Zenon
  <2> QED BY <2>1, <2>2, Zenon
<1> HIDE DEF finished
<1>4. ss \in SchedulerType BY <1>3, Zenon DEF Core
<1>5. PICK ts : cleared = State(fs, ts, q) /\ SameWork(ss, ts) BY <1>3, <1>4, ClearedIs, Zenon
<1> HIDE DEF cleared, S
<1>6. PICK fc, sc, qc : /\ cancel_all_now(cleared) = State(fc, sc, qc)
                        /\ Core(fc, sc, qc) /\ Empty(fc, sc, qc)
  <2>1. Core(fs, ts, q) BY <1>3, <1>5, CoreFlags, Zenon
  <2>2. Emptied(cancel_all_now(State(fs, ts, q))) BY <2>1, CancelIs, Zenon
  <2> QED BY <1>5, <2>2, Zenon DEF Emptied
<1>7. PICK sd : deactivate(cancel_all_now(cleared)) = State(fc, sd, qc) /\ Core(fc, sd, qc)
  BY <1>6, DeactivateIs, Zenon
<1>8. CASE ~finished.sched.cancel_pending BY <1>1, <1>3, <1>8, Zenon DEF S, Proper
<1>9. CASE finished.sched.cancel_pending /\ finished.sched.shutdown_pending
  BY <1>1, <1>7, <1>9, Zenon DEF S, Proper
<1>10. CASE finished.sched.cancel_pending /\ ~finished.sched.shutdown_pending
  BY <1>1, <1>6, <1>10, Zenon DEF S, Proper
<1> QED BY <1>8, <1>9, <1>10, Zenon

\* An operation has completed: its timer is removed and its frame is scheduled.
LEMMA CoreCompleted ==
    ASSUME NEW fr, NEW s, NEW q, Core(fr, s, q), NEW f \in Armed(q), NEW n, Sound(n),
           Armed(n) = Armed(q) \ {f}, SameFlags(q, n),
           NEW fs, fs = [fr EXCEPT ![f].op = "Completed"]
    PROVE  Core(fs, schedule(s, fs, f), n)
<1> DEFINE R == Range(s.ready)
           A == Armed(q)
<1>1. /\ Forest(fr, s.roots, R, A) /\ s \in SchedulerType /\ ReadyOnce(s) /\ ~s.failed
      /\ Sound(q) /\ ~q.failed
  BY Zenon DEF Core
<1>2. f \in Frames
  <2>1. A \subseteq Frames BY <1>1, ArmedIs, Zenon DEF Sound
  <2> QED BY <2>1, Zenon
<1> HIDE DEF R, A
<1>3. Forest(fs, s.roots, R \cup {f}, A \ {f}) /\ fr[f].at = "suspended" /\ f \notin R
  <2>1. Forest(fr, s.roots, R, A) /\ f \in Frames /\ f \in A BY <1>1, <1>2, Zenon DEF A
  <2>2. /\ Forest([fr EXCEPT ![f].op = "Completed"], s.roots, R \cup {f}, A \ {f})
        /\ fr[f].at = "suspended" /\ f \notin R
    BY <2>1, ForestComplete, Zenon
  <2> QED BY <2>2, Zenon
<1>4. s.running BY <1>2, <1>3, Zenon DEF Core
<1>5. Forest(fs, s.roots, Range(s.ready) \cup {f}, Armed(n)) BY <1>3, Zenon DEF R, A
<1>6. ~n.failed BY <1>1, Zenon DEF SameFlags
<1>7. f \notin Range(s.ready) BY <1>3, Zenon DEF R
<1> QED BY <1>1, <1>2, <1>4, <1>5, <1>6, <1>7, CoreScheduled, Zenon

\* The oldest ready frame is resumed.
LEMMA CoreResumed ==
    ASSUME Induction, NEW fr, NEW s, NEW q, Core(fr, s, q), s.running, s.ready # << >>,
           NEW f, f = Head(s.ready), NEW gone, gone = Subtree(fr, {fr[f].child})
    PROVE  Core(Resumed(fr, f, gone), [s EXCEPT !.ready = Tail(@)], AbandonAll(q, gone \cup {f}))
<1> DEFINE R == Range(s.ready)
           A == Armed(q)
           c == fr[f].child
           t == [s EXCEPT !.ready = Tail(s.ready)]
           n == AbandonAll(q, gone \cup {f})
           fs == Resumed(fr, f, gone)
<1>1. /\ Forest(fr, s.roots, R, A) /\ s \in SchedulerType /\ ReadyOnce(s) /\ ~s.failed
      /\ Sound(q) /\ ~q.failed
  BY Zenon DEF Core
<1>2. /\ t \in SchedulerType /\ ReadyOnce(t) /\ f \in Frames /\ f \in R
      /\ Range(t.ready) = R \ {f}
      /\ t.roots = s.roots /\ t.running = s.running /\ t.failed = s.failed
  BY <1>1, TailIs, Zenon
<1> HIDE DEF R, A, t
<1>3. c \in Frames \cup {None}
  <2>1. Forest(fr, s.roots, R, A) /\ f \in Frames BY <1>1, <1>2, Zenon
  <2>2. fr[f] \in FrameType BY <2>1, Zenon DEF Forest
  <2> QED BY <2>2, Zenon DEF FrameType
<1>4. Forest(Resumed(fr, f, Below(fr, f)), s.roots, R \ {f}, A) /\ Settled(fr, A, f)
  <2>1. Forest(fr, s.roots, R, A) /\ f \in Frames /\ f \in R BY <1>1, <1>2, Zenon
  <2> QED BY ONLY <2>1, ForestResume, Zenon
<1>5. gone = Below(fr, f)
  <2>1. c \in Frames => fr[c].child = None BY <1>4, Zenon DEF Settled, Below
  <2> HIDE DEF c
  <2>2. Subtree(fr, {c}) = {c} \cap Frames BY <1>3, <2>1, SubtreeOfChild, Zenon
  <2> QED BY <2>2, Zenon DEF c, Below
<1>6. /\ Forest(fs, s.roots, R \ {f}, A)
      /\ \A g \in gone \cup {f} : g \notin A
  <2>1. Forest(fs, s.roots, R \ {f}, A) BY <1>4, <1>5, Zenon
  <2> QED BY <1>4, <1>5, <2>1, Zenon DEF Settled
<1> HIDE DEF fs
<1>7. gone \cup {f} \in SUBSET Frames BY <1>2, <1>5, Zenon DEF Below
<1>8. Sound(n) /\ Armed(n) = A \ (gone \cup {f}) /\ SameFlags(q, n)
  <2>1. Kept(q, AbandonAll(q, gone \cup {f}), Armed(q) \ (gone \cup {f}))
    BY <1>1, <1>7, HeapIsKept, Zenon
  <2> QED BY <2>1, Zenon DEF Kept, A
<1> HIDE DEF n
<1>9. Armed(n) = A BY <1>6, <1>8, Zenon
<1>10. ~n.failed BY <1>1, <1>8, Zenon DEF SameFlags
<1>11. Core(fs, t, n) BY <1>1, <1>2, <1>6, <1>8, <1>9, <1>10, Zenon DEF Core
<1> QED BY <1>11, Zenon DEF fs, t, n

-----------------------------------------------------------------------------
(* Every step keeps the invariant *)

\* Once the worker is in its loop, Core is all there is to keep.
LEMMA InvNext ==
    ASSUME Core(frame', sched', timers'), loop' \in LoopType, now' \in Nat, loop'.at # "off"
    PROVE  Inv'
BY Zenon DEF Inv

\* The places the worker goes to are places.
LEMMA GotoIs ==
    ASSUME NEW place \in {"loop", "expire", "ready", "cancel", "drain"}, NEW budget \in Int,
           Goto(place, budget)
    PROVE  loop' \in LoopType /\ loop'.at # "off"
<1>1. loop' = [at |-> place, budget |-> budget] BY Zenon DEF Goto
<1>2. place # "off" /\ place \in {"off", "loop", "expire", "ready", "cancel", "drain"} OBVIOUS
<1> QED BY <1>1, <1>2, Zenon DEF LoopType

\* A coroutine that has suspended or returned leaves the invariant.
LEMMA InvSuspend ==
    ASSUME Induction, Inv, loop.at # "off", NEW fr, NEW s, NEW q, Core(fr, s, q), NEW f \in Frames,
           Suspend(f, fr, s, q)
    PROVE  Inv'
<1> DEFINE S == AfterResume(State(fr, s, q), f)
<1>1. PICK fs, ss, qs : S = State(fs, ss, qs) /\ Core(fs, ss, qs)
  <2>1. Proper(S) BY AfterResumeIs, Zenon
  <2> HIDE DEF S
  <2> QED BY <2>1, Zenon DEF Proper
<1>2. frame' = S.frame /\ sched' = S.sched /\ timers' = S.timers BY Zenon DEF Suspend, Set
<1>3. /\ loop' = IF s.cancel_pending THEN [loop EXCEPT !.budget = 0] ELSE loop
      /\ now' = now
  BY Zenon DEF Suspend
<1> HIDE DEF S
<1>4. frame' = fs /\ sched' = ss /\ timers' = qs
  <2>1. /\ State(fs, ss, qs).frame = fs /\ State(fs, ss, qs).sched = ss
        /\ State(fs, ss, qs).timers = qs
    BY StateIs
  <2> QED BY <1>1, <1>2, <2>1, Zenon
<1>5. Core(frame', sched', timers') BY <1>1, <1>4, Zenon
<1>6. loop' \in LoopType /\ loop'.at # "off"
  <2>1. loop \in LoopType BY Zenon DEF Inv
  <2>2. [loop EXCEPT !.budget = 0] \in LoopType /\ [loop EXCEPT !.budget = 0].at = loop.at
    <3>1. 0 \in Int OBVIOUS
    <3> QED BY <2>1, <3>1, Zenon DEF LoopType
  <2> QED BY <1>3, <2>1, <2>2, Zenon
<1>7. now' \in Nat BY <1>3, Zenon DEF Inv
<1> QED BY <1>5, <1>6, <1>7, InvNext, Zenon

\* A coroutine that runs, runs in the worker's loop.
LEMMA RunningIs ==
    ASSUME Inv, NEW f \in Frames, frame[f].at = "running"
    PROVE  /\ sched.running /\ loop.at # "off" /\ sched \in SchedulerType /\ ReadyOnce(sched)
           /\ ~sched.failed /\ Sound(timers) /\ ~timers.failed
           /\ Forest(frame, sched.roots, Range(sched.ready), Armed(timers))
           /\ f \notin Range(sched.ready) /\ f \notin Armed(timers)
<1>1. /\ Forest(frame, sched.roots, Range(sched.ready), Armed(timers))
      /\ sched \in SchedulerType /\ ReadyOnce(sched) /\ ~sched.failed
      /\ Sound(timers) /\ ~timers.failed
      /\ sched.running \/ \A g \in Frames : frame[g].at = "absent"
  BY Zenon DEF Inv, Core
<1>2. OneWaker(frame, Range(sched.ready), Armed(timers), f) BY <1>1, Zenon DEF Forest
<1>3. f \notin Range(sched.ready) /\ f \notin Armed(timers) BY <1>2, Zenon DEF OneWaker
<1>4. sched.running BY <1>1, Zenon
<1>5. loop.at # "off" BY <1>4, Zenon DEF Inv
<1> QED BY <1>1, <1>3, <1>4, <1>5, Zenon

\* Yield
LEMMA InvYield ==
    ASSUME Induction, Inv, NEW f \in Frames, frame[f].at = "running", Yield(f)
    PROVE  Inv'
<1> DEFINE fr == [frame EXCEPT ![f].at = "suspended"]
           s == schedule(sched, fr, f)
           R == Range(sched.ready)
           A == Armed(timers)
<1>1. /\ sched.running /\ loop.at # "off" /\ sched \in SchedulerType /\ ReadyOnce(sched)
      /\ ~sched.failed /\ Sound(timers) /\ ~timers.failed
      /\ Forest(frame, sched.roots, R, A) /\ f \notin R
  BY RunningIs, Zenon
<1>2. Suspend(f, fr, s, timers) BY Zenon DEF Yield
<1>3. Forest(fr, sched.roots, R \cup {f}, A)
  <2> HIDE DEF R, A
  <2> QED BY <1>1, ForestSuspend, Zenon
<1> HIDE DEF fr
<1>4. Core(fr, s, timers) BY <1>1, <1>3, CoreScheduled, Zenon
<1> HIDE DEF s
<1> QED BY <1>1, <1>2, <1>4, InvSuspend, Zenon

\* AwaitChild
LEMMA InvAwaitChild ==
    ASSUME Induction, Inv, NEW f \in Frames, frame[f].at = "running",
           NEW c \in Frames, AwaitChild(f, c)
    PROVE  Inv'
<1> DEFINE fr == [frame EXCEPT ![c] = Created(f),
                               ![f] = [@ EXCEPT !.at = "suspended", !.child = c]]
           t == observe_external_stop(sched)
           s == schedule(t, fr, c)
           R == Range(sched.ready)
           A == Armed(timers)
<1>1. /\ sched.running /\ loop.at # "off" /\ sched \in SchedulerType /\ ReadyOnce(sched)
      /\ ~sched.failed /\ Sound(timers) /\ ~timers.failed
      /\ Forest(frame, sched.roots, R, A)
  BY RunningIs, Zenon
<1>2. Suspend(f, fr, s, timers) /\ frame[c].at = "absent" BY Zenon DEF AwaitChild
<1>3. SameWork(sched, t) BY <1>1, ObservedIs, Zenon
<1>4. Forest(fr, sched.roots, R \cup {c}, A) /\ c \notin R
  <2> HIDE DEF R, A
  <2>1. Forest(fr, sched.roots, R \cup {c}, A) BY <1>1, <1>2, ForestAwait, Zenon
  <2>2. OneWaker(frame, R, A, c) BY <1>1, Zenon DEF Forest
  <2>3. c \notin R BY <1>2, <2>2, Zenon DEF OneWaker
  <2> QED BY <2>1, <2>3, Zenon
<1> HIDE DEF fr, t
<1>5. /\ t \in SchedulerType /\ ReadyOnce(t) /\ ~t.failed /\ t.running
      /\ t.roots = sched.roots /\ Range(t.ready) = R
  BY <1>1, <1>3, Zenon DEF SameWork, ReadyOnce
<1>6. Forest(fr, t.roots, Range(t.ready) \cup {c}, Armed(timers)) /\ c \notin Range(t.ready)
  <2> HIDE DEF R
  <2> QED BY <1>4, <1>5, Zenon
<1>7. Core(fr, s, timers) BY <1>1, <1>5, <1>6, CoreScheduled, Zenon
<1> HIDE DEF s
<1> QED BY <1>1, <1>2, <1>7, InvSuspend, Zenon

\* Sleep
LEMMA InvSleep ==
    ASSUME Induction, Inv, NEW f \in Frames, frame[f].at = "running",
           NEW deadline \in Int, Sleep(f, deadline)
    PROVE  Inv'
<1> DEFINE fr == [frame EXCEPT ![f] = [@ EXCEPT !.at = "suspended", !.op = "Pending"]]
           s == observe_external_stop(sched)
           q == TQ!arm(timers, f, deadline)
           R == Range(sched.ready)
           A == Armed(timers)
<1>1. /\ sched.running /\ loop.at # "off" /\ sched \in SchedulerType /\ ReadyOnce(sched)
      /\ ~sched.failed /\ Sound(timers) /\ ~timers.failed
      /\ Forest(frame, sched.roots, R, A) /\ f \notin R /\ f \notin A
  BY RunningIs, Zenon
<1>2. SameWork(sched, s) BY <1>1, ObservedIs, Zenon
<1>3. Core(frame, s, timers)
  <2>1. Core(frame, sched, timers) BY Zenon DEF Inv
  <2> HIDE DEF s
  <2> QED BY <1>2, <2>1, CoreFlags, Zenon
<1>4. CASE sched' = s /\ UNCHANGED <<frame, timers, loop, stopping, now>>
  <2> HIDE DEF s
  <2>1. Core(frame', sched', timers') BY <1>3, <1>4, Zenon
  <2>2. loop' \in LoopType /\ now' \in Nat /\ loop'.at # "off" BY <1>1, <1>4, Zenon DEF Inv
  <2> QED BY <2>1, <2>2, InvNext, Zenon
<1>5. CASE Suspend(f, fr, s, q)
  <2>1. Forest(fr, sched.roots, R, A \cup {f})
    <3> HIDE DEF R, A
    <3> QED BY <1>1, ForestSuspend, Zenon
  <2>2. Sound(q) /\ Armed(q) = A \cup {f} /\ SameFlags(timers, q)
    <3>1. Kept(timers, q, A \cup {f}) BY <1>1, HeapIsKept, Zenon
    <3> QED BY <3>1, Zenon DEF Kept
  <2> HIDE DEF fr, s, q
  <2>3. ~q.failed BY <1>1, <2>2, Zenon DEF SameFlags
  <2>4. /\ s \in SchedulerType /\ ReadyOnce(s) /\ ~s.failed /\ s.running
        /\ s.roots = sched.roots /\ Range(s.ready) = R
    BY <1>1, <1>2, Zenon DEF SameWork, ReadyOnce
  <2>5. Core(fr, s, q)
    <3> HIDE DEF R, A
    <3> QED BY <2>1, <2>2, <2>3, <2>4, Zenon DEF Core
  <2> QED BY <1>1, <1>5, <2>5, InvSuspend, Zenon
<1> QED BY <1>4, <1>5, Zenon DEF Sleep

\* Finish
LEMMA InvFinish ==
    ASSUME Induction, Inv, NEW f \in Frames, frame[f].at = "running", Finish(f)
    PROVE  Inv'
<1> DEFINE fr == [frame EXCEPT ![f].at = "done"]
           c == frame[f].continuation
           s == IF c = None THEN sched ELSE schedule(sched, fr, c)
           R == Range(sched.ready)
           A == Armed(timers)
           Rs == {g \in Frames : g \in R \/ g = c}
<1>1. /\ sched.running /\ loop.at # "off" /\ sched \in SchedulerType /\ ReadyOnce(sched)
      /\ ~sched.failed /\ Sound(timers) /\ ~timers.failed
      /\ Forest(frame, sched.roots, R, A)
  BY RunningIs, Zenon
<1>2. Suspend(f, fr, s, timers) BY Zenon DEF Finish
<1>3. /\ Forest(fr, sched.roots, Rs, A)
      /\ c # None => c \in Frames /\ c \notin R
  <2>1. \A g \in Frames : g \in Rs <=> g \in R \/ g = frame[f].continuation OBVIOUS
  <2> HIDE DEF R, A, Rs
  <2> QED BY <1>1, <2>1, ForestFinish, Zenon
<1>4. R \subseteq Frames
  <2>1. sched.ready \in Seq(Frames) BY <1>1, SchedulerTyped, Zenon
  <2> QED BY <2>1 DEF Range
<1> HIDE DEF fr, c
<1>5. Core(fr, s, timers)
  <2>1. CASE c = None
    <3>1. Rs = R BY <1>4, <2>1, BudgetsAssumption, Zenon
    <3>2. s = sched BY <2>1, Zenon
    <3> HIDE DEF Rs, s
    <3> QED BY <1>1, <1>3, <3>1, <3>2, Zenon DEF Core
  <2>2. CASE c # None
    <3>1. Rs = R \cup {c} BY <1>3, <1>4, <2>2, Zenon
    <3>2. s = schedule(sched, fr, c) BY <2>2, Zenon
    <3>3. Forest(fr, sched.roots, Range(sched.ready) \cup {c}, Armed(timers))
      <4> HIDE DEF Rs
      <4> QED BY <1>3, <3>1, Zenon
    <3>4. c \in Frames /\ c \notin Range(sched.ready) BY <1>3, <2>2, Zenon
    <3> HIDE DEF Rs, s
    <3>5. Core(fr, schedule(sched, fr, c), timers)
      BY <1>1, <3>3, <3>4, CoreScheduled, Zenon
    <3> QED BY <3>2, <3>5, Zenon
  <2> QED BY <2>1, <2>2, Zenon
<1> HIDE DEF s
<1> QED BY <1>1, <1>2, <1>5, InvSuspend, Zenon

\* CancelFromCoroutine
LEMMA InvCancelFromCoroutine ==
    ASSUME Inv, NEW f \in Frames, frame[f].at = "running", CancelFromCoroutine(f)
    PROVE  Inv'
<1>1. sched \in SchedulerType /\ loop.at # "off" BY RunningIs, Zenon
<1>2. PICK shutdown \in BOOLEAN :
          sched' = [sched EXCEPT !.stop_requested = TRUE, !.accepting = FALSE,
                                 !.cancel_pending = TRUE, !.shutdown_pending = @ \/ shutdown]
  BY Zenon DEF CancelFromCoroutine
<1>3. SameWork(sched, sched')
  <2> DEFINE p == sched.shutdown_pending \/ shutdown
  <2>1. p \in BOOLEAN OBVIOUS
  <2>2. sched' = [sched EXCEPT !.stop_requested = TRUE, !.accepting = FALSE,
                               !.cancel_pending = TRUE, !.shutdown_pending = p]
    BY <1>2, Zenon
  <2> HIDE DEF p
  <2> QED BY <1>1, <2>1, <2>2, Zenon DEF SameWork, SchedulerType
<1>4. /\ frame' = frame /\ timers' = timers /\ loop' = loop /\ now' = now
  BY Zenon DEF CancelFromCoroutine
<1>5. Core(frame, sched', timers)
  <2>1. Core(frame, sched, timers) BY Zenon DEF Inv
  <2> QED BY <1>3, <2>1, CoreFlags, Zenon
<1>6. Core(frame', sched', timers') BY <1>4, <1>5, Zenon
<1>7. loop' \in LoopType /\ now' \in Nat /\ loop'.at # "off" BY <1>1, <1>4, Zenon DEF Inv
<1> QED BY <1>6, <1>7, InvNext, Zenon

\* Spawn
LEMMA InvSpawn ==
    ASSUME Inv, NEW f \in Frames, Spawn(f)
    PROVE  Inv'
<1> DEFINE fr == [frame EXCEPT ![f] = Created(None)]
           s == observe_external_stop(sched)
           roots == s.roots \cup {f}
           t == [s EXCEPT !.roots = roots]
           R == Range(sched.ready)
           A == Armed(timers)
<1>1. /\ sched.running /\ sched \in SchedulerType /\ ReadyOnce(sched)
      /\ ~sched.failed /\ Sound(timers) /\ ~timers.failed
      /\ Forest(frame, sched.roots, R, A) /\ loop.at # "off"
      /\ frame[f].at = "absent" /\ Core(frame, sched, timers)
  BY Zenon DEF Inv, Core, Spawn
<1>2. SameWork(sched, s) BY <1>1, ObservedIs, Zenon
<1>3. /\ timers' = timers /\ loop' = loop /\ now' = now
      /\ \/ frame' = fr /\ sched' = schedule(t, fr, f)
         \/ sched' = s /\ frame' = frame
  BY Zenon DEF Spawn
<1>4. loop' \in LoopType /\ now' \in Nat /\ loop'.at # "off" BY <1>1, <1>3, Zenon DEF Inv
<1>5. Forest(fr, sched.roots \cup {f}, R \cup {f}, A) /\ f \notin R
  <2> HIDE DEF R, A
  <2>1. Forest(fr, sched.roots \cup {f}, R \cup {f}, A) BY <1>1, ForestSpawn, Zenon
  <2>2. OneWaker(frame, R, A, f) BY <1>1, Zenon DEF Forest
  <2>3. f \notin R BY <1>1, <2>2, Zenon DEF OneWaker
  <2> QED BY <2>1, <2>3, Zenon
<1> HIDE DEF fr, s
<1>6. CASE sched' = s /\ frame' = frame
  <2>1. Core(frame, s, timers) BY <1>1, <1>2, CoreFlags, Zenon
  <2>2. Core(frame', sched', timers') BY <1>3, <1>6, <2>1, Zenon
  <2> QED BY <1>4, <2>2, InvNext, Zenon
<1>7. CASE frame' = fr /\ sched' = schedule(t, fr, f)
  <2>1. s \in SchedulerType /\ s.roots = sched.roots BY <1>2, Zenon DEF SameWork
  <2>2. roots \in SUBSET Frames BY <2>1, SchedulerTyped, Zenon
  <2>3. roots = sched.roots \cup {f} BY <2>1, Zenon
  <2> HIDE DEF roots
  <2>4. /\ t \in SchedulerType /\ t.roots = roots /\ t.ready = s.ready
        /\ t.running = s.running /\ t.failed = s.failed
    BY <2>1, <2>2, Zenon DEF SchedulerType
  <2> HIDE DEF t
  <2>5. /\ ReadyOnce(t) /\ ~t.failed /\ t.running /\ Range(t.ready) = R
    <3>1. s.ready = sched.ready /\ s.running = sched.running /\ s.failed = sched.failed
      BY <1>2, Zenon DEF SameWork
    <3>2. t.ready = sched.ready BY <2>4, <3>1, Zenon
    <3>3. ~t.failed /\ t.running BY <1>1, <2>4, <3>1, Zenon
    <3>4. ReadyOnce(t) BY <1>1, <3>2, Zenon DEF ReadyOnce
    <3> QED BY <3>2, <3>3, <3>4, Zenon
  <2>6. Forest(fr, t.roots, Range(t.ready) \cup {f}, Armed(timers)) /\ f \notin Range(t.ready)
    <3> HIDE DEF R
    <3> QED BY <1>5, <2>3, <2>4, <2>5, Zenon
  <2>7. Core(fr, schedule(t, fr, f), timers)
    BY <1>1, <2>4, <2>5, <2>6, CoreScheduled, Zenon
  <2>8. Core(frame', sched', timers') BY <1>3, <1>7, <2>7, Zenon
  <2> QED BY <1>4, <2>8, InvNext, Zenon
<1> QED BY <1>3, <1>6, <1>7, Zenon

\* The timer in front completes.
LEMMA CompleteFront ==
    ASSUME Induction, Inv, timers.heap # << >>, complete_front
    PROVE  Core(frame', sched', timers')
<1> DEFINE f == TQ!At(timers, 0)
           n == TQ!remove_at(timers, 0)
           fs == [frame EXCEPT ![f].op = "Completed"]
<1>1. Core(frame, sched, timers) /\ Sound(timers) BY Zenon DEF Inv, Core
<1>2. 0 \in Places(timers)
  <2>1. timers \in TQ!Queue BY <1>1, SoundIs, Zenon
  <2> QED BY <2>1, EmptyIs, Zenon
<1>3. f \in Armed(timers) BY <1>2, Zenon DEF Armed
<1>4. Sound(n) /\ Armed(n) = Armed(timers) \ {f} /\ SameFlags(timers, n)
  <2>1. Kept(timers, n, Armed(timers) \ {f}) BY <1>1, <1>2, HeapIsKept, Zenon
  <2> QED BY <2>1, Zenon DEF Kept
<1>5. frame' = fs /\ sched' = schedule(sched, fs, f) /\ timers' = n BY Zenon DEF complete_front
<1> HIDE DEF f, n
<1>6. Core(fs, schedule(sched, fs, f), n)
  <2>1. fs = [frame EXCEPT ![f].op = "Completed"] OBVIOUS
  <2> HIDE DEF fs
  <2> QED BY <1>1, <1>3, <1>4, <2>1, CoreCompleted, Zenon
<1> HIDE DEF fs
<1> QED BY <1>5, <1>6, Zenon

\* Expire and CancelTimer
LEMMA InvTimers ==
    ASSUME Induction, Inv, Expire \/ CancelTimer
    PROVE  Inv'
<1>1. CASE Expire
  <2>1. /\ timers.heap # << >> /\ complete_front /\ now' = now
        /\ Goto("expire", loop.budget - 1)
    BY <1>1, Zenon DEF Expire, TQ!HasDue
  <2>2. loop.budget - 1 \in Int
    <3>1. loop.budget \in Int BY Zenon DEF Inv, LoopType
    <3> QED BY <3>1
  <2>3. loop' \in LoopType /\ loop'.at # "off" BY <2>1, <2>2, GotoIs
  <2>4. now' \in Nat BY <2>1, Zenon DEF Inv
  <2> QED BY <2>1, <2>3, <2>4, CompleteFront, InvNext, Zenon
<1>2. CASE CancelTimer
  <2>1. timers.heap # << >> /\ complete_front /\ now' = now /\ loop' = loop /\ loop.at = "cancel"
    BY <1>2, Zenon DEF CancelTimer, At
  <2>2. loop' \in LoopType /\ now' \in Nat /\ loop'.at # "off" BY <2>1, Zenon DEF Inv
  <2> QED BY <2>1, <2>2, CompleteFront, InvNext, Zenon
<1> QED BY <1>1, <1>2, Zenon

\* Answer
LEMMA InvAnswer ==
    ASSUME Induction, Inv, NEW f \in Frames, Answer(f)
    PROVE  Inv'
<1> DEFINE n == TQ!disarm(timers, f)
           fs == [frame EXCEPT ![f].op = "Completed"]
<1>1. Core(frame, sched, timers) /\ Sound(timers) BY Zenon DEF Inv, Core
<1>2. /\ frame' = fs /\ sched' = schedule(sched, fs, f) /\ timers' = n
      /\ loop' = loop /\ now' = now /\ frame[f].op = "Pending" /\ loop.at # "off"
  <2>1. loop.at \in {"loop", "cancel"} BY Zenon DEF Answer, At
  <2> QED BY <2>1, Zenon DEF Answer
<1>3. f \in Armed(timers)
  <2>1. OneWaker(frame, Range(sched.ready), Armed(timers), f) BY <1>1, Zenon DEF Core, Forest
  <2> QED BY <1>2, <2>1, Zenon DEF OneWaker
<1>4. Sound(n) /\ Armed(n) = Armed(timers) \ {f} /\ SameFlags(timers, n)
  <2>1. Kept(timers, n, Armed(timers) \ {f}) BY <1>1, <1>3, HeapIsKept, Zenon
  <2> QED BY <2>1, Zenon DEF Kept
<1> HIDE DEF n
<1>5. Core(fs, schedule(sched, fs, f), n)
  <2>1. fs = [frame EXCEPT ![f].op = "Completed"] OBVIOUS
  <2> HIDE DEF fs
  <2> QED BY <1>1, <1>3, <1>4, <2>1, CoreCompleted, Zenon
<1> HIDE DEF fs
<1>6. Core(frame', sched', timers') BY <1>2, <1>5, Zenon
<1>7. loop' \in LoopType /\ now' \in Nat /\ loop'.at # "off" BY <1>2, Zenon DEF Inv
<1> QED BY <1>6, <1>7, InvNext, Zenon

\* ResumeNext
LEMMA InvResumeNext ==
    ASSUME Induction, Inv, ResumeNext
    PROVE  Inv'
<1> DEFINE f == Head(sched.ready)
           gone == Subtree(frame, {frame[f].child})
           t == [sched EXCEPT !.ready = Tail(@)]
           n == AbandonAll(timers, gone \cup {f})
<1>1. Core(frame, sched, timers) /\ loop \in LoopType BY Zenon DEF Inv
<1>2. /\ frame' = Resumed(frame, f, gone) /\ timers' = n /\ sched' = t
      /\ sched.running /\ sched.ready # << >> /\ now' = now
      /\ Goto(loop.at, loop.budget - 1) /\ loop.at \in {"ready", "drain"}
  BY Zenon DEF ResumeNext, Resumed, At
<1>3. Core(Resumed(frame, f, gone), t, n)
  <2>1. f = Head(sched.ready) /\ gone = Subtree(frame, {frame[f].child}) OBVIOUS
  <2> HIDE DEF f, gone
  <2> QED BY <1>1, <1>2, <2>1, CoreResumed, Zenon
<1> HIDE DEF f, gone, t, n
<1>4. Core(frame', sched', timers') BY <1>2, <1>3, Zenon
<1>5. loop' \in LoopType /\ loop'.at # "off"
  <2>1. loop.budget \in Int BY <1>1, Zenon DEF LoopType
  <2>2. loop.budget - 1 \in Int BY <2>1
  <2>3. loop.at \in {"loop", "expire", "ready", "cancel", "drain"} BY <1>2, Zenon
  <2> QED BY <1>2, <2>2, <2>3, GotoIs, Zenon
<1>6. now' \in Nat BY <1>2, Zenon DEF Inv
<1> QED BY <1>4, <1>5, <1>6, InvNext, Zenon

\* Start
LEMMA InvStart ==
    ASSUME Inv, Start
    PROVE  Inv'
<1>1. Core(frame, sched, timers) /\ ~sched.running BY Zenon DEF Inv, Start
<1>2. PICK requested \in BOOLEAN :
          sched' = observe_external_stop([NewScheduler EXCEPT !.running = TRUE,
                       !.accepting = ~requested, !.external_stop_pending = requested])
  BY Zenon DEF Start
<1> DEFINE s == [NewScheduler EXCEPT !.running = TRUE,
                     !.accepting = ~requested, !.external_stop_pending = requested]
           q == TQ!StartQueue(timers)
<1>3. frame' = frame /\ timers' = q /\ now' = now /\ Goto("loop", 0) BY Zenon DEF Start
<1>4. /\ s \in SchedulerType /\ s.ready = << >> /\ s.roots = {} /\ ~s.failed
  <2>1. (~requested) \in BOOLEAN OBVIOUS
  <2>2. << >> \in Seq(Frames) /\ {} \in SUBSET Frames OBVIOUS
  <2> QED BY <2>1, <2>2, Zenon DEF NewScheduler, SchedulerType
<1>5. Sound(q) /\ Armed(q) = {} /\ ~q.failed BY NewQueueIs, Zenon
<1> HIDE DEF s, q
<1>6. q.heap = << >>
  <2>1. q \in TQ!Queue BY <1>5, SoundIs, Zenon
  <2> QED BY <1>5, <2>1, EmptyIs, Zenon
<1>7. frame \in [Frames -> FrameType] /\ \A f \in Frames : frame[f] = Absent
  <2>1. Empty(frame, sched, timers)
    <3>1. \A f \in Frames : frame[f].at = "absent" BY <1>1, Zenon DEF Core
    <3> QED BY <1>1, <3>1, CoreWithoutFrames, Zenon
  <2> QED BY <1>1, <2>1, Zenon DEF Empty, Core, Forest
<1>8. Core(frame, s, q)
  <2>1. Empty(frame, s, q) BY <1>4, <1>6, <1>7, Zenon DEF Empty
  <2> QED BY <1>4, <1>5, <1>7, <2>1, CoreEmpty, Zenon
<1>9. Core(frame, sched', q)
  <2>1. SameWork(s, observe_external_stop(s)) BY <1>4, ObservedIs, Zenon
  <2>2. sched' = observe_external_stop(s) BY <1>2, Zenon DEF s
  <2>3. SameWork(s, sched') BY <2>1, <2>2, Zenon
  <2> QED BY <1>8, <2>3, CoreFlags, Zenon
<1>10. Core(frame', sched', timers') BY <1>3, <1>9, Zenon
<1>11. loop' \in LoopType /\ loop'.at # "off"
  <2>1. 0 \in Int OBVIOUS
  <2> QED BY <1>3, <2>1, GotoIs
<1>12. now' \in Nat BY <1>3, Zenon DEF Inv
<1> QED BY <1>10, <1>11, <1>12, InvNext, Zenon

\* Iterate, EndReady and Tick
LEMMA InvQuiet ==
    ASSUME Inv, Iterate \/ EndReady \/ Tick
    PROVE  Inv'
<1>1. ASSUME frame' = frame, sched' = sched, timers' = timers
      PROVE  Core(frame', sched', timers')
  BY <1>1, Zenon DEF Inv
<1>2. CASE Iterate
  <2>1. /\ frame' = frame /\ sched' = sched /\ timers' = timers /\ now' = now
        /\ Goto("expire", kTimerBudget)
    BY <1>2, Zenon DEF Iterate
  <2>2. kTimerBudget \in Int BY BudgetsAssumption
  <2>3. loop' \in LoopType /\ loop'.at # "off" BY <2>1, <2>2, GotoIs
  <2>4. now' \in Nat BY <2>1, Zenon DEF Inv
  <2> QED BY <1>1, <2>1, <2>3, <2>4, InvNext, Zenon
<1>3. CASE EndReady
  <2>1. /\ frame' = frame /\ sched' = sched /\ timers' = timers /\ now' = now
        /\ Goto("loop", 0)
    BY <1>3, Zenon DEF EndReady
  <2>2. 0 \in Int OBVIOUS
  <2>3. loop' \in LoopType /\ loop'.at # "off" BY <2>1, <2>2, GotoIs
  <2>4. now' \in Nat BY <2>1, Zenon DEF Inv
  <2> QED BY <1>1, <2>1, <2>3, <2>4, InvNext, Zenon
<1>4. CASE Tick
  <2>1. /\ frame' = frame /\ sched' = sched /\ timers' = timers /\ loop' = loop
        /\ now' = now + 1
    BY <1>4, Zenon DEF Tick
  <2>2. now' \in Nat
    <3>1. now \in Nat BY Zenon DEF Inv
    <3> QED BY <2>1, <3>1
  <2> QED BY <1>1, <2>1, <2>2, Zenon DEF Inv
<1> QED BY <1>2, <1>3, <1>4, Zenon

\* EndExpire, BeginDrain and RequestStop only change flags of the scheduler.
LEMMA InvFlags ==
    ASSUME Inv, EndExpire \/ BeginDrain \/ RequestStop
    PROVE  Inv'
<1>1. Core(frame, sched, timers) /\ sched \in SchedulerType BY Zenon DEF Inv, Core
<1>2. ASSUME SameWork(sched, sched'), frame' = frame, timers' = timers
      PROVE  Core(frame', sched', timers')
  <2>1. Core(frame, sched', timers) BY <1>1, <1>2, CoreFlags, Zenon
  <2> QED BY <1>2, <2>1, Zenon
<1>3. CASE EndExpire
  <2>1. /\ sched' = IF sched.running THEN observe_external_stop(sched) ELSE sched
        /\ frame' = frame /\ timers' = timers /\ now' = now /\ Goto("ready", kReadyBudget)
    BY <1>3, Zenon DEF EndExpire
  <2>2. SameWork(sched, sched')
    <3>1. SameWork(sched, observe_external_stop(sched)) BY <1>1, ObservedIs, Zenon
    <3>2. SameWork(sched, sched) BY <1>1, Zenon DEF SameWork
    <3> QED BY <2>1, <3>1, <3>2, Zenon
  <2>3. kReadyBudget \in Int BY BudgetsAssumption
  <2>4. loop' \in LoopType /\ loop'.at # "off" BY <2>1, <2>3, GotoIs
  <2>5. now' \in Nat BY <2>1, Zenon DEF Inv
  <2> QED BY <1>2, <2>1, <2>2, <2>4, <2>5, InvNext, Zenon
<1>4. CASE BeginDrain
  <2>1. /\ sched' = [sched EXCEPT !.stop_requested = TRUE, !.accepting = FALSE]
        /\ frame' = frame /\ timers' = timers /\ now' = now
        /\ Goto("drain", kShutdownResumeBudget)
    BY <1>4, Zenon DEF BeginDrain
  <2>2. SameWork(sched, sched') BY <1>1, <2>1, Zenon DEF SameWork, SchedulerType
  <2>3. kShutdownResumeBudget \in Int BY BudgetsAssumption
  <2>4. loop' \in LoopType /\ loop'.at # "off" BY <2>1, <2>3, GotoIs
  <2>5. now' \in Nat BY <2>1, Zenon DEF Inv
  <2> QED BY <1>2, <2>1, <2>2, <2>4, <2>5, InvNext, Zenon
<1>5. CASE RequestStop
  <2>1. /\ sched' = [sched EXCEPT !.external_stop_pending = sched.running]
        /\ frame' = frame /\ timers' = timers /\ now' = now /\ loop' = loop /\ loop.at # "off"
    BY <1>5, Zenon DEF RequestStop
  <2>2. sched.running \in BOOLEAN BY <1>1, SchedulerTyped, Zenon
  <2>3. SameWork(sched, sched') BY <1>1, <2>1, <2>2, Zenon DEF SameWork, SchedulerType
  <2>4. loop' \in LoopType /\ loop'.at # "off" /\ now' \in Nat BY <2>1, Zenon DEF Inv
  <2> QED BY <1>2, <2>1, <2>3, <2>4, InvNext, Zenon
<1> QED BY <1>3, <1>4, <1>5, Zenon

\* BeginShutdown
LEMMA InvBeginShutdown ==
    ASSUME Inv, BeginShutdown
    PROVE  Inv'
<1> DEFINE t == [sched EXCEPT !.accepting = FALSE]
           q == TQ!CloseQueue(timers)
           p == [timers EXCEPT !.running = timers.running, !.accepting = FALSE]
<1>1. Core(frame, sched, timers) /\ sched \in SchedulerType /\ Sound(timers) /\ ~timers.failed
  BY Zenon DEF Inv, Core
<1>2. sched' = t /\ timers' = q /\ frame' = frame /\ now' = now /\ Goto("cancel", 0)
  BY Zenon DEF BeginShutdown
<1>3. SameWork(sched, t) BY <1>1, Zenon DEF SameWork, SchedulerType
<1>4. timers \in TQ!Queue BY <1>1, SoundIs, Zenon
<1>5. timers.running \in BOOLEAN BY <1>4, QueueTyped, Zenon
<1>6. q = p BY <1>4, Zenon DEF TQ!CloseQueue, TQ!Queue
<1>7. Sound(p) /\ Armed(p) = Armed(timers) /\ p.failed = timers.failed
  BY <1>1, <1>5, FlagsOnly, Zenon
<1> HIDE DEF t, q, p
<1>8. Core(frame, t, timers) BY <1>1, <1>3, CoreFlags, Zenon
<1>9. Core(frame, t, p) BY <1>1, <1>7, <1>8, Zenon DEF Core
<1>10. Core(frame', sched', timers') BY <1>2, <1>6, <1>9, Zenon
<1>11. loop' \in LoopType /\ loop'.at # "off"
  <2>1. 0 \in Int OBVIOUS
  <2> QED BY <1>2, <2>1, GotoIs
<1>12. now' \in Nat BY <1>2, Zenon DEF Inv
<1> QED BY <1>10, <1>11, <1>12, InvNext, Zenon

\* CancelAll
LEMMA InvCancelAll ==
    ASSUME Induction, Inv, CancelAll
    PROVE  Inv'
<1> DEFINE t == [sched EXCEPT !.stop_requested = TRUE, !.accepting = FALSE]
           S == cancel_all_now(State(frame, t, timers))
<1>1. Core(frame, sched, timers) /\ sched \in SchedulerType BY Zenon DEF Inv, Core
<1>2. /\ frame' = S.frame /\ sched' = S.sched /\ timers' = S.timers
      /\ loop' = loop /\ now' = now /\ loop.at # "off"
  <2>1. loop.at = "loop" BY Zenon DEF CancelAll, At
  <2> QED BY <2>1, Zenon DEF CancelAll, Set
<1>3. SameWork(sched, t) BY <1>1, Zenon DEF SameWork, SchedulerType
<1> HIDE DEF t
<1>4. Core(frame, t, timers) BY <1>1, <1>3, CoreFlags, Zenon
<1>5. Emptied(S) BY <1>4, CancelIs, Zenon
<1> HIDE DEF S
<1>6. PICK fs, ss, qs : S = State(fs, ss, qs) /\ Core(fs, ss, qs) BY <1>5, Zenon DEF Emptied
<1>7. frame' = fs /\ sched' = ss /\ timers' = qs
  <2>1. /\ State(fs, ss, qs).frame = fs /\ State(fs, ss, qs).sched = ss
        /\ State(fs, ss, qs).timers = qs
    BY StateIs
  <2> QED BY <1>2, <1>6, <2>1, Zenon
<1>8. Core(frame', sched', timers') BY <1>6, <1>7, Zenon
<1>9. loop' \in LoopType /\ now' \in Nat /\ loop'.at # "off" BY <1>2, Zenon DEF Inv
<1> QED BY <1>8, <1>9, InvNext, Zenon

\* EndDrain
LEMMA InvEndDrain ==
    ASSUME Induction, Inv, EndDrain
    PROVE  Inv'
<1> DEFINE S == State(frame, sched, timers)
           ended == IF sched.running THEN deactivate(cancel_all_now(S)) ELSE S
           T == [ended EXCEPT !.timers = TQ!StopQueue(ended.timers)]
<1>1. Core(frame, sched, timers) /\ sched \in SchedulerType BY Zenon DEF Inv, Core
<1>2. /\ frame' = T.frame /\ sched' = T.sched /\ timers' = T.timers
      /\ loop' = [at |-> "off", budget |-> 0] /\ now' = now
  BY DEF EndDrain, Set, Goto
<1>3. PICK fs, ss, qs : /\ ended = State(fs, ss, qs) /\ Core(fs, ss, qs) /\ Empty(fs, ss, qs)
                        /\ ~ss.running
  <2>1. CASE sched.running
    <3>1. Emptied(cancel_all_now(S)) BY <1>1, CancelIs, Zenon
    <3>2. PICK fs, sc, qs : /\ cancel_all_now(S) = State(fs, sc, qs)
                            /\ Core(fs, sc, qs) /\ Empty(fs, sc, qs)
      <4> HIDE DEF S
      <4> QED BY <3>1, Zenon DEF Emptied
    <3>3. PICK ss : /\ deactivate(State(fs, sc, qs)) = State(fs, ss, qs)
                    /\ Core(fs, ss, qs) /\ Empty(fs, ss, qs) /\ ~ss.running
      BY <3>2, DeactivateIs, Zenon
    <3>4. ended = deactivate(cancel_all_now(S)) BY <2>1, Zenon
    <3> HIDE DEF ended, S
    <3>5. ended = State(fs, ss, qs) BY <3>2, <3>3, <3>4, Zenon
    <3> QED BY <3>3, <3>5, Zenon
  <2>2. CASE ~sched.running
    <3>1. \A f \in Frames : frame[f].at = "absent" BY <1>1, <2>2, Zenon DEF Core
    <3>2. Empty(frame, sched, timers) BY <1>1, <3>1, CoreWithoutFrames, Zenon
    <3>3. ended = State(frame, sched, timers) BY <2>2, Zenon
    <3> HIDE DEF ended
    <3> QED BY <1>1, <2>2, <3>2, <3>3, Zenon
  <2> QED BY <2>1, <2>2, Zenon
<1> HIDE DEF ended
<1> DEFINE qe == [qs EXCEPT !.running = FALSE, !.accepting = FALSE]
<1>4. ended.timers = qs BY <1>3, StateIs
<1>5. TQ!StopQueue(ended.timers) = qe BY <1>3, <1>4, Zenon DEF TQ!StopQueue, Empty
<1>6. T = State(fs, ss, qe)
  <2>1. \A p : [ended EXCEPT !.timers = p] = State(fs, ss, p) BY <1>3, StateIs
  <2> HIDE DEF qe
  <2> QED BY <1>5, <2>1, Zenon
<1>7. /\ Sound(qe) /\ qe.failed = qs.failed /\ qe.heap = qs.heap /\ qe.running = FALSE
  <2>1. Sound(qs) BY <1>3, Zenon DEF Core
  <2> QED BY <2>1, FlagsOnly, Zenon
<1> HIDE DEF T, qe
<1>8. frame' = fs /\ sched' = ss /\ timers' = qe
  <2>1. /\ State(fs, ss, qe).frame = fs /\ State(fs, ss, qe).sched = ss
        /\ State(fs, ss, qe).timers = qe
    BY StateIs
  <2> QED BY <1>2, <1>6, <2>1, Zenon
<1>9. Core(fs, ss, qe)
  <2>1. Empty(fs, ss, qe) BY <1>3, <1>7, Zenon DEF Empty
  <2>2. /\ fs \in [Frames -> FrameType] /\ ss \in SchedulerType /\ ~ss.failed /\ ~qe.failed
        /\ Sound(qe)
    BY <1>3, <1>7, Zenon DEF Core, Forest
  <2> QED BY <2>1, <2>2, CoreEmpty, Zenon
<1>10. Core(frame', sched', timers') /\ ~sched'.running /\ ~timers'.running
  BY <1>3, <1>7, <1>8, <1>9, Zenon
<1>11. loop' \in LoopType
  <2>1. 0 \in Int /\ "off" \in {"off", "loop", "expire", "ready", "cancel", "drain"} OBVIOUS
  <2> QED BY <1>2, <2>1, Zenon DEF LoopType
<1>12. now' \in Nat BY <1>2, Zenon DEF Inv
<1> QED BY <1>10, <1>11, <1>12, Zenon DEF Inv

-----------------------------------------------------------------------------
(* The invariant: start, step, and what follows from it *)

\* The invariant holds at the start ...
LEMMA InvInit == Init => Inv
<1> SUFFICES ASSUME Init PROVE Inv
  OBVIOUS
<1>1. frame \in [Frames -> FrameType] /\ \A f \in Frames : frame[f] = Absent
  <2>1. frame = [f \in Frames |-> Absent] BY Zenon DEF Init
  <2> QED BY <2>1, AbsentIs, Zenon
<1>2. /\ sched \in SchedulerType /\ sched.ready = << >> /\ sched.roots = {} /\ ~sched.failed
      /\ ~sched.running
  <2>1. << >> \in Seq(Frames) /\ {} \in SUBSET Frames OBVIOUS
  <2> QED BY <2>1, Zenon DEF Init, NewScheduler, SchedulerType
<1>3. /\ Sound(timers) /\ Armed(timers) = {} /\ ~timers.failed /\ ~timers.running
  BY NewQueueIs, Zenon DEF Init
<1>4. timers.heap = << >>
  <2>1. timers \in TQ!Queue BY <1>3, SoundIs, Zenon
  <2> QED BY <1>3, <2>1, EmptyIs, Zenon
<1>5. Empty(frame, sched, timers) BY <1>1, <1>2, <1>4, Zenon DEF Empty
<1>6. Core(frame, sched, timers) BY <1>1, <1>2, <1>3, <1>5, CoreEmpty, Zenon
<1>7. loop \in LoopType /\ now \in Nat BY DEF Init, LoopType
<1> QED BY <1>2, <1>3, <1>6, <1>7, Zenon DEF Inv

\* ... and every step keeps it.
LEMMA InvStep ==
    ASSUME Induction, Inv, [Next]_vars
    PROVE  Inv'
<1>1. CASE UNCHANGED vars BY <1>1, Zenon DEF vars, Inv
<1>2. CASE Start BY <1>2, InvStart, Zenon
<1>3. CASE Iterate \/ EndReady \/ Tick BY <1>3, InvQuiet, Zenon
<1>4. CASE Expire \/ CancelTimer BY <1>4, InvTimers, Zenon
<1>5. CASE EndExpire \/ BeginDrain \/ RequestStop BY <1>5, InvFlags, Zenon
<1>6. CASE ResumeNext BY <1>6, InvResumeNext, Zenon
<1>7. CASE CancelAll BY <1>7, InvCancelAll, Zenon
<1>8. CASE BeginShutdown BY <1>8, InvBeginShutdown, Zenon
<1>9. CASE EndDrain BY <1>9, InvEndDrain, Zenon
<1>10. ASSUME NEW f \in Frames, Spawn(f) PROVE Inv' BY <1>10, InvSpawn, Zenon
<1>11. ASSUME NEW f \in Frames, Answer(f) PROVE Inv' BY <1>11, InvAnswer, Zenon
<1>12. ASSUME NEW f \in Frames, RunCoroutine(f) PROVE Inv'
  <2>1. frame[f].at = "running" BY <1>12, Zenon DEF RunCoroutine
  <2>2. CASE Yield(f) BY <2>1, <2>2, InvYield, Zenon
  <2>3. CASE Finish(f) BY <2>1, <2>3, InvFinish, Zenon
  <2>4. ASSUME NEW c \in Frames, AwaitChild(f, c) PROVE Inv' BY <2>1, <2>4, InvAwaitChild, Zenon
  <2>5. CASE CancelFromCoroutine(f) BY <2>1, <2>5, InvCancelFromCoroutine, Zenon
  <2>6. ASSUME NEW deadline \in now .. MaxTime, Sleep(f, deadline) PROVE Inv'
    <3>1. now \in Nat BY Zenon DEF Inv
    <3>2. deadline \in Int BY <3>1, BudgetsAssumption
    <3> QED BY <2>1, <2>6, <3>2, InvSleep, Zenon
  <2> QED BY <1>12, <2>2, <2>3, <2>4, <2>5, <2>6, Zenon DEF RunCoroutine, Leave
<1> QED
  BY <1>1, <1>2, <1>3, <1>4, <1>5, <1>6, <1>7, <1>8, <1>9, <1>10, <1>11, <1>12, Zenon DEF Next

\* Ownership in one state.
LEMMA InvOwned == Inv => FramesAreOwnedOnce
<1> SUFFICES ASSUME Inv PROVE FramesAreOwnedOnce
  OBVIOUS
<1> DEFINE R == Range(sched.ready)
           A == Range(timers.heap)
<1>1. Forest(frame, sched.roots, R, Armed(timers)) /\ ReadyOnce(sched) /\ Sound(timers)
  BY Zenon DEF Inv, Core
<1>2. Armed(timers) = A /\ A \subseteq Frames
  <2>1. Placed(timers, {}) BY <1>1, Zenon DEF Sound
  <2> QED BY <2>1, ArmedIs, Zenon
<1>3. R \subseteq Frames
  <2>1. sched.ready \in Seq(Frames) BY Zenon DEF Inv, Core, SchedulerType
  <2> QED BY <2>1 DEF Range
<1>4. ASSUME NEW f \in Frames
      PROVE  LET owners == {p \in Frames : frame[p].child = f}
             IN  /\ frame[f].at = "absent" => owners = {} /\ f \notin sched.roots
                 /\ frame[f].at # "absent" =>
                        \/ f \in sched.roots /\ owners = {} /\ frame[f].continuation = None
                        \/ f \notin sched.roots /\ owners = {frame[f].continuation}
  <2>1. OwnedOnce(frame, sched.roots, f) BY <1>1, Zenon DEF Forest
  <2>2. CASE frame[f].at = "absent" BY <2>1, <2>2, Zenon DEF OwnedOnce
  <2>3. CASE frame[f].at # "absent" /\ f \in sched.roots BY <2>1, <2>3, Zenon DEF OwnedOnce
  <2>4. CASE frame[f].at # "absent" /\ f \notin sched.roots
    <3>1. /\ frame[f].continuation \in Frames
          /\ \A p \in Frames : frame[p].child = f <=> p = frame[f].continuation
      BY <2>1, <2>4, Zenon DEF OwnedOnce
    <3>2. {p \in Frames : frame[p].child = f} = {frame[f].continuation} BY <3>1, Zenon
    <3> QED BY <2>4, <3>2, Zenon
  <2> QED BY <2>2, <2>3, <2>4, Zenon
<1>5. ASSUME NEW f \in R \cup A PROVE frame[f].at # "absent"
  <2>1. f \in Frames /\ (f \in R \/ f \in Armed(timers)) BY <1>2, <1>3, Zenon
  <2>2. OneWaker(frame, R, Armed(timers), f) BY <1>1, <2>1, Zenon DEF Forest
  <2> QED BY <2>1, <2>2, Zenon DEF OneWaker
<1>6. \A f \in Range(sched.ready) \cup Range(timers.heap) : frame[f].at # "absent" BY <1>5, Zenon
<1>7. \A i, j \in DOMAIN sched.ready : sched.ready[i] = sched.ready[j] => i = j
  BY <1>1, Zenon DEF ReadyOnce
<1> QED BY <1>4, <1>6, <1>7, Zenon DEF FramesAreOwnedOnce

\* The end of the worker in one state.
LEMMA InvShutdown == Inv => ShutdownLeavesNothing
<1> SUFFICES ASSUME Inv, loop.at = "off"
             PROVE  /\ \A f \in Frames : frame[f] = Absent
                    /\ sched.ready = << >> /\ sched.roots = {} /\ ~sched.running
                    /\ timers.heap = << >> /\ ~timers.running
  BY Zenon DEF ShutdownLeavesNothing
<1>1. Core(frame, sched, timers) /\ ~sched.running /\ ~timers.running BY Zenon DEF Inv
<1>2. \A f \in Frames : frame[f].at = "absent" BY <1>1, Zenon DEF Core
<1>3. Empty(frame, sched, timers) BY <1>1, <1>2, CoreWithoutFrames, Zenon
<1> QED BY <1>1, <1>3, Zenon DEF Empty

\* The heap in one state.
LEMMA InvTimersInOrder == Inv => TQ!TimersAreInOrder
<1> SUFFICES ASSUME Inv PROVE TQ!TimersAreInOrder
  OBVIOUS
<1>1. Sound(timers) /\ ~timers.failed BY Zenon DEF Inv, Core
<1> QED BY <1>1, SoundIs, Zenon DEF TQ!TimersAreInOrder

\* the wakers of EveryFrameHasOneWaker
Wakers(f) ==
    {w \in {"ready", "timer", "child"} :
        \/ w = "ready" /\ f \in Range(sched.ready)
        \/ w = "timer" /\ f \in Range(timers.heap)
        \/ w = "child" /\ frame[f].child # None /\ frame[frame[f].child].at # "done"}

\* What wakes a frame, in one state.
LEMMA InvWakers ==
    ASSUME Inv, NEW f \in Frames
    PROVE  /\ frame[f].at = "suspended" => \E w \in {"ready", "timer", "child"} : Wakers(f) = {w}
           /\ frame[f].at # "suspended" => Wakers(f) = {}
           /\ frame[f].op = "Pending" <=> f \in Range(timers.heap)
<1> DEFINE R == Range(sched.ready)
           A == Range(timers.heap)
<1>1. Forest(frame, sched.roots, R, Armed(timers)) /\ Sound(timers) BY Zenon DEF Inv, Core
<1>2. Armed(timers) = A
  <2>1. Placed(timers, {}) BY <1>1, Zenon DEF Sound
  <2> QED BY <2>1, ArmedIs, Zenon
<1>3. OneWaker(frame, R, A, f) BY <1>1, <1>2, Zenon DEF Forest
<1>4. /\ "ready" \in Wakers(f) <=> f \in R
      /\ "timer" \in Wakers(f) <=> f \in A
      /\ "child" \in Wakers(f) <=> Waits(frame, f)
      /\ Wakers(f) \subseteq {"ready", "timer", "child"}
  BY DEF Waits, Wakers
<1> HIDE DEF R, A
<1>5. ASSUME frame[f].at = "suspended"
      PROVE  \E w \in {"ready", "timer", "child"} : Wakers(f) = {w}
  <2>1. CASE f \in R
    <3>1. f \notin A /\ ~Waits(frame, f) BY <1>3, <1>5, <2>1, Zenon DEF OneWaker
    <3>2. Wakers(f) = {"ready"} BY <1>4, <2>1, <3>1
    <3> QED BY <3>2, Zenon
  <2>2. CASE f \in A
    <3>1. f \notin R /\ ~Waits(frame, f) BY <1>3, <1>5, <2>2, Zenon DEF OneWaker
    <3>2. Wakers(f) = {"timer"} BY <1>4, <2>2, <3>1
    <3> QED BY <3>2, Zenon
  <2>3. CASE Waits(frame, f)
    <3>1. f \notin R /\ f \notin A BY <1>3, <1>5, <2>3, Zenon DEF OneWaker
    <3>2. Wakers(f) = {"child"} BY <1>4, <2>3, <3>1
    <3> QED BY <3>2, Zenon
  <2> QED BY <1>3, <1>5, <2>1, <2>2, <2>3, Zenon DEF OneWaker
<1>6. ASSUME frame[f].at # "suspended" PROVE Wakers(f) = {}
  <2>1. f \notin R /\ f \notin A /\ ~Waits(frame, f) BY <1>3, <1>6, Zenon DEF OneWaker, Waits
  <2> QED BY <1>4, <2>1
<1>7. frame[f].op = "Pending" <=> f \in A BY <1>3, Zenon DEF OneWaker
<1> QED BY <1>5, <1>6, <1>7, Zenon DEF A

\* The same for all frames.
LEMMA InvWoken == Inv => EveryFrameHasOneWaker
<1> SUFFICES ASSUME Inv PROVE EveryFrameHasOneWaker
  OBVIOUS
<1>1. ~timers.failed /\ ~sched.failed BY Zenon DEF Inv, Core
<1>2. \A f \in Frames :
          /\ frame[f].at = "suspended" => \E w \in {"ready", "timer", "child"} : Wakers(f) = {w}
          /\ frame[f].at # "suspended" => Wakers(f) = {}
          /\ frame[f].op = "Pending" <=> f \in Range(timers.heap)
  BY InvWakers, Zenon
<1> QED BY <1>1, <1>2, Zenon DEF EveryFrameHasOneWaker, Wakers

-----------------------------------------------------------------------------
(* The theorems *)

LOCAL INSTANCE WellFoundedInduction

\* A number outside such a set would be preceded by a least one, and that by none.
LEMMA NaturalInduction == Induction
<1> SUFFICES ASSUME NEW S, 0 \in S, \A n \in Nat : n \in S => n + 1 \in S,
                    NEW m \in Nat, m \notin S
             PROVE  FALSE
  BY DEF Induction
<1>1. \A x, y \in Nat : y < x => <<y, x>> \in OpToRel(<, Nat)
  <2>1. ASSUME NEW x \in Nat, NEW y \in Nat, y < x
        PROVE  <<y, x>> \in {ss \in Nat \X Nat : ss[1] < ss[2]}
    BY <2>1
  <2> QED BY <2>1 DEF OpToRel
<1>2. PICK R : IsWellFoundedOn(R, Nat) /\ \A x, y \in Nat : y < x => <<y, x>> \in R
  BY <1>1, NatLessThanWellFounded, Zenon
<1>3. Nat \ S # {} /\ Nat \ S \in SUBSET Nat OBVIOUS
<1>4. PICK x \in Nat \ S : \A y \in Nat \ S : ~(<<y, x>> \in R)
  BY <1>2, <1>3, WFMin, Zenon
<1>5. x # 0 BY <1>4
<1>6. x - 1 \in Nat /\ x - 1 < x /\ (x - 1) + 1 = x BY <1>4, <1>5
<1>7. x - 1 \notin S BY <1>4, <1>6, Zenon
<1> QED BY <1>2, <1>4, <1>6, <1>7, Zenon

\* What the worker's thread can see of frames, scheduler and timers always fits together.
THEOREM Invariance == Spec => []Inv
<1>1. Init => Inv BY InvInit, Zenon
<1>2. Inv /\ [Next]_vars => Inv' BY NaturalInduction, InvStep, Zenon
<1> QED BY <1>1, <1>2, PTL DEF Spec

\* Every frame that exists has one owner, the list of roots or the awaiter of the parent
\* that it continues, and nothing points at a destroyed frame: whatever coroutines spawn,
\* await, finish or cancel, and whenever timers expire or another thread asks for a stop.
THEOREM EveryFrameIsOwnedOnce == Spec => []FramesAreOwnedOnce
<1>1. Inv => FramesAreOwnedOnce BY InvOwned, Zenon
<1> QED BY <1>1, Invariance, PTL

\* When shutdown_runtime is over, no frame, no timer and no entry of a list is left, however
\* many coroutines still waited when the budget of the drain ran out.
THEOREM NothingIsLeftBehind == Spec => []ShutdownLeavesNothing
<1>1. Inv => ShutdownLeavesNothing BY InvShutdown, Zenon
<1> QED BY <1>1, Invariance, PTL

\* The timer heap of a worker is in order and every registration knows its place in it,
\* through every arm, expiry, disarm and destruction of a frame that holds one.
THEOREM TimersStayInOrder == Spec => []TQ!TimersAreInOrder
<1>1. Inv => TQ!TimersAreInOrder BY InvTimersInOrder, Zenon
<1> QED BY <1>1, Invariance, PTL

\* A suspended coroutine has exactly one thing that will wake it, and no internal check of
\* the runtime fails: no wakeup is lost, and none comes while a child or a timer is pending.
THEOREM EverySuspendedFrameIsWokenOnce == Spec => []EveryFrameHasOneWaker
<1>1. Inv => EveryFrameHasOneWaker BY InvWoken, Zenon
<1> QED BY <1>1, Invariance, PTL

=============================================================================

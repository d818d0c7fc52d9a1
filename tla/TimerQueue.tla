----------------------------- MODULE TimerQueue -----------------------------
(***************************************************************************)
(* The timer queue of the coroutine runtime (runtime/TimerQueue): a binary *)
(* heap of borrowed registrations, each of which knows its own place.      *)
(*                                                                         *)
(* A queue is a record.  heap[i + 1] is heap_[i].  next_sequence_ serves   *)
(* only to order the armed registrations among themselves, so the model    *)
(* keeps that order, `before', in place of a 64-bit counter: the pairs of  *)
(* armed registrations of which the first was armed before the second.     *)
(***************************************************************************)
EXTENDS Integers, Sequences

CONSTANT Registrations   \* the places a TimerRegistration is embedded in

VARIABLE timers          \* the queue of one worker

not_in_heap == -1

Queue == [heap : Seq(Registrations),
          heap_index : [Registrations -> Int],
          deadline : [Registrations -> Int],
          before : SUBSET (Registrations \X Registrations),
          running : BOOLEAN, accepting : BOOLEAN, failed : BOOLEAN]

NewQueue == [heap |-> << >>, heap_index |-> [r \in Registrations |-> not_in_heap],
             deadline |-> [r \in Registrations |-> 0], before |-> {},
             running |-> FALSE, accepting |-> FALSE, failed |-> FALSE]

size(q) == Len(q.heap)

At(q, i) == q.heap[i + 1]

earlier(q, l, r) ==
    \/ q.deadline[l] < q.deadline[r]
    \/ q.deadline[l] = q.deadline[r] /\ <<l, r>> \in q.before

swap_nodes(q, i, j) ==
    [q EXCEPT !.heap = [@ EXCEPT ![i + 1] = At(q, j), ![j + 1] = At(q, i)],
              !.heap_index = [@ EXCEPT ![At(q, i)] = j, ![At(q, j)] = i]]

Parent(i) == (i - 1) \div 2

\* what a loop has computed when its body ran n times; a body that is over does nothing
Repeat(body, start, n) ==
    LET after[k \in 0 .. n] == IF k = 0 THEN start ELSE body[after[k - 1]]
    IN  after[n]

\* the queue, and the place in its heap a loop is looking at
Cursor == [queue : Queue, index : Nat]

SwapWith(c, other) == [queue |-> swap_nodes(c.queue, c.index, other), index |-> other]

UpStep(c) ==
    LET q == c.queue
        parent == Parent(c.index)
    IN  IF c.index # 0 /\ earlier(q, At(q, c.index), At(q, parent)) THEN SwapWith(c, parent) ELSE c

sift_up(q, index) ==
    Repeat([c \in Cursor |-> UpStep(c)], [queue |-> q, index |-> index], index).queue

EarliestChild(q, i) ==
    LET left == 2 * i + 1
    IN  IF left + 1 < size(q) /\ earlier(q, At(q, left + 1), At(q, left))
        THEN left + 1 ELSE left

DownStep(c) ==
    LET q == c.queue
        child == EarliestChild(q, c.index)
    IN  IF 2 * c.index + 1 < size(q) /\ earlier(q, At(q, child), At(q, c.index))
        THEN SwapWith(c, child) ELSE c

sift_down(q, index) ==
    Repeat([c \in Cursor |-> DownStep(c)], [queue |-> q, index |-> index], size(q)).queue

\* the queue without its last place and without the order of the removed registration
Popped(q, removed) ==
    [q EXCEPT !.heap = SubSeq(@, 1, size(q) - 1),
              !.before = {pair \in @ : removed \notin {pair[1], pair[2]}}]

Moved(q, r, index) == [q EXCEPT !.heap[index + 1] = r, !.heap_index[r] = index]

\* the deadline of a registration that is not armed is never read
Detached(q, r) == [q EXCEPT !.heap_index[r] = not_in_heap, !.deadline[r] = 0]

\* mutant: the registration moved into the gap is only ever sifted down
RemoveWithoutSiftUp(q, index) ==
    LET removed == At(q, index)
        tail    == At(q, size(q) - 1)
        popped  == Popped(q, removed)
        filled  == IF index < size(popped) THEN sift_down(Moved(popped, tail, index), index)
                                           ELSE popped
    IN  Detached(filled, removed)

remove_at(q, index) ==
    LET removed == At(q, index)
        tail    == At(q, size(q) - 1)
        popped  == Popped(q, removed)
        moved   == Moved(popped, tail, index)
        filled  == IF index >= size(popped) THEN popped
                   ELSE IF index # 0 /\ earlier(moved, tail, At(moved, Parent(index)))
                   THEN sift_up(moved, index) ELSE sift_down(moved, index)
    IN  Detached(filled, removed)

\* start, close and stop; stop refuses a queue with armed registrations
StartQueue(q) == [NewQueue EXCEPT !.running = TRUE, !.accepting = TRUE]

CloseQueue(q) == [q EXCEPT !.accepting = FALSE]

StopQueue(q) == IF q.heap = << >> THEN [q EXCEPT !.running = FALSE, !.accepting = FALSE] ELSE q

CanArm(q, r) == q.running /\ q.accepting /\ q.heap_index[r] = not_in_heap

arm(q, r, deadline) ==
    LET armed == {At(q, i) : i \in 0 .. size(q) - 1}
    IN  sift_up([q EXCEPT !.deadline[r] = deadline, !.before = @ \cup (armed \X {r}),
                          !.heap = Append(@, r), !.heap_index[r] = size(q)], size(q))

\* disarm trusts heap_index_ and counts a failure when it is wrong
disarm(q, r) ==
    LET index == q.heap_index[r]
    IN  IF index \in 0 .. size(q) - 1 /\ At(q, index) = r
        THEN remove_at(q, index)
        ELSE [q EXCEPT !.failed = TRUE]

\* ~TimerRegistration: abandon, which looks the registration up when heap_index_ is wrong
abandon(q, r) ==
    LET index == q.heap_index[r]
        found == {i \in 0 .. size(q) - 1 : At(q, i) = r}
    IN  IF index = not_in_heap THEN q
        ELSE IF index \in 0 .. size(q) - 1 /\ At(q, index) = r THEN remove_at(q, index)
        ELSE [(IF found # {} THEN remove_at(q, CHOOSE i \in found : \A j \in found : i <= j)
               ELSE [q EXCEPT !.heap_index[r] = not_in_heap]) EXCEPT !.failed = TRUE]

\* mutant: a timer is not due at its deadline
HasDueAfter(q, now) == q.heap # << >> /\ q.deadline[At(q, 0)] < now

HasDue(q, now) == q.heap # << >> /\ q.deadline[At(q, 0)] <= now

-----------------------------------------------------------------------------
(* Properties *)

\* a registration is in the heap exactly where it thinks it is
KnowsItsPlace(q) ==
    /\ \A i \in 0 .. size(q) - 1 : q.heap_index[At(q, i)] = i
    /\ \A r \in Registrations :
           \/ q.heap_index[r] = not_in_heap
           \/ q.heap_index[r] \in 0 .. size(q) - 1 /\ At(q, q.heap_index[r]) = r

InHeapOrder(q) == \A i \in 1 .. size(q) - 1 : earlier(q, At(q, Parent(i)), At(q, i))

\* Whatever is armed, removed from the middle or expired, and in whichever order,
\* every registration knows its place and the earliest deadline is in front, equal
\* deadlines in the order they were armed: disarm and expiry find what they are
\* after.
TimersAreInOrder == KnowsItsPlace(timers) /\ InHeapOrder(timers) /\ ~timers.failed

=============================================================================

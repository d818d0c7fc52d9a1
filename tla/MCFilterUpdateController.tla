---------------------- MODULE MCFilterUpdateController ----------------------
(* The updates of the model-checked instance of FilterUpdateController. *)
EXTENDS FilterUpdateController, TLC

CONSTANTS c1, c2, c3

Update(count, raw, normalized) == [count |-> count, raw |-> raw, normalized |-> normalized]

\* c2 and c3 together exceed the queue's bytes
ThreeUpdates == c1 :> Update(1, 1, 1) @@ c2 :> Update(1, 2, 2) @@ c3 :> Update(2, 2, 1)

=============================================================================

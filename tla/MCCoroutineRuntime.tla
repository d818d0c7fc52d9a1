------------------------- MODULE MCCoroutineRuntime -------------------------
(* Three coroutine frames: enough for a root, its child and a second root. *)
EXTENDS CoroutineRuntime

=============================================================================

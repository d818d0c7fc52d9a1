--------------------------- MODULE FilterVersions ---------------------------
(***************************************************************************)
(* What the filter publication promises its readers: versions 1, 2, 3...   *)
(* replace one another, each reader moves straight to the newest one, and  *)
(* a version is replaced only after every reader reached it.  So at most   *)
(* two adjacent versions are ever read at the same time.                   *)
(***************************************************************************)
EXTENDS Naturals

CONSTANT Workers

VARIABLES
    version,    \* the newest published version
    view,       \* the version each reader uses, 0 for none
    converged   \* the newest version that every reader has reached

vars == <<version, view, converged>>

Init ==
    /\ version = 1
    /\ view = [w \in Workers |-> 0]
    /\ converged = 1

Publish ==
    /\ converged = version
    /\ version' = version + 1
    /\ UNCHANGED <<view, converged>>

Converge ==
    /\ \A w \in Workers : view[w] \in {0, version}
    /\ converged' = version
    /\ UNCHANGED <<version, view>>

\* a reader starts with the newest version, or moves to it
Observe(w) ==
    /\ view' = [view EXCEPT ![w] = version]
    /\ UNCHANGED <<version, converged>>

Leave(w) ==
    /\ view' = [view EXCEPT ![w] = 0]
    /\ UNCHANGED <<version, converged>>

Next ==
    \/ Publish \/ Converge
    \/ \E w \in Workers : Observe(w) \/ Leave(w)

Spec == Init /\ [][Next]_vars

=============================================================================

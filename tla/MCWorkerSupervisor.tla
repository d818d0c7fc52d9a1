------------------------ MODULE MCWorkerSupervisor ------------------------
(* WorkerSupervisor on small sets of interchangeable workers. *)
EXTENDS WorkerSupervisor, TLC

Symmetry == Permutations(Workers)

=============================================================================

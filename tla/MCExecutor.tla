----------------------------- MODULE MCExecutor -----------------------------
(* Small instances of Executor for TLC. *)
EXTENDS Executor, TLC

\* Requests are interchangeable: Init allows every body for every request.
RequestSymmetry == Permutations(Requests)

=============================================================================

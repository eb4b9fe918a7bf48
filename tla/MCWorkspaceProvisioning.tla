----------------------- MODULE MCWorkspaceProvisioning -----------------------
(* Model-checking instances of WorkspaceProvisioning. *)
EXTENDS WorkspaceProvisioning, TLC

\* Operator processes, replicas and accounts differ only in their names.
Interchangeable == Permutations(Operators) \cup Permutations(Replicas) \cup Permutations(KnownAccounts)
=============================================================================

------------------------- MODULE MCOperationAccess -------------------------
(* Model-checking instances of OperationAccess. *)
EXTENDS OperationAccess, TLC

CONSTANTS a1, a2, w1, w2

\* Each owns a workspace; a2 may become a member of the other.
Owners == {<<a1, w1>>, <<a2, w2>>}
Invited == {<<a2, w1, "member">>}

\* The test harness' module is enabled in w1 only.
EnabledModules == [w \in Workspaces |-> IF w = w1 THEN {"harness"} ELSE {}]

\* The harness' own operation, the same under a false origin, a module's claim on
\* a core name, and an operation whose input names a workspace.
Note == Declaration(NoteGet, "harness", "read", {"owner", "member"})
Asked ==
    {[origin |-> "test_harness", decl |-> Note],
     [origin |-> "harness", decl |-> Note],
     [origin |-> "leads", decl |-> Declaration(Set, "core", "mutate", Roles)],
     [origin |-> "leads", decl |-> [Declaration("leads.lead.read", "leads", "read", Roles)
                                        EXCEPT !.reserved = TRUE]]}

ListsAsked == {{Set, Issue}, {Status, Set}}

HandlerSymmetry == Permutations(Handlers)
=============================================================================

------------------------- MODULE WorkspaceLifecycle -------------------------
(***************************************************************************)
(* What the registry promises to the rest of the core about a workspace,   *)
(* without processes, steps or databases: a workspace is created once, for *)
(* one owner; it is built while it is provisioning; it enters service only *)
(* when it is complete, and stays complete; it leaves service only by      *)
(* becoming unavailable, and comes back only through provisioning.         *)
(***************************************************************************)
CONSTANTS Workspaces, Accounts

VARIABLES
    status,    \* the registry state of each workspace
    complete,  \* whether everything provisioning builds is there
    owner      \* the accounts provisioning made owner

lifecycleVars == <<status, complete, owner>>

LifecycleInit ==
    /\ status = [w \in Workspaces |-> "absent"]
    /\ complete = [w \in Workspaces |-> FALSE]
    /\ owner = [w \in Workspaces |-> {}]

Move(w, from, to) ==
    /\ status[w] = from
    /\ status' = [status EXCEPT ![w] = to]

Create(w, a) ==
    /\ Move(w, "absent", "provisioning")
    /\ owner' = [owner EXCEPT ![w] = {a}]
    /\ UNCHANGED complete

Complete(w) ==
    /\ status[w] = "provisioning"
    /\ complete' = [complete EXCEPT ![w] = TRUE]
    /\ UNCHANGED <<status, owner>>

EnterService(w) ==
    /\ complete[w]
    /\ Move(w, "provisioning", "active")
    /\ UNCHANGED <<complete, owner>>

LeaveService(w) ==
    /\ complete[w]
    /\ \E from \in {"active", "provisioning"} : Move(w, from, "unavailable")
    /\ UNCHANGED <<complete, owner>>

Resume(w) ==
    /\ Move(w, "unavailable", "provisioning")
    /\ UNCHANGED <<complete, owner>>

LifecycleNext ==
    \E w \in Workspaces :
       \/ \E a \in Accounts : Create(w, a)
       \/ Complete(w)
       \/ EnterService(w)
       \/ LeaveService(w)
       \/ Resume(w)

LifecycleSpec == LifecycleInit /\ [][LifecycleNext]_lifecycleVars

=============================================================================

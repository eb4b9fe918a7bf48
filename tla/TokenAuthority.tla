--------------------------- MODULE TokenAuthority ---------------------------
(***************************************************************************)
(* What an access token promises, whoever issued it and however requests   *)
(* overlap: it confers part of what its account's role permits in one      *)
(* workspace, never one of the withheld operations, and never more later;  *)
(* once withdrawn it is not exercised again.                               *)
(***************************************************************************)

CONSTANTS Accounts, Workspaces, Tokens, Handlers, Roles, Names,
    Withheld,   \* the operations no token may hold
    None

VARIABLES
    permits,    \* the operations each role may run
    role,       \* of an account in a workspace
    holder, scope, confers, withdrawn,
    bearer      \* the token each handler's request runs on

vars == <<permits, role, holder, scope, confers, withdrawn, bearer>>

Init ==
    /\ permits = [r \in Roles |-> {}]
    /\ role \in [Accounts \X Workspaces -> Roles \cup {None}]
    /\ holder = [t \in Tokens |-> None]
    /\ scope = [t \in Tokens |-> None]
    /\ confers = [t \in Tokens |-> {}]
    /\ withdrawn = [t \in Tokens |-> FALSE]
    /\ bearer = [p \in Handlers |-> None]

Extend ==
    /\ permits' \in [Roles -> SUBSET Names]
    /\ \A r \in Roles : permits[r] \subseteq permits'[r]
    /\ UNCHANGED <<role, holder, scope, confers, withdrawn, bearer>>

Join(a, w, r) ==
    /\ role[<<a, w>>] = None
    /\ role' = [role EXCEPT ![<<a, w>>] = r]
    /\ UNCHANGED <<permits, holder, scope, confers, withdrawn, bearer>>

Confer(t, a, w, S) ==
    /\ holder[t] = None
    /\ role[<<a, w>>] # None
    /\ S # {} /\ S \subseteq permits[role[<<a, w>>]] \ Withheld
    /\ holder' = [holder EXCEPT ![t] = a]
    /\ scope' = [scope EXCEPT ![t] = w]
    /\ confers' = [confers EXCEPT ![t] = S]
    /\ UNCHANGED <<permits, role, withdrawn, bearer>>

Withdraw(t) ==
    /\ holder[t] # None
    /\ withdrawn' = [withdrawn EXCEPT ![t] = TRUE]
    /\ UNCHANGED <<permits, role, holder, scope, confers, bearer>>

Exercise(p, t) ==
    /\ holder[t] # None
    /\ ~withdrawn[t]
    /\ bearer[p] = None
    /\ bearer' = [bearer EXCEPT ![p] = t]
    /\ UNCHANGED <<permits, role, holder, scope, confers, withdrawn>>

Finish(p) ==
    /\ bearer' = [bearer EXCEPT ![p] = None]
    /\ UNCHANGED <<permits, role, holder, scope, confers, withdrawn>>

Next ==
    \/ Extend
    \/ \E a \in Accounts, w \in Workspaces :
          \/ \E r \in Roles : Join(a, w, r)
          \/ \E t \in Tokens, S \in SUBSET Names : Confer(t, a, w, S)
    \/ \E t \in Tokens : Withdraw(t) \/ \E p \in Handlers : Exercise(p, t)
    \/ \E p \in Handlers : Finish(p)

Spec == Init /\ [][Next]_vars
=============================================================================

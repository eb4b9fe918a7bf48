--------------------------- MODULE AccountSignup ---------------------------
(***************************************************************************)
(* First logins and rheo account create, on the tables control.account and *)
(* control.identity.                                                       *)
(*                                                                         *)
(*  - identity/accounts.py: resolve_or_create;                             *)
(*  - identity/providers/github.py: what a completed sign-in brings;       *)
(*  - commands/account.py: the operator's account, without the lock;       *)
(*  - provider_config.py: the row startup keeps of the provider.           *)
(*                                                                         *)
(* The database runs at READ COMMITTED: a statement sees what others have  *)
(* committed, an insert of a key another open transaction has inserted     *)
(* waits for its end, and a transaction's lock goes with the transaction.  *)
(***************************************************************************)
EXTENDS Naturals

CONSTANTS Accounts, Identities, Processes

None == "none"
ASSUME NoneAssumption == None \notin Accounts \cup Identities \cup Processes
\* The refusals a login can be answered with; no account has one as its id.
Refusals == {"signup_closed", "error"}
ASSUME RefusalAssumption == Refusals \cap Accounts = {}

VARIABLES
    via,        \* account rows, committed: how each came to be, None if absent
    owner,      \* identity rows, committed: the account of each identity
    allow,      \* identity.allow_signup of the deployment
    enabled, providerRow,   \* identity.providers.github.enabled and the row kept of it
    lock,       \* the process holding _FIRST_ACCOUNT_LOCK_KEY
    \* processes: next step, the identity signing in, how its account is admitted,
    \* the account inserted and not yet committed, and the answer
    pc, who, how, pending, answer

tables == <<via, owner>>
deployment == <<allow, enabled, providerRow>>
process == <<pc, who, how, pending, answer>>
vars == <<tables, deployment, lock, process>>

Init ==
    /\ via = [a \in Accounts |-> None]
    /\ owner = [i \in Identities |-> None]
    /\ allow = FALSE
    /\ enabled = FALSE
    /\ providerRow = FALSE
    /\ lock = None
    /\ pc = [p \in Processes |-> "idle"]
    /\ who = [p \in Processes |-> None]
    /\ how = [p \in Processes |-> None]
    /\ pending = [p \in Processes |-> None]
    /\ answer = [p \in Processes |-> None]

At(p, step) == pc[p] = step
Goto(p, step) == pc' = [pc EXCEPT ![p] = step]

\* Mutant: the lock is the session's and outlives the transaction.
SessionLevelLock(p) ==
    /\ pending' = [pending EXCEPT ![p] = None]
    /\ how' = [how EXCEPT ![p] = None]
    /\ UNCHANGED lock

\* The transaction ends: what it inserted and did not commit is gone, and so is
\* its lock.
EndTransaction(p) ==
    /\ pending' = [pending EXCEPT ![p] = None]
    /\ how' = [how EXCEPT ![p] = None]
    /\ lock' = IF lock = p THEN None ELSE lock

Answer(p, a) ==
    /\ Goto(p, "answered")
    /\ answer' = [answer EXCEPT ![p] = a]
    /\ UNCHANGED who

-----------------------------------------------------------------------------
(* A login *)

\* The callback route has the provider's word for who signs in (complete), which
\* resolve_identity_provider gives only while the provider is enabled. If the
\* exchange of the code fails nothing is written.
Complete(p, i) ==
    /\ At(p, "idle")
    /\ enabled
    /\ Goto(p, "lookup")
    /\ who' = [who EXCEPT ![p] = i]
    /\ UNCHANGED <<tables, deployment, lock, how, pending, answer>>

\* The lookup without the lock.
GetIdentity(p) ==
    /\ At(p, "lookup")
    /\ \/ owner[who[p]] # None /\ Answer(p, owner[who[p]])
       \/ owner[who[p]] = None /\ Goto(p, "lock") /\ UNCHANGED <<who, answer>>
    /\ UNCHANGED <<tables, deployment, lock, how, pending>>

\* Mutant: the lock is not waited for.
LockWithoutWaiting(p) ==
    /\ At(p, "lock")
    /\ lock' = p
    /\ Goto(p, "recheck")
    /\ UNCHANGED <<tables, deployment, who, how, pending, answer>>

\* advisory_lock
TakeLock(p) ==
    /\ At(p, "lock")
    /\ lock = None
    /\ lock' = p
    /\ Goto(p, "recheck")
    /\ UNCHANGED <<tables, deployment, who, how, pending, answer>>

\* Mutant: the identity is not looked up again.
NoRecheck(p) ==
    /\ At(p, "recheck")
    /\ Goto(p, "count")
    /\ UNCHANGED <<tables, deployment, lock, who, how, pending, answer>>

\* The lookup again, under the lock.
Recheck(p) ==
    /\ At(p, "recheck")
    /\ \/ owner[who[p]] # None /\ Answer(p, owner[who[p]]) /\ EndTransaction(p)
       \/ owner[who[p]] = None /\ Goto(p, "count") /\ UNCHANGED <<who, answer, how, pending, lock>>
    /\ UNCHANGED <<tables, deployment>>

NoAccount == \A a \in Accounts : via[a] = None

\* The count, and allow_signup when there is an account: signup_closed ends the
\* transaction.
CountAccounts(p) ==
    /\ At(p, "count")
    /\ \/ /\ NoAccount \/ allow
          /\ how' = [how EXCEPT ![p] = IF NoAccount THEN "first" ELSE "open"]
          /\ Goto(p, "insert")
          /\ UNCHANGED <<who, answer, pending, lock>>
       \/ ~NoAccount /\ ~allow /\ Answer(p, "signup_closed") /\ EndTransaction(p)
    /\ UNCHANGED <<tables, deployment>>

-----------------------------------------------------------------------------
(* rheo account create *)

CreateAccount(p, i) ==
    /\ At(p, "idle")
    /\ Goto(p, "insert")
    /\ who' = [who EXCEPT ![p] = i]
    /\ how' = [how EXCEPT ![p] = "cli"]
    /\ UNCHANGED <<tables, deployment, lock, pending, answer>>

-----------------------------------------------------------------------------
(* The two rows, of either *)

Unused(a) == via[a] = None /\ \A q \in Processes : pending[q] # a

\* insert_account and insert_identity, once no other open transaction holds the
\* key.
InsertRows(p, a) ==
    /\ At(p, "insert")
    /\ Unused(a)
    /\ owner[who[p]] = None
    /\ \A q \in Processes : pending[q] # None => who[q] # who[p]
    /\ pending' = [pending EXCEPT ![p] = a]
    /\ Goto(p, "commit")
    /\ UNCHANGED <<tables, deployment, lock, who, how, answer>>

\* identity_provider_subject is violated: the account goes with the transaction.
DuplicateIdentity(p) ==
    /\ At(p, "insert")
    /\ owner[who[p]] # None
    /\ Answer(p, "error")
    /\ EndTransaction(p)
    /\ UNCHANGED <<tables, deployment>>

\* Mutant: the account row is committed without its identity.
CommitAccountOnly(p) ==
    /\ At(p, "commit")
    /\ via' = [via EXCEPT ![pending[p]] = how[p]]
    /\ Answer(p, pending[p])
    /\ EndTransaction(p)
    /\ UNCHANGED <<owner, deployment>>

Commit(p) ==
    /\ At(p, "commit")
    /\ via' = [via EXCEPT ![pending[p]] = how[p]]
    /\ owner' = [owner EXCEPT ![who[p]] = pending[p]]
    /\ Answer(p, pending[p])
    /\ EndTransaction(p)
    /\ UNCHANGED deployment

\* The caller has its answer.
Done(p) ==
    /\ At(p, "answered")
    /\ Goto(p, "idle")
    /\ who' = [who EXCEPT ![p] = None]
    /\ answer' = [answer EXCEPT ![p] = None]
    /\ UNCHANGED <<tables, deployment, lock, how, pending>>

\* The process dies, or a statement fails: the database ends its transaction.
Die(p) ==
    /\ ~At(p, "idle")
    /\ Goto(p, "idle")
    /\ who' = [who EXCEPT ![p] = None]
    /\ answer' = [answer EXCEPT ![p] = None]
    /\ EndTransaction(p)
    /\ UNCHANGED <<tables, deployment>>

-----------------------------------------------------------------------------
\* The deployment's settings are edited.
Configure ==
    /\ allow' \in BOOLEAN /\ enabled' \in BOOLEAN
    /\ UNCHANGED <<tables, providerRow, lock, process>>

\* sync_providers at startup: a disabled provider leaves the row as it was.
SyncProviders ==
    /\ enabled
    /\ providerRow' = TRUE
    /\ UNCHANGED <<tables, allow, enabled, lock, process>>

\* The steps that may have to wait for another transaction's end.
Wait(p) == TakeLock(p) \/ \E a \in Accounts : InsertRows(p, a)

Step(p) ==
    \/ GetIdentity(p) \/ Recheck(p) \/ CountAccounts(p)
    \/ DuplicateIdentity(p) \/ Commit(p) \/ Done(p)

Next ==
    \/ \E p \in Processes :
          \/ \E i \in Identities : Complete(p, i) \/ CreateAccount(p, i)
          \/ Wait(p)
          \/ Step(p)
          \/ Die(p)
    \/ Configure
    \/ SyncProviders

Spec == Init /\ [][Next]_vars

\* The database runs every statement it has accepted, and serves those who wait
\* for a lock or a key in their order.
FairSpec ==
    /\ Spec
    /\ \A p \in Processes : WF_vars(Step(p)) /\ SF_vars(Wait(p))

-----------------------------------------------------------------------------
(* Properties *)

Steps == {"idle", "lookup", "lock", "recheck", "count", "insert", "commit", "answered"}
Ways == {"first", "open", "cli"}

TypeOK ==
    /\ via \in [Accounts -> Ways \cup {None}]
    /\ owner \in [Identities -> Accounts \cup {None}]
    /\ {allow, enabled, providerRow} \subseteq BOOLEAN
    /\ lock \in Processes \cup {None}
    /\ pc \in [Processes -> Steps]
    /\ who \in [Processes -> Identities \cup {None}]
    /\ how \in [Processes -> Ways \cup {None}]
    /\ pending \in [Processes -> Accounts \cup {None}]
    /\ answer \in [Processes -> Accounts \cup Refusals \cup {None}]

\* Logins and the command, however they overlap or die, leave every account with
\* exactly one identity and no identity shared (the two inserts are one
\* transaction, and each row is found or inserted).
AccountsMatchIdentities ==
    /\ \A i \in Identities : owner[i] # None => via[owner[i]] # None
    /\ \A i, j \in Identities : owner[i] # None /\ owner[i] = owner[j] => i = j
    /\ \A a \in Accounts : via[a] # None => \E i \in Identities : owner[i] = a

\* While signup is closed a login makes an account only if no login has made one:
\* two first logins do not both succeed (resolve_or_create's lock). The command
\* takes no lock, and may slip in between the count and the insert.
FirstLoginOnly ==
    [][\A a \in Accounts : (via[a] = None /\ via'[a] = "first") =>
          \A b \in Accounts : via[b] \in {None, "cli"}]_vars

\* Whoever is answered with an account is answered with their own.
AnswerIsOwnAccount ==
    \A p \in Processes : At(p, "answered") /\ answer[p] \in Accounts => owner[who[p]] = answer[p]

\* A sign-in under way ends: with an account, a refusal or its death. Nobody waits
\* on the lock or on another's insert for ever.
SignInEnds == \A p \in Processes : ~At(p, "idle") ~> At(p, "idle")

\* A login that lost the race to its own identity gets the account, never an error;
\* only the command can make a login fail on the constraint.
LoginNeverDuplicates ==
    [][\A p \in Processes : (how[p] \in {"first", "open"} /\ answer'[p] = "error") =>
          via[owner[who[p]]] = "cli"]_vars

\* What a process under way knows: the lock is its own from the recheck on, unless
\* it is the command; what it has inserted is nobody else's; and while it is the
\* first, no login has committed.
ProcessLinked(p) ==
    /\ who[p] = None <=> At(p, "idle")
    /\ how[p] = None <=> pc[p] \notin {"insert", "commit"}
    /\ pending[p] = None <=> ~At(p, "commit")
    /\ answer[p] = None <=> ~At(p, "answered")
    /\ lock = p <=> \/ pc[p] \in {"recheck", "count"}
                    \/ pc[p] \in {"insert", "commit"} /\ how[p] # "cli"
    /\ At(p, "commit") => via[pending[p]] = None /\ owner[who[p]] = None
    /\ how[p] = "first" => \A b \in Accounts : via[b] \in {None, "cli"}
    /\ (At(p, "count") \/ how[p] \in {"first", "open"}) =>
          owner[who[p]] = None \/ via[owner[who[p]]] = "cli"
    /\ \A q \in Processes : (q # p /\ At(p, "commit") /\ At(q, "commit")) =>
          pending[p] # pending[q] /\ who[p] # who[q]

IInv ==
    /\ TypeOK
    /\ AccountsMatchIdentities
    /\ AnswerIsOwnAccount
    /\ \A p \in Processes : ProcessLinked(p)

=============================================================================

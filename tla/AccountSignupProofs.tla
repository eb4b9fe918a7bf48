------------------------ MODULE AccountSignupProofs ------------------------
(***************************************************************************)
(* Proofs that first logins and account create, for any number of          *)
(* accounts, identities and processes, leave accounts and identities       *)
(* matched, admit one first login, and answer with the right account.      *)
(*                                                                         *)
(* AccountsMatchIdentities is not inductive: a commit writes what the      *)
(* process chose steps ago. ProcessLinked says what a process between its  *)
(* steps may rely on, and IInv is kept by every action.                    *)
(***************************************************************************)
EXTENDS AccountSignup, TLAPS

\* What a process signing in has: an identity, and an account once inserted.
LEMMA UnderWay ==
    ASSUME NEW p \in Processes, IInv, ~At(p, "idle")
    PROVE  /\ who[p] \in Identities
           /\ At(p, "commit") => pending[p] \in Accounts /\ how[p] \in Ways
BY DEF IInv, TypeOK, ProcessLinked, At

\* The tables start empty and nobody signs in.
LEMMA InitHolds == Init => IInv
<1> SUFFICES ASSUME Init
             PROVE  IInv
    OBVIOUS
<1>1. TypeOK
    BY DEF Init, TypeOK, Steps
<1>2. AccountsMatchIdentities
    BY DEF Init, AccountsMatchIdentities
<1>3. AnswerIsOwnAccount
    BY DEF Init, AnswerIsOwnAccount, At
<1>4. ASSUME NEW p \in Processes PROVE ProcessLinked(p)
    BY NoneAssumption DEF Init, None, ProcessLinked, At
<1> QED BY <1>1, <1>2, <1>3, <1>4 DEF IInv

\* A sign-in begins with nothing inserted and without the lock.
LEMMA CompleteKeeps ==
    ASSUME NEW p \in Processes, NEW i \in Identities, IInv, Complete(p, i)
    PROVE  IInv'
<1>1. TypeOK'
    BY UnderWay DEF IInv, TypeOK, Steps, Ways, Refusals, Complete, At, Goto, tables,
       deployment
<1>2. AccountsMatchIdentities'
    BY DEF IInv, AccountsMatchIdentities, Complete, At, Goto, tables, deployment
<1>3. AnswerIsOwnAccount'
    BY UnderWay, NoneAssumption, RefusalAssumption DEF IInv, TypeOK, Refusals,
       AnswerIsOwnAccount, ProcessLinked, Complete, At, Goto, tables, deployment
<1>4. ASSUME NEW q \in Processes PROVE ProcessLinked(q)'
    <2>1. CASE q = p
        BY <2>1, UnderWay, NoneAssumption DEF IInv, TypeOK, Ways, None, ProcessLinked,
           Complete, At, Goto, tables, deployment
    <2>2. CASE q # p
        BY <2>2, UnderWay, NoneAssumption DEF IInv, TypeOK, Ways, None, ProcessLinked,
           Complete, At, Goto, tables, deployment
    <2> QED BY <2>1, <2>2
<1> QED BY <1>1, <1>2, <1>3, <1>4 DEF IInv

\* The answer is the account the identity's row names.
LEMMA GetIdentityKeeps ==
    ASSUME NEW p \in Processes, IInv, GetIdentity(p)
    PROVE  IInv'
<1>1. TypeOK'
    BY UnderWay DEF IInv, TypeOK, Steps, Ways, Refusals, GetIdentity, At, Goto,
       Answer, tables, deployment
<1>2. AccountsMatchIdentities'
    BY DEF IInv, AccountsMatchIdentities, GetIdentity, At, Goto, Answer, tables,
       deployment
<1>3. AnswerIsOwnAccount'
    BY UnderWay, NoneAssumption, RefusalAssumption DEF IInv, TypeOK, Refusals,
       AnswerIsOwnAccount, ProcessLinked, GetIdentity, At, Goto, Answer, tables,
       deployment
<1>4. ASSUME NEW q \in Processes PROVE ProcessLinked(q)'
    <2>1. CASE q = p
        BY <2>1, UnderWay, NoneAssumption DEF IInv, TypeOK, Ways, None, ProcessLinked,
           GetIdentity, At, Goto, Answer, tables, deployment
    <2>2. CASE q # p
        BY <2>2, UnderWay, NoneAssumption DEF IInv, TypeOK, Ways, None, ProcessLinked,
           GetIdentity, At, Goto, Answer, tables, deployment
    <2> QED BY <2>1, <2>2
<1> QED BY <1>1, <1>2, <1>3, <1>4 DEF IInv

\* Nobody holds the lock, so nobody else is between the recheck and the commit
\* of a login.
LEMMA TakeLockKeeps ==
    ASSUME NEW p \in Processes, IInv, TakeLock(p)
    PROVE  IInv'
<1>1. TypeOK'
    BY UnderWay DEF IInv, TypeOK, Steps, Ways, Refusals, TakeLock, At, Goto, tables,
       deployment
<1>2. AccountsMatchIdentities'
    BY DEF IInv, AccountsMatchIdentities, TakeLock, At, Goto, tables, deployment
<1>3. AnswerIsOwnAccount'
    BY UnderWay, NoneAssumption, RefusalAssumption DEF IInv, TypeOK, Refusals,
       AnswerIsOwnAccount, ProcessLinked, TakeLock, At, Goto, tables, deployment
<1>4. ASSUME NEW q \in Processes PROVE ProcessLinked(q)'
    <2>1. CASE q = p
        BY <2>1, UnderWay, NoneAssumption DEF IInv, TypeOK, Ways, None, ProcessLinked,
           TakeLock, At, Goto, tables, deployment
    <2>2. CASE q # p
        BY <2>2, UnderWay, NoneAssumption DEF IInv, TypeOK, Ways, None, ProcessLinked,
           TakeLock, At, Goto, tables, deployment
    <2> QED BY <2>1, <2>2
<1> QED BY <1>1, <1>2, <1>3, <1>4 DEF IInv

\* Whoever goes on to count has seen under the lock that its identity has no row.
LEMMA RecheckKeeps ==
    ASSUME NEW p \in Processes, IInv, Recheck(p)
    PROVE  IInv'
<1>1. TypeOK'
    BY UnderWay DEF IInv, TypeOK, Steps, Ways, Refusals, Recheck, At, Goto, Answer,
       EndTransaction, tables, deployment
<1>2. AccountsMatchIdentities'
    BY DEF IInv, AccountsMatchIdentities, Recheck, At, Goto, Answer, EndTransaction,
       tables, deployment
<1>3. AnswerIsOwnAccount'
    BY UnderWay, NoneAssumption, RefusalAssumption DEF IInv, TypeOK, Refusals,
       AnswerIsOwnAccount, ProcessLinked, Recheck, At, Goto, Answer, EndTransaction,
       tables, deployment
<1>4. ASSUME NEW q \in Processes PROVE ProcessLinked(q)'
    <2>1. CASE q = p
        BY <2>1, UnderWay, NoneAssumption DEF IInv, TypeOK, Ways, None, ProcessLinked,
           Recheck, At, Goto, Answer, EndTransaction, tables, deployment
    <2>2. CASE q # p
        BY <2>2, UnderWay, NoneAssumption DEF IInv, TypeOK, Ways, None, ProcessLinked,
           Recheck, At, Goto, Answer, EndTransaction, tables, deployment
    <2> QED BY <2>1, <2>2
<1> QED BY <1>1, <1>2, <1>3, <1>4 DEF IInv

\* The first is admitted when there is no account at all.
LEMMA CountAccountsKeeps ==
    ASSUME NEW p \in Processes, IInv, CountAccounts(p)
    PROVE  IInv'
<1>1. TypeOK'
    BY UnderWay DEF IInv, TypeOK, Steps, Ways, Refusals, CountAccounts, At, Goto,
       Answer, EndTransaction, NoAccount, tables, deployment
<1>2. AccountsMatchIdentities'
    BY DEF IInv, AccountsMatchIdentities, CountAccounts, At, Goto, Answer,
       EndTransaction, NoAccount, tables, deployment
<1>3. AnswerIsOwnAccount'
    BY UnderWay, NoneAssumption, RefusalAssumption DEF IInv, TypeOK, Refusals,
       AnswerIsOwnAccount, ProcessLinked, CountAccounts, At, Goto, Answer,
       EndTransaction, NoAccount, tables, deployment
<1>4. ASSUME NEW q \in Processes PROVE ProcessLinked(q)'
    <2>1. CASE q = p
        BY <2>1, UnderWay, NoneAssumption DEF IInv, TypeOK, Ways, None, ProcessLinked,
           CountAccounts, At, Goto, Answer, EndTransaction, NoAccount, tables,
           deployment
    <2>2. CASE q # p
        BY <2>2, UnderWay, NoneAssumption DEF IInv, TypeOK, Ways, None, ProcessLinked,
           CountAccounts, At, Goto, Answer, EndTransaction, NoAccount, tables,
           deployment
    <2> QED BY <2>1, <2>2
<1> QED BY <1>1, <1>2, <1>3, <1>4 DEF IInv

\* The command goes to its inserts without the lock.
LEMMA CreateAccountKeeps ==
    ASSUME NEW p \in Processes, NEW i \in Identities, IInv, CreateAccount(p, i)
    PROVE  IInv'
<1>1. TypeOK'
    BY UnderWay DEF IInv, TypeOK, Steps, Ways, Refusals, CreateAccount, At, Goto,
       tables, deployment
<1>2. AccountsMatchIdentities'
    BY DEF IInv, AccountsMatchIdentities, CreateAccount, At, Goto, tables, deployment
<1>3. AnswerIsOwnAccount'
    BY UnderWay, NoneAssumption, RefusalAssumption DEF IInv, TypeOK, Refusals,
       AnswerIsOwnAccount, ProcessLinked, CreateAccount, At, Goto, tables, deployment
<1>4. ASSUME NEW q \in Processes PROVE ProcessLinked(q)'
    <2>1. CASE q = p
        BY <2>1, UnderWay, NoneAssumption DEF IInv, TypeOK, Ways, None, ProcessLinked,
           CreateAccount, At, Goto, tables, deployment
    <2>2. CASE q # p
        BY <2>2, UnderWay, NoneAssumption DEF IInv, TypeOK, Ways, None, ProcessLinked,
           CreateAccount, At, Goto, tables, deployment
    <2> QED BY <2>1, <2>2
<1> QED BY <1>1, <1>2, <1>3, <1>4 DEF IInv

\* The unique keys keep two open transactions on different rows.
LEMMA InsertRowsKeeps ==
    ASSUME NEW p \in Processes, NEW a \in Accounts, IInv, InsertRows(p, a)
    PROVE  IInv'
<1>1. TypeOK'
    BY UnderWay DEF IInv, TypeOK, Steps, Ways, Refusals, InsertRows, At, Goto, Unused,
       tables, deployment
<1>2. AccountsMatchIdentities'
    BY DEF IInv, AccountsMatchIdentities, InsertRows, At, Goto, Unused, tables,
       deployment
<1>3. AnswerIsOwnAccount'
    BY UnderWay, NoneAssumption, RefusalAssumption DEF IInv, TypeOK, Refusals,
       AnswerIsOwnAccount, ProcessLinked, InsertRows, At, Goto, Unused, tables,
       deployment
<1>4. ASSUME NEW q \in Processes PROVE ProcessLinked(q)'
    <2>1. CASE q = p
        BY <2>1, UnderWay, NoneAssumption DEF IInv, TypeOK, Ways, None, ProcessLinked,
           InsertRows, At, Goto, Unused, tables, deployment
    <2>2. CASE q # p
        BY <2>2, UnderWay, NoneAssumption DEF IInv, TypeOK, Ways, None, ProcessLinked,
           InsertRows, At, Goto, Unused, tables, deployment
    <2> QED BY <2>1, <2>2
<1> QED BY <1>1, <1>2, <1>3, <1>4 DEF IInv

\* Nothing of the transaction is left.
LEMMA DuplicateIdentityKeeps ==
    ASSUME NEW p \in Processes, IInv, DuplicateIdentity(p)
    PROVE  IInv'
<1>1. TypeOK'
    BY UnderWay DEF IInv, TypeOK, Steps, Ways, Refusals, DuplicateIdentity, At,
       Answer, EndTransaction, tables, deployment, Goto
<1>2. AccountsMatchIdentities'
    BY DEF IInv, AccountsMatchIdentities, DuplicateIdentity, At, Answer,
       EndTransaction, tables, deployment, Goto
<1>3. AnswerIsOwnAccount'
    BY UnderWay, NoneAssumption, RefusalAssumption DEF IInv, TypeOK, Refusals,
       AnswerIsOwnAccount, ProcessLinked, DuplicateIdentity, At, Answer,
       EndTransaction, tables, deployment, Goto
<1>4. ASSUME NEW q \in Processes PROVE ProcessLinked(q)'
    <2>1. CASE q = p
        BY <2>1, UnderWay, NoneAssumption DEF IInv, TypeOK, Ways, None, ProcessLinked,
           DuplicateIdentity, At, Answer, EndTransaction, tables, deployment, Goto
    <2>2. CASE q # p
        BY <2>2, UnderWay, NoneAssumption DEF IInv, TypeOK, Ways, None, ProcessLinked,
           DuplicateIdentity, At, Answer, EndTransaction, tables, deployment, Goto
    <2> QED BY <2>1, <2>2
<1> QED BY <1>1, <1>2, <1>3, <1>4 DEF IInv

\* The new account gets the new identity, and no other process at its commit has
\* either of the two keys.
LEMMA CommitKeeps ==
    ASSUME NEW p \in Processes, IInv, Commit(p)
    PROVE  IInv'
<1>1. TypeOK'
    BY UnderWay DEF IInv, TypeOK, Steps, Ways, Refusals, Commit, At, Answer,
       EndTransaction, deployment, Goto
<1>2. AccountsMatchIdentities'
    <2>1. who[p] \in Identities /\ pending[p] \in Accounts /\ how[p] \in Ways
          /\ via[pending[p]] = None /\ owner[who[p]] = None
        BY UnderWay DEF IInv, ProcessLinked, Commit, At
    <2>2. \A i \in Identities : owner[i] # pending[p]
        BY <2>1, NoneAssumption DEF IInv, AccountsMatchIdentities
    <2>3. how[p] # None
        BY <2>1 DEF Ways, None
    <2> QED BY <2>1, <2>2, <2>3, NoneAssumption
        DEF IInv, TypeOK, AccountsMatchIdentities, Commit
<1>3. AnswerIsOwnAccount'
    BY UnderWay, NoneAssumption, RefusalAssumption DEF IInv, TypeOK, Refusals,
       AnswerIsOwnAccount, ProcessLinked, Commit, At, Answer, EndTransaction,
       deployment, Goto
<1>4. ASSUME NEW q \in Processes PROVE ProcessLinked(q)'
    <2>1. CASE q = p
        BY <2>1, UnderWay, NoneAssumption DEF IInv, TypeOK, Ways, None, ProcessLinked,
           Commit, At, Answer, EndTransaction, deployment, Goto
    <2>2. CASE q # p
        BY <2>2, UnderWay, NoneAssumption DEF IInv, TypeOK, Ways, None, ProcessLinked,
           Commit, At, Answer, EndTransaction, deployment, Goto
    <2> QED BY <2>1, <2>2
<1> QED BY <1>1, <1>2, <1>3, <1>4 DEF IInv

\* The answer is given and nothing else changes.
LEMMA DoneKeeps ==
    ASSUME NEW p \in Processes, IInv, Done(p)
    PROVE  IInv'
<1>1. TypeOK'
    BY UnderWay DEF IInv, TypeOK, Steps, Ways, Refusals, Done, At, Goto, tables,
       deployment
<1>2. AccountsMatchIdentities'
    BY DEF IInv, AccountsMatchIdentities, Done, At, Goto, tables, deployment
<1>3. AnswerIsOwnAccount'
    BY UnderWay, NoneAssumption, RefusalAssumption DEF IInv, TypeOK, Refusals,
       AnswerIsOwnAccount, ProcessLinked, Done, At, Goto, tables, deployment
<1>4. ASSUME NEW q \in Processes PROVE ProcessLinked(q)'
    <2>1. CASE q = p
        BY <2>1, UnderWay, NoneAssumption DEF IInv, TypeOK, Ways, None, ProcessLinked,
           Done, At, Goto, tables, deployment
    <2>2. CASE q # p
        BY <2>2, UnderWay, NoneAssumption DEF IInv, TypeOK, Ways, None, ProcessLinked,
           Done, At, Goto, tables, deployment
    <2> QED BY <2>1, <2>2
<1> QED BY <1>1, <1>2, <1>3, <1>4 DEF IInv

\* A process that dies leaves neither rows nor lock.
LEMMA DieKeeps ==
    ASSUME NEW p \in Processes, IInv, Die(p)
    PROVE  IInv'
<1>1. TypeOK'
    BY UnderWay DEF IInv, TypeOK, Steps, Ways, Refusals, Die, At, Goto,
       EndTransaction, tables, deployment
<1>2. AccountsMatchIdentities'
    BY DEF IInv, AccountsMatchIdentities, Die, At, Goto, EndTransaction, tables,
       deployment
<1>3. AnswerIsOwnAccount'
    BY UnderWay, NoneAssumption, RefusalAssumption DEF IInv, TypeOK, Refusals,
       AnswerIsOwnAccount, ProcessLinked, Die, At, Goto, EndTransaction, tables,
       deployment
<1>4. ASSUME NEW q \in Processes PROVE ProcessLinked(q)'
    <2>1. CASE q = p
        BY <2>1, UnderWay, NoneAssumption DEF IInv, TypeOK, Ways, None, ProcessLinked,
           Die, At, Goto, EndTransaction, tables, deployment
    <2>2. CASE q # p
        BY <2>2, UnderWay, NoneAssumption DEF IInv, TypeOK, Ways, None, ProcessLinked,
           Die, At, Goto, EndTransaction, tables, deployment
    <2> QED BY <2>1, <2>2
<1> QED BY <1>1, <1>2, <1>3, <1>4 DEF IInv

\* Settings are no part of what the transactions rely on.
LEMMA ConfigureKeeps ==
    ASSUME IInv, Configure
    PROVE  IInv'
<1>1. TypeOK'
    BY DEF IInv, TypeOK, Steps, Ways, Refusals, Configure, tables, process
<1>2. AccountsMatchIdentities'
    BY DEF IInv, AccountsMatchIdentities, Configure, tables, process
<1>3. AnswerIsOwnAccount'
    BY NoneAssumption, RefusalAssumption DEF IInv, TypeOK, Refusals,
       AnswerIsOwnAccount, ProcessLinked, Configure, tables, process, At
<1>4. ASSUME NEW q \in Processes PROVE ProcessLinked(q)'
    BY DEF IInv, ProcessLinked, Configure, tables, process, At
<1> QED BY <1>1, <1>2, <1>3, <1>4 DEF IInv

\* The row of the provider is no part of it either.
LEMMA SyncProvidersKeeps ==
    ASSUME IInv, SyncProviders
    PROVE  IInv'
<1>1. TypeOK'
    BY DEF IInv, TypeOK, Steps, Ways, Refusals, SyncProviders, tables, process
<1>2. AccountsMatchIdentities'
    BY DEF IInv, AccountsMatchIdentities, SyncProviders, tables, process
<1>3. AnswerIsOwnAccount'
    BY NoneAssumption, RefusalAssumption DEF IInv, TypeOK, Refusals,
       AnswerIsOwnAccount, ProcessLinked, SyncProviders, tables, process, At
<1>4. ASSUME NEW q \in Processes PROVE ProcessLinked(q)'
    BY DEF IInv, ProcessLinked, SyncProviders, tables, process, At
<1> QED BY <1>1, <1>2, <1>3, <1>4 DEF IInv

\* Every step of the system keeps IInv.
LEMMA NextKeeps == IInv /\ [Next]_vars => IInv'
<1> SUFFICES ASSUME IInv, [Next]_vars
             PROVE  IInv'
    OBVIOUS
<1>1. ASSUME NEW p \in Processes, NEW i \in Identities, Complete(p, i) \/ CreateAccount(p, i)
      PROVE  IInv'
    BY <1>1, CompleteKeeps, CreateAccountKeeps
<1>2. ASSUME NEW p \in Processes, Wait(p)
      PROVE  IInv'
    BY <1>2, TakeLockKeeps, InsertRowsKeeps DEF Wait
<1>3. ASSUME NEW p \in Processes, Step(p)
      PROVE  IInv'
    BY <1>3, GetIdentityKeeps, RecheckKeeps, CountAccountsKeeps, DuplicateIdentityKeeps,
       CommitKeeps, DoneKeeps DEF Step
<1>4. CASE UNCHANGED vars
    BY <1>4 DEF IInv, TypeOK, AccountsMatchIdentities, AnswerIsOwnAccount, ProcessLinked, At,
       vars, tables, deployment, process
<1> QED BY <1>1, <1>2, <1>3, <1>4, DieKeeps, ConfigureKeeps, SyncProvidersKeeps DEF Next

\* IInv is an invariant of first logins and account create.
THEOREM Invariance == Spec => []IInv
<1> QED BY InitHolds, NextKeeps, PTL DEF Spec

\* Logins and the command, however they overlap or die, leave every account with
\* exactly one identity and no identity shared.
THEOREM AccountsAlwaysMatch == Spec => []AccountsMatchIdentities
<1>1. IInv => AccountsMatchIdentities
    BY DEF IInv
<1> QED BY <1>1, Invariance, PTL

\* Whoever is answered with an account is answered with their own.
THEOREM OwnAccountAnswered == Spec => []AnswerIsOwnAccount
<1>1. IInv => AnswerIsOwnAccount
    BY DEF IInv
<1> QED BY <1>1, Invariance, PTL

\* Only a commit writes account rows.
LEMMA OnlyCommitCreates ==
    ASSUME [Next]_vars, via' # via
    PROVE  \E p \in Processes : Commit(p)
<1>1. ASSUME NEW p \in Processes, NEW i \in Identities, Complete(p, i) \/ CreateAccount(p, i)
      PROVE  FALSE
    BY <1>1 DEF Complete, CreateAccount, tables
<1>2. ASSUME NEW p \in Processes, Wait(p)
      PROVE  FALSE
    BY <1>2 DEF Wait, TakeLock, InsertRows, tables
<1>3. ASSUME NEW p \in Processes, Step(p)
      PROVE  Commit(p)
    BY <1>3 DEF Step, GetIdentity, Recheck, CountAccounts, DuplicateIdentity, Done, tables
<1>4. ASSUME NEW p \in Processes, Die(p)
      PROVE  FALSE
    BY <1>4 DEF Die, tables
<1> QED BY <1>1, <1>2, <1>3, <1>4 DEF Next, Configure, SyncProviders, vars, tables

\* While signup is closed a login makes an account only if no login has made one:
\* the process admitted as the first still holds the lock when it commits.
THEOREM OneFirstLogin == Spec => FirstLoginOnly
<1>1. ASSUME IInv, [Next]_vars, NEW a \in Accounts, via[a] = None, via'[a] = "first",
             NEW b \in Accounts
      PROVE  via[b] \in {None, "cli"}
    <2>1. via' # via
        BY <1>1 DEF None
    <2>2. PICK p \in Processes : Commit(p)
        BY <1>1, <2>1, OnlyCommitCreates
    <2>3. how[p] = "first"
        BY <1>1, <2>2 DEF Commit, IInv, TypeOK, None
    <2> QED BY <1>1, <2>3 DEF IInv, ProcessLinked
<1>2. IInv /\ [Next]_vars =>
        [\A a \in Accounts : (via[a] = None /\ via'[a] = "first") =>
            \A b \in Accounts : via[b] \in {None, "cli"}]_vars
    BY <1>1
<1> QED BY <1>2, Invariance, PTL DEF Spec, FirstLoginOnly

\* A process that is not yet answered is answered with an error only by the
\* violated constraint.
LEMMA OnlyDuplicateErrs ==
    ASSUME IInv, [Next]_vars, NEW p \in Processes, how[p] \in {"first", "open"},
           answer'[p] = "error"
    PROVE  DuplicateIdentity(p)
<1>0. answer \in [Processes -> Accounts \cup Refusals \cup {None}] /\ answer[p] = None
      /\ pc[p] \in {"insert", "commit"}
    BY DEF IInv, TypeOK, ProcessLinked, At, None
<1>1. ASSUME NEW q \in Processes, NEW i \in Identities, Complete(q, i) \/ CreateAccount(q, i)
      PROVE  FALSE
    BY <1>0, <1>1 DEF Complete, CreateAccount, None
<1>2. ASSUME NEW q \in Processes, Wait(q)
      PROVE  FALSE
    BY <1>0, <1>2 DEF Wait, TakeLock, InsertRows, None
<1>3. ASSUME NEW q \in Processes, Step(q)
      PROVE  DuplicateIdentity(p)
    <2>1. CASE q # p
        BY <1>0, <1>3, <2>1 DEF Step, GetIdentity, Recheck, CountAccounts, DuplicateIdentity,
           Commit, Done, Answer, None
    <2>2. CASE q = p
        <3>1. Commit(p) \/ DuplicateIdentity(p)
            BY <1>0, <1>3, <2>2 DEF Step, GetIdentity, Recheck, CountAccounts, Done, At
        <3>2. ~Commit(p)
            <4> SUFFICES ASSUME Commit(p)
                         PROVE  FALSE
                OBVIOUS
            <4>1. pending[p] \in Accounts
                BY UnderWay DEF Commit, At
            <4> QED BY <1>0, <4>1, RefusalAssumption DEF Commit, Answer, Refusals
        <3> QED BY <3>1, <3>2
    <2> QED BY <2>1, <2>2
<1>4. ASSUME NEW q \in Processes, Die(q)
      PROVE  FALSE
    BY <1>0, <1>4 DEF Die, None
<1> QED BY <1>0, <1>1, <1>2, <1>3, <1>4
    DEF Next, Configure, SyncProviders, vars, process, None

\* A login that lost the race to its own identity gets the account, never an
\* error: only the command can make a login fail on the constraint.
THEOREM LoginsNeverDuplicate == Spec => LoginNeverDuplicates
<1>1. ASSUME IInv, [Next]_vars, NEW p \in Processes, how[p] \in {"first", "open"},
             answer'[p] = "error"
      PROVE  via[owner[who[p]]] = "cli"
    <2>1. owner[who[p]] # None
        BY <1>1, OnlyDuplicateErrs DEF DuplicateIdentity
    <2> QED BY <1>1, <2>1 DEF IInv, ProcessLinked
<1>2. IInv /\ [Next]_vars =>
        [\A p \in Processes : (how[p] \in {"first", "open"} /\ answer'[p] = "error") =>
            via[owner[who[p]]] = "cli"]_vars
    BY <1>1
<1> QED BY <1>2, Invariance, PTL DEF Spec, LoginNeverDuplicates

=============================================================================

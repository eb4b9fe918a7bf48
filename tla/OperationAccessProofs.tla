----------------------- MODULE OperationAccessProofs -----------------------
(***************************************************************************)
(* Proofs that requests keep what OperationAccess promises for any number  *)
(* of accounts, workspaces, tokens and handlers and any set of proposed    *)
(* registrations: tokens never hold more than their account's role, only   *)
(* owners change settings, success is told when it is true, and the whole  *)
(* implements TokenAuthority.                                              *)
(*                                                                         *)
(* The argument rests on growth: registrations, memberships and token rows *)
(* are added and never taken back, so what a request checked some steps    *)
(* ago (its role, its authorisation, the survivors of an issue) still      *)
(* holds when it is used. Grown says what a step may do to them; what a    *)
(* request or a token relies on is stable under it.                        *)
(***************************************************************************)
EXTENDS OperationAccess, TLAPS

\* Nothing registered, no membership, no token row and no revocation is undone.
Grown ==
    /\ registry \subseteq registry'
    /\ \A m \in Accounts \X Workspaces : role[m] # None => role'[m] = role[m]
    /\ \A t \in Tokens : holder[t] # None =>
          /\ holder'[t] = holder[t] /\ scope'[t] = scope[t] /\ snapshot'[t] = snapshot[t]
          /\ revoked[t] => revoked'[t]

\* The request of a handler is not touched.
SameRequest(q) ==
    /\ pc'[q] = pc[q] /\ ctx'[q] = ctx[q] /\ op'[q] = op[q] /\ grant'[q] = grant[q]
    /\ written'[q] = written[q] /\ outcome'[q] = outcome[q]

\* The row of a token is not touched, and one that is not there gets neither a
\* revocation nor a reader.
SameRow(t) ==
    /\ holder'[t] = holder[t] /\ scope'[t] = scope[t] /\ snapshot'[t] = snapshot[t]
    /\ holder[t] = None => ~revoked'[t] /\ t \notin known'

-----------------------------------------------------------------------------
(* Facts the actions share *)

\* What is registered stays registered, so no role loses an operation.
LEMMA RegistryGrows ==
    ASSUME registry \subseteq registry'
    PROVE  /\ Registered \subseteq Registered'
           /\ \A r : RolePermitted(r) \subseteq {d.name : d \in {x \in Registered' : r \in x.roles}}
<1>1. Registered \subseteq Registered'
    BY DEF Registered
<1> QED BY <1>1 DEF RolePermitted

\* Every registered name is a core name or a proposed one.
LEMMA RegisteredAreNames ==
    ASSUME TypeOK
    PROVE  /\ RegisteredNames \subseteq Names
           /\ \A r : RolePermitted(r) \subseteq RegisteredNames
<1>1. ASSUME NEW e \in registry
      PROVE  e.decl.name \in Names
    BY DEF TypeOK, Names, CoreNames
<1>2. ASSUME NEW d \in Registered
      PROVE  d.name \in Names
    BY <1>1 DEF Registered
<1> QED BY <1>2 DEF RegisteredNames, RolePermitted

\* What a request holds is still grounded after any step that only grows.
LEMMA RequestStays ==
    ASSUME NEW q \in Handlers, IInv, Grown, SameRequest(q)
    PROVE  RequestGrounded(q)'
<1>1. RequestGrounded(q)
    BY DEF IInv
<1>t. /\ ctx[q].account \in Accounts \cup {None} /\ ctx[q].workspace \in Workspaces \cup {None}
      /\ ctx[q].token \in Tokens \cup {None} /\ written[q] \in Tokens \cup {None}
      /\ grant[q].account \in Accounts \cup {None}
    BY DEF IInv, TypeOK, Contexts, Grants
<1>2. ASSUME ContextGrounded(q)
      PROVE  ContextGrounded(q)'
    <2>1. ctx[q].by = "token" => ctx[q].account # None
        BY <1>2, <1>t, NoneAssumption DEF ContextGrounded
    <2>2. (ctx[q].by = "token" =>
             /\ ctx[q].token # None /\ holder[ctx[q].token] = ctx[q].account
             /\ scope[ctx[q].token] = ctx[q].workspace /\ snapshot[ctx[q].token] = ctx[q].ops)'
        BY <1>2, <1>t, <2>1 DEF ContextGrounded, Grown, SameRequest
    <2>3. (IF ctx[q].by = "operator" THEN ctx[q].role = "operator"
           ELSE /\ ctx[q].by # None /\ ctx[q].account # None /\ ctx[q].role # None
                /\ ctx[q].role = role[<<ctx[q].account, ctx[q].workspace>>])'
        BY <1>2, <1>t DEF ContextGrounded, Grown, SameRequest
    <2>4. (~At(q, "context") => Authorized(ctx[q], op[q]))'
        BY <1>2, RegistryGrows DEF ContextGrounded, Grown, SameRequest, Authorized, At
    <2> QED BY <1>2, <2>2, <2>3, <2>4 DEF ContextGrounded, SameRequest
<1>3. ASSUME GrantGrounded(q), ContextGrounded(q)
      PROVE  GrantGrounded(q)'
    <2>1. role'[<<grant[q].account, ctx[q].workspace>>] = role[<<grant[q].account, ctx[q].workspace>>]
        BY <1>3, <1>t DEF GrantGrounded, ContextGrounded, Grown
    <2> QED BY <1>3, <2>1, RegistryGrows DEF GrantGrounded, Grown, SameRequest, RolePermitted
<1> QED BY <1>1, <1>2, <1>3, <1>t DEF RequestGrounded, Grown, SameRequest, At

\* What a token's rows say is still grounded after any step that only grows.
LEMMA TokenStays ==
    ASSUME NEW t \in Tokens, IInv, Grown, SameRow(t)
    PROVE  TokenGrounded(t)'
<1>1. TokenGrounded(t) /\ holder[t] \in Accounts \cup {None} /\ scope[t] \in Workspaces \cup {None}
    BY DEF IInv, TypeOK
<1>2. CASE holder[t] = None
    BY <1>1, <1>2 DEF TokenGrounded, SameRow
<1>3. CASE holder[t] # None
    <2>1. role'[<<holder[t], scope[t]>>] = role[<<holder[t], scope[t]>>]
        BY <1>1, <1>3 DEF TokenGrounded, Grown
    <2> QED BY <1>1, <1>3, <2>1, RegistryGrows DEF TokenGrounded, Grown, SameRow, RolePermitted
<1> QED BY <1>2, <1>3

-----------------------------------------------------------------------------
(* One lemma per action *)

\* The core's declarations are added under names nobody has.
LEMMA RegisterCoreOperationsKeeps ==
    ASSUME IInv, RegisterCoreOperations
    PROVE  IInv' /\ Grown
<1>1. TypeOK'
    BY DEF IInv, TypeOK, Steps, RegisterCoreOperations, tokens, request, rows
<1>2. CoreOperationsAreCore'
    BY DEF IInv, CoreOperationsAreCore, RegisterCoreOperations
<1>3. Grown
    BY DEF IInv, TypeOK, Grown, RegisterCoreOperations, tokens, request, rows
<1>4. ASSUME NEW q \in Handlers PROVE RequestGrounded(q)'
    <2>1. SameRequest(q)
        BY DEF SameRequest, RegisterCoreOperations, tokens, request, rows
    <2> QED BY <1>3, <2>1, RequestStays
<1>5. ASSUME NEW s \in Tokens PROVE TokenGrounded(s)'
    <2>1. SameRow(s)
        BY DEF IInv, TypeOK, TokenGrounded, SameRow, RegisterCoreOperations, tokens,
           request, rows
    <2> QED BY <1>3, <2>1, TokenStays
<1> QED BY <1>1, <1>2, <1>3, <1>4, <1>5 DEF IInv

\* A proposal under a core name is not acceptable from another origin.
LEMMA RegisterKeeps ==
    ASSUME NEW e \in Proposals, IInv, Register(e.origin, e.decl)
    PROVE  IInv' /\ Grown
<1>1. TypeOK'
    BY DEF IInv, TypeOK, Steps, Register, tokens, request, rows
<1>2. CoreOperationsAreCore'
    BY ProposalsAssumption DEF IInv, CoreOperationsAreCore, Register, Acceptable
<1>3. Grown
    BY DEF IInv, TypeOK, Grown, Register, tokens, request, rows
<1>4. ASSUME NEW q \in Handlers PROVE RequestGrounded(q)'
    <2>1. SameRequest(q)
        BY DEF SameRequest, Register, tokens, request, rows
    <2> QED BY <1>3, <2>1, RequestStays
<1>5. ASSUME NEW s \in Tokens PROVE TokenGrounded(s)'
    <2>1. SameRow(s)
        BY DEF IInv, TypeOK, TokenGrounded, SameRow, Register, tokens, request, rows
    <2> QED BY <1>3, <2>1, TokenStays
<1> QED BY <1>1, <1>2, <1>3, <1>4, <1>5 DEF IInv

\* The context is read off the rows of a token that is there.
LEMMA ResolveTokenKeeps ==
    ASSUME NEW p \in Handlers, NEW t \in Tokens, NEW surface \in {"api", "mcp"}, IInv,
           ResolveToken(p, t, surface)
    PROVE  IInv' /\ Grown
<1>1. TypeOK'
    <2>1. /\ holder[t] \in Accounts /\ scope[t] \in Workspaces
          /\ role[<<holder[t], scope[t]>>] \in Roles /\ snapshot[t] \subseteq Names
        BY DEF IInv, TypeOK, TokenGrounded, Roles, ResolveToken, Presentable
    <2>2. [by |-> "token", account |-> holder[t], token |-> t, workspace |-> scope[t],
           role |-> role[<<holder[t], scope[t]>>], ops |-> snapshot[t]] \in Contexts
        BY <2>1 DEF Contexts
    <2> QED BY <2>2 DEF IInv, TypeOK, Steps, ResolveToken, Begin, rows, tokens, world
<1>2. CoreOperationsAreCore'
    BY DEF IInv, CoreOperationsAreCore, ResolveToken, world
<1>3. Grown
    BY DEF IInv, TypeOK, Grown, ResolveToken, Begin, tokens, world, rows
<1>4. ASSUME NEW q \in Handlers PROVE RequestGrounded(q)'
    <2>1. CASE q = p
        <3>1. /\ holder[t] \in Accounts /\ scope[t] \in Workspaces
              /\ role[<<holder[t], scope[t]>>] # None
            BY DEF IInv, TypeOK, TokenGrounded, ResolveToken, Presentable
        <3>2. ctx'[p] = [by |-> "token", account |-> holder[t], token |-> t,
                         workspace |-> scope[t], role |-> role[<<holder[t], scope[t]>>],
                         ops |-> snapshot[t]]
            BY DEF IInv, TypeOK, ResolveToken, Begin
        <3>3. pc'[p] = "context" /\ outcome'[p] = None
            BY DEF IInv, TypeOK, RequestGrounded, ResolveToken, Begin, At
        <3>4. ContextGrounded(p)'
            BY <3>1, <3>2, <3>3, NoneAssumption
            DEF ContextGrounded, None, ResolveToken, At, rows, tokens, world
        <3> QED BY <2>1, <3>3, <3>4 DEF RequestGrounded, At
    <2>2. CASE q # p
        <3>1. SameRequest(q)
            BY <2>2 DEF IInv, TypeOK, SameRequest, ResolveToken, Begin, tokens, world,
               rows
        <3> QED BY <1>3, <3>1, RequestStays
    <2> QED BY <2>1, <2>2
<1>5. ASSUME NEW s \in Tokens PROVE TokenGrounded(s)'
    <2>1. SameRow(s)
        BY DEF IInv, TypeOK, TokenGrounded, SameRow, ResolveToken, Begin, tokens,
           world, rows
    <2> QED BY <1>3, <2>1, TokenStays
<1> QED BY <1>1, <1>2, <1>3, <1>4, <1>5 DEF IInv

\* The context has the role the account has here.
LEMMA ResolveSessionKeeps ==
    ASSUME NEW p \in Handlers, NEW a \in Accounts, NEW w \in Workspaces, IInv,
           ResolveSession(p, a, w)
    PROVE  IInv' /\ Grown
<1>1. TypeOK'
    BY DEF IInv, TypeOK, Steps, Contexts, Roles, ResolveSession, Begin, tokens, world,
       rows
<1>2. CoreOperationsAreCore'
    BY DEF IInv, CoreOperationsAreCore, ResolveSession, world
<1>3. Grown
    BY DEF IInv, TypeOK, Grown, ResolveSession, Begin, tokens, world, rows
<1>4. ASSUME NEW q \in Handlers PROVE RequestGrounded(q)'
    <2>1. CASE q = p
        <3>1. ctx'[p] = [by |-> "account", account |-> a, token |-> None, workspace |-> w,
                         role |-> role[<<a, w>>], ops |-> Names]
            BY DEF IInv, TypeOK, ResolveSession, Begin
        <3>2. pc'[p] = "context" /\ outcome'[p] = None
            BY DEF IInv, TypeOK, RequestGrounded, ResolveSession, Begin, At
        <3>3. ContextGrounded(p)'
            BY <3>1, <3>2, NoneAssumption DEF ContextGrounded, None, ResolveSession, At, world
        <3> QED BY <2>1, <3>2, <3>3 DEF RequestGrounded, At
    <2>2. CASE q # p
        <3>1. SameRequest(q)
            BY <2>2 DEF IInv, TypeOK, SameRequest, ResolveSession, Begin, tokens,
               world, rows
        <3> QED BY <1>3, <3>1, RequestStays
    <2> QED BY <2>1, <2>2
<1>5. ASSUME NEW s \in Tokens PROVE TokenGrounded(s)'
    <2>1. SameRow(s)
        BY DEF IInv, TypeOK, TokenGrounded, SameRow, ResolveSession, Begin, tokens,
           world, rows
    <2> QED BY <1>3, <2>1, TokenStays
<1> QED BY <1>1, <1>2, <1>3, <1>4, <1>5 DEF IInv

\* The operator is no account.
LEMMA ResolveOperatorKeeps ==
    ASSUME NEW p \in Handlers, NEW w \in Workspaces, IInv, ResolveOperator(p, w)
    PROVE  IInv' /\ Grown
<1>1. TypeOK'
    BY DEF IInv, TypeOK, Steps, Contexts, Roles, ResolveOperator, Begin, tokens,
       world, rows
<1>2. CoreOperationsAreCore'
    BY DEF IInv, CoreOperationsAreCore, ResolveOperator, world
<1>3. Grown
    BY DEF IInv, TypeOK, Grown, ResolveOperator, Begin, tokens, world, rows
<1>4. ASSUME NEW q \in Handlers PROVE RequestGrounded(q)'
    <2>1. CASE q = p
        BY <2>1, NoneAssumption DEF IInv, TypeOK, RequestGrounded, At,
           ContextGrounded, ResolveOperator, Begin, tokens, world, rows
    <2>2. CASE q # p
        <3>1. SameRequest(q)
            BY <2>2 DEF IInv, TypeOK, SameRequest, ResolveOperator, Begin, tokens,
               world, rows
        <3> QED BY <1>3, <3>1, RequestStays
    <2> QED BY <2>1, <2>2
<1>5. ASSUME NEW s \in Tokens PROVE TokenGrounded(s)'
    <2>1. SameRow(s)
        BY DEF IInv, TypeOK, TokenGrounded, SameRow, ResolveOperator, Begin, tokens,
           world, rows
    <2> QED BY <1>3, <2>1, TokenStays
<1> QED BY <1>1, <1>2, <1>3, <1>4, <1>5 DEF IInv

\* The operation under way is one the context may run.
LEMMA DispatchKeeps ==
    ASSUME NEW p \in Handlers, NEW name \in Names, IInv, Dispatch(p, name)
    PROVE  IInv' /\ Grown
<1>1. TypeOK'
    BY DEF IInv, TypeOK, Steps, Dispatch, tokens, world, rows
<1>2. CoreOperationsAreCore'
    BY DEF IInv, CoreOperationsAreCore, Dispatch, world
<1>3. Grown
    BY DEF IInv, TypeOK, Grown, Dispatch, tokens, world, rows
<1>4. ASSUME NEW q \in Handlers PROVE RequestGrounded(q)'
    <2>1. CASE q = p
        BY <2>1 DEF IInv, TypeOK, RequestGrounded, At, ContextGrounded, Authorized,
           Registered, Dispatch, tokens, world, rows
    <2>2. CASE q # p
        <3>1. SameRequest(q)
            BY <2>2 DEF IInv, TypeOK, SameRequest, Dispatch, tokens, world, rows
        <3> QED BY <1>3, <3>1, RequestStays
    <2> QED BY <2>1, <2>2
<1>5. ASSUME NEW s \in Tokens PROVE TokenGrounded(s)'
    <2>1. SameRow(s)
        BY DEF IInv, TypeOK, TokenGrounded, SameRow, Dispatch, tokens, world, rows
    <2> QED BY <1>3, <2>1, TokenStays
<1> QED BY <1>1, <1>2, <1>3, <1>4, <1>5 DEF IInv

\* What the request held is dropped, and nothing is written.
LEMMA RefuseKeeps ==
    ASSUME NEW p \in Handlers, IInv, Refuse(p)
    PROVE  IInv' /\ Grown
<1>1. TypeOK'
    BY DEF IInv, TypeOK, Steps, Contexts, Grants, Refuse, Fail, tokens, world, Answer,
       rows, NoContext, NoGrant
<1>2. CoreOperationsAreCore'
    BY DEF IInv, CoreOperationsAreCore, Refuse, world
<1>3. Grown
    BY DEF IInv, TypeOK, Grown, Refuse, Fail, tokens, world, Answer, rows
<1>4. ASSUME NEW q \in Handlers PROVE RequestGrounded(q)'
    <2>1. CASE q = p
        BY <2>1 DEF IInv, TypeOK, RequestGrounded, At, Issue, Revoke, None, Refuse,
           Fail, tokens, world, Answer, rows, NoContext, NoGrant
    <2>2. CASE q # p
        <3>1. SameRequest(q)
            BY <2>2 DEF IInv, TypeOK, SameRequest, Refuse, Fail, tokens, world,
               Answer, rows, NoContext, NoGrant
        <3> QED BY <1>3, <3>1, RequestStays
    <2> QED BY <2>1, <2>2
<1>5. ASSUME NEW s \in Tokens PROVE TokenGrounded(s)'
    <2>1. SameRow(s)
        BY DEF IInv, TypeOK, TokenGrounded, SameRow, Refuse, Fail, tokens, world,
           Answer, rows
    <2> QED BY <1>3, <2>1, TokenStays
<1> QED BY <1>1, <1>2, <1>3, <1>4, <1>5 DEF IInv

\* Nothing of this model is written.
LEMMA PlainHandlerKeeps ==
    ASSUME NEW p \in Handlers, IInv, PlainHandler(p)
    PROVE  IInv' /\ Grown
<1>1. TypeOK'
    BY DEF IInv, TypeOK, Steps, Contexts, Grants, PlainHandler, Answer, tokens, world,
       NoContext, NoGrant, rows
<1>2. CoreOperationsAreCore'
    BY DEF IInv, CoreOperationsAreCore, PlainHandler, world
<1>3. Grown
    BY DEF IInv, TypeOK, Grown, PlainHandler, Answer, tokens, world, rows
<1>4. ASSUME NEW q \in Handlers PROVE RequestGrounded(q)'
    <2>1. CASE q = p
        BY <2>1 DEF IInv, TypeOK, RequestGrounded, At, PlainHandler, Answer, tokens,
           world, NoContext, NoGrant, rows
    <2>2. CASE q # p
        <3>1. SameRequest(q)
            BY <2>2 DEF IInv, TypeOK, SameRequest, PlainHandler, Answer, tokens,
               world, NoContext, NoGrant, rows
        <3> QED BY <1>3, <3>1, RequestStays
    <2> QED BY <2>1, <2>2
<1>5. ASSUME NEW s \in Tokens PROVE TokenGrounded(s)'
    <2>1. SameRow(s)
        BY DEF IInv, TypeOK, TokenGrounded, SameRow, PlainHandler, Answer, tokens,
           world, rows
    <2> QED BY <1>3, <2>1, TokenStays
<1> QED BY <1>1, <1>2, <1>3, <1>4, <1>5 DEF IInv

\* The row waits for the commit.
LEMMA SettingsSetKeeps ==
    ASSUME NEW p \in Handlers, NEW v \in Values, IInv, SettingsSet(p, v)
    PROVE  IInv' /\ Grown
<1>1. TypeOK'
    BY DEF IInv, TypeOK, Steps, SettingsSet, tokens, world, rows
<1>2. CoreOperationsAreCore'
    BY DEF IInv, CoreOperationsAreCore, SettingsSet, world
<1>3. Grown
    BY DEF IInv, TypeOK, Grown, SettingsSet, tokens, world, rows
<1>4. ASSUME NEW q \in Handlers PROVE RequestGrounded(q)'
    <2>1. CASE q = p
        BY <2>1 DEF IInv, TypeOK, RequestGrounded, At, ContextGrounded, Authorized,
           Registered, Set, Issue, Revoke, SettingsSet, tokens, world, rows
    <2>2. CASE q # p
        <3>1. SameRequest(q)
            BY <2>2 DEF IInv, TypeOK, SameRequest, SettingsSet, tokens, world, rows
        <3> QED BY <1>3, <3>1, RequestStays
    <2> QED BY <2>1, <2>2
<1>5. ASSUME NEW s \in Tokens PROVE TokenGrounded(s)'
    <2>1. SameRow(s)
        BY DEF IInv, TypeOK, TokenGrounded, SameRow, SettingsSet, tokens, world, rows
    <2> QED BY <1>3, <2>1, TokenStays
<1> QED BY <1>1, <1>2, <1>3, <1>4, <1>5 DEF IInv

\* The survivors are within the role of the account the token is for.
LEMMA IssueHandlerKeeps ==
    ASSUME NEW p \in Handlers, NEW a \in Accounts, NEW sel \in Selections, NEW k \in
           Kinds, IInv, IssueHandler(p, a, sel, k)
    PROVE  IInv' /\ Grown
<1>1. TypeOK'
    <2> DEFINE survivors == (Expand(sel) \cap IssuerPermitted(ctx[p], a)) \ NonTokenIssuable
    <2>1. survivors \subseteq Names
        BY RegisteredAreNames DEF IInv, IssuerPermitted
    <2>2. [account |-> a, kind |-> k, ops |-> survivors] \in Grants
        BY <2>1, KindsAssumption DEF Grants
    <2> QED BY <2>2 DEF IInv, TypeOK, Steps, IssueHandler, rows, tokens, world
<1>2. CoreOperationsAreCore'
    BY DEF IInv, CoreOperationsAreCore, IssueHandler, world
<1>3. Grown
    BY DEF IInv, TypeOK, Grown, IssueHandler, tokens, world, rows
<1>4. ASSUME NEW q \in Handlers PROVE RequestGrounded(q)'
    <2>1. CASE q = p
        <3>1. /\ pc'[p] = "insert" /\ ctx'[p] = ctx[p] /\ op'[p] = op[p] /\ op[p] = Issue
              /\ outcome'[p] = outcome[p] /\ outcome[p] = None
            BY DEF IInv, TypeOK, RequestGrounded, IssueHandler, At
        <3>2. ContextGrounded(p)
            BY DEF IInv, RequestGrounded, IssueHandler, At
        <3>3. ContextGrounded(p)'
            BY <3>1, <3>2 DEF ContextGrounded, Authorized, Registered, IssueHandler, At, rows,
               tokens, world
        <3>4. IssuerPermitted(ctx[p], a) \subseteq RolePermitted(role[<<a, ctx[p].workspace>>])
            BY <3>2 DEF IssuerPermitted, ContextGrounded, IssueHandler
        <3>5. /\ grant'[p].account = a /\ grant'[p].ops # {}
              /\ grant'[p].ops \subseteq IssuerPermitted(ctx[p], a) \ NonTokenIssuable
            BY DEF IInv, TypeOK, IssueHandler
        <3>6. GrantGrounded(p)'
            BY <3>1, <3>4, <3>5, NoneAssumption
            DEF GrantGrounded, IssueHandler, RolePermitted, Registered, world
        <3> QED BY <2>1, <3>1, <3>3, <3>6 DEF RequestGrounded, At
    <2>2. CASE q # p
        <3>1. SameRequest(q)
            BY <2>2 DEF IInv, TypeOK, SameRequest, IssueHandler, tokens, world, rows
        <3> QED BY <1>3, <3>1, RequestStays
    <2> QED BY <2>1, <2>2
<1>5. ASSUME NEW s \in Tokens PROVE TokenGrounded(s)'
    <2>1. SameRow(s)
        BY DEF IInv, TypeOK, TokenGrounded, SameRow, IssueHandler, tokens, world, rows
    <2> QED BY <1>3, <2>1, TokenStays
<1> QED BY <1>1, <1>2, <1>3, <1>4, <1>5 DEF IInv

\* The new row says what the grant allowed.
LEMMA InsertAccessTokenKeeps ==
    ASSUME NEW p \in Handlers, NEW t \in Tokens, IInv, InsertAccessToken(p, t)
    PROVE  IInv' /\ Grown
<1>1. TypeOK'
    <2>1. /\ grant[p].account \in Accounts \cup {None} /\ grant[p].kind \in {"cli", "mcp", None}
          /\ grant[p].ops \subseteq Names /\ ctx[p].workspace \in Workspaces \cup {None}
        BY DEF IInv, TypeOK, Grants, Contexts
    <2>2. NoGrant \in Grants
        BY DEF NoGrant, Grants
    <2> QED BY <2>1, <2>2 DEF IInv, TypeOK, Steps, InsertAccessToken, world
<1>2. CoreOperationsAreCore'
    BY DEF IInv, CoreOperationsAreCore, InsertAccessToken, world
<1>3. Grown
    BY DEF IInv, TypeOK, Grown, InsertAccessToken, world
<1>4. ASSUME NEW q \in Handlers PROVE RequestGrounded(q)'
    <2>1. CASE q = p
        <3>1. /\ pc'[p] = "commit" /\ ctx'[p] = ctx[p] /\ op'[p] = op[p] /\ op[p] = Issue
              /\ outcome'[p] = outcome[p] /\ outcome[p] = None /\ written'[p] = t
            BY DEF IInv, TypeOK, RequestGrounded, GrantGrounded, InsertAccessToken, At
        <3>2. ContextGrounded(p) /\ GrantGrounded(p)
            BY DEF IInv, RequestGrounded, InsertAccessToken, At
        <3>3. holder'[t] # None
            BY <3>2 DEF IInv, TypeOK, GrantGrounded, InsertAccessToken
        <3>4. ctx[p].token \in Tokens \cup {None} /\ (ctx[p].by = "token" => ctx[p].token # t)
            BY <3>2 DEF IInv, TypeOK, Contexts, ContextGrounded, InsertAccessToken
        <3>5. ContextGrounded(p)'
            BY <3>1, <3>2, <3>4 DEF IInv, TypeOK, ContextGrounded, Authorized, Registered,
               InsertAccessToken, At, world
        <3> QED BY <2>1, <3>1, <3>3, <3>5, NoneAssumption DEF RequestGrounded, At, Issue, Revoke
    <2>2. CASE q # p
        <3>1. SameRequest(q)
            BY <2>2 DEF IInv, TypeOK, SameRequest, InsertAccessToken, NoGrant, world
        <3> QED BY <1>3, <3>1, RequestStays
    <2> QED BY <2>1, <2>2
<1>5. ASSUME NEW s \in Tokens PROVE TokenGrounded(s)'
    <2>1. CASE s = t
        <3>1. GrantGrounded(p) /\ ctx[p].workspace # None
            BY DEF IInv, RequestGrounded, ContextGrounded, InsertAccessToken, At
        <3>2. /\ holder'[t] = grant[p].account /\ scope'[t] = ctx[p].workspace
              /\ snapshot'[t] = grant[p].ops
            BY DEF IInv, TypeOK, InsertAccessToken
        <3> QED BY <2>1, <3>1, <3>2 DEF TokenGrounded, GrantGrounded, RolePermitted, Registered,
            InsertAccessToken, world
    <2>2. CASE s # t
        <3>1. SameRow(s)
            BY <2>2 DEF IInv, TypeOK, TokenGrounded, SameRow, InsertAccessToken
        <3> QED BY <1>3, <3>1, TokenStays
    <2> QED BY <2>1, <2>2
<1> QED BY <1>1, <1>2, <1>3, <1>4, <1>5 DEF IInv

\* Only a token that is there is revoked.
LEMMA RevokeHandlerKeeps ==
    ASSUME NEW p \in Handlers, NEW t \in Tokens, IInv, RevokeHandler(p, t)
    PROVE  IInv' /\ Grown
<1>1. TypeOK'
    BY DEF IInv, TypeOK, Steps, RevokeHandler, rows, world
<1>2. CoreOperationsAreCore'
    BY DEF IInv, CoreOperationsAreCore, RevokeHandler, world
<1>3. Grown
    BY DEF IInv, TypeOK, Grown, RevokeHandler, rows, world
<1>4. ASSUME NEW q \in Handlers PROVE RequestGrounded(q)'
    <2>1. CASE q = p
        BY <2>1, NoneAssumption DEF IInv, TypeOK, RequestGrounded, At,
           ContextGrounded, Authorized, Registered, Revocable, Issue, Revoke,
           RevokeHandler, rows, world
    <2>2. CASE q # p
        <3>1. SameRequest(q)
            BY <2>2 DEF IInv, TypeOK, SameRequest, RevokeHandler, rows, world
        <3> QED BY <1>3, <3>1, RequestStays
    <2> QED BY <2>1, <2>2
<1>5. ASSUME NEW s \in Tokens PROVE TokenGrounded(s)'
    <2>1. SameRow(s)
        BY DEF IInv, TypeOK, TokenGrounded, SameRow, RevokeHandler, Revocable, rows
    <2> QED BY <1>3, <2>1, TokenStays
<1> QED BY <1>1, <1>2, <1>3, <1>4, <1>5 DEF IInv

\* The workspace's setting changes and the tokens do not.
LEMMA CommitKeeps ==
    ASSUME NEW p \in Handlers, IInv, Commit(p)
    PROVE  IInv' /\ Grown
<1>1. TypeOK'
    BY DEF IInv, TypeOK, Steps, Contexts, Grants, Commit, Answer, tokens, world,
       NoContext, NoGrant, rows
<1>2. CoreOperationsAreCore'
    BY DEF IInv, CoreOperationsAreCore, Commit, world
<1>3. Grown
    BY DEF IInv, TypeOK, Grown, Commit, Answer, tokens, world, rows
<1>4. ASSUME NEW q \in Handlers PROVE RequestGrounded(q)'
    <2>1. CASE q = p
        BY <2>1 DEF IInv, TypeOK, RequestGrounded, At, Commit, Answer, tokens, world,
           NoContext, NoGrant, rows
    <2>2. CASE q # p
        <3>1. SameRequest(q)
            BY <2>2 DEF IInv, TypeOK, SameRequest, Commit, Answer, tokens, world,
               NoContext, NoGrant, rows
        <3> QED BY <1>3, <3>1, RequestStays
    <2> QED BY <2>1, <2>2
<1>5. ASSUME NEW s \in Tokens PROVE TokenGrounded(s)'
    <2>1. SameRow(s)
        BY DEF IInv, TypeOK, TokenGrounded, SameRow, Commit, Answer, tokens, world,
           rows
    <2> QED BY <1>3, <2>1, TokenStays
<1> QED BY <1>1, <1>2, <1>3, <1>4, <1>5 DEF IInv

\* The token rows stay as they are.
LEMMA CommitFailsKeeps ==
    ASSUME NEW p \in Handlers, IInv, CommitFails(p)
    PROVE  IInv' /\ Grown
<1>1. TypeOK'
    BY DEF IInv, TypeOK, Steps, Contexts, Grants, CommitFails, Fail, tokens, world,
       Answer, rows, NoContext, NoGrant
<1>2. CoreOperationsAreCore'
    BY DEF IInv, CoreOperationsAreCore, CommitFails, world
<1>3. Grown
    BY DEF IInv, TypeOK, Grown, CommitFails, Fail, tokens, world, Answer, rows
<1>4. ASSUME NEW q \in Handlers PROVE RequestGrounded(q)'
    <2>1. CASE q = p
        BY <2>1 DEF IInv, TypeOK, RequestGrounded, At, Issue, Revoke, None,
           CommitFails, Fail, tokens, world, Answer, rows, NoContext, NoGrant
    <2>2. CASE q # p
        <3>1. SameRequest(q)
            BY <2>2 DEF IInv, TypeOK, SameRequest, CommitFails, Fail, tokens, world,
               Answer, rows, NoContext, NoGrant
        <3> QED BY <1>3, <3>1, RequestStays
    <2> QED BY <2>1, <2>2
<1>5. ASSUME NEW s \in Tokens PROVE TokenGrounded(s)'
    <2>1. SameRow(s)
        BY DEF IInv, TypeOK, TokenGrounded, SameRow, CommitFails, Fail, tokens, world,
           Answer, rows
    <2> QED BY <1>3, <2>1, TokenStays
<1> QED BY <1>1, <1>2, <1>3, <1>4, <1>5 DEF IInv

\* The value shown is that of a token that is there.
LEMMA ReplyKeeps ==
    ASSUME NEW p \in Handlers, IInv, Reply(p)
    PROVE  IInv' /\ Grown
<1>1. TypeOK'
    <2>1. NoContext \in Contexts /\ NoGrant \in Grants
        BY DEF NoContext, NoGrant, Contexts, Grants
    <2>2. op[p] = Issue => written[p] \in Tokens
        BY DEF IInv, TypeOK, RequestGrounded, Reply, At
    <2> QED BY <2>1, <2>2 DEF IInv, TypeOK, Steps, Reply, Forget, rows, world
<1>2. CoreOperationsAreCore'
    BY DEF IInv, CoreOperationsAreCore, Reply, world
<1>3. Grown
    BY DEF IInv, TypeOK, Grown, Reply, Forget, rows, world
<1>4. ASSUME NEW q \in Handlers PROVE RequestGrounded(q)'
    <2>1. CASE q = p
        BY <2>1 DEF IInv, TypeOK, RequestGrounded, At, Reply, Forget, rows, world,
           NoContext, NoGrant
    <2>2. CASE q # p
        <3>1. SameRequest(q)
            BY <2>2 DEF IInv, TypeOK, SameRequest, Reply, Forget, rows, world,
               NoContext, NoGrant
        <3> QED BY <1>3, <3>1, RequestStays
    <2> QED BY <2>1, <2>2
<1>5. ASSUME NEW s \in Tokens PROVE TokenGrounded(s)'
    <2>1. op[p] = Issue => holder[written[p]] # None
        BY DEF IInv, RequestGrounded, Reply, At
    <2>2. SameRow(s)
        BY <2>1 DEF IInv, TokenGrounded, SameRow, Reply, rows
    <2> QED BY <1>3, <2>2, TokenStays
<1> QED BY <1>1, <1>2, <1>3, <1>4, <1>5 DEF IInv

\* The request goes, the rows stay.
LEMMA DieKeeps ==
    ASSUME NEW p \in Handlers, IInv, Die(p)
    PROVE  IInv' /\ Grown
<1>1. TypeOK'
    BY DEF IInv, TypeOK, Steps, Contexts, Grants, Die, Forget, tokens, world,
       NoContext, NoGrant, rows
<1>2. CoreOperationsAreCore'
    BY DEF IInv, CoreOperationsAreCore, Die, world
<1>3. Grown
    BY DEF IInv, TypeOK, Grown, Die, Forget, tokens, world, rows
<1>4. ASSUME NEW q \in Handlers PROVE RequestGrounded(q)'
    <2>1. CASE q = p
        BY <2>1 DEF IInv, TypeOK, RequestGrounded, At, Die, Forget, tokens, world,
           NoContext, NoGrant, rows
    <2>2. CASE q # p
        <3>1. SameRequest(q)
            BY <2>2 DEF IInv, TypeOK, SameRequest, Die, Forget, tokens, world,
               NoContext, NoGrant, rows
        <3> QED BY <1>3, <3>1, RequestStays
    <2> QED BY <2>1, <2>2
<1>5. ASSUME NEW s \in Tokens PROVE TokenGrounded(s)'
    <2>1. SameRow(s)
        BY DEF IInv, TypeOK, TokenGrounded, SameRow, Die, Forget, tokens, world, rows
    <2> QED BY <1>3, <2>1, TokenStays
<1> QED BY <1>1, <1>2, <1>3, <1>4, <1>5 DEF IInv

\* A membership is added where there is none.
LEMMA AddMemberKeeps ==
    ASSUME NEW m \in Invitations, IInv, AddMember(m[1], m[2], m[3])
    PROVE  IInv' /\ Grown
<1>1. TypeOK'
    BY FoundersAssumption DEF IInv, TypeOK, Steps, AddMember, tokens, request, rows
<1>2. CoreOperationsAreCore'
    BY DEF IInv, CoreOperationsAreCore, AddMember, request
<1>3. Grown
    BY DEF IInv, TypeOK, Grown, AddMember, tokens, request, rows
<1>4. ASSUME NEW q \in Handlers PROVE RequestGrounded(q)'
    <2>1. SameRequest(q)
        BY DEF SameRequest, AddMember, tokens, request, rows
    <2> QED BY <1>3, <2>1, RequestStays
<1>5. ASSUME NEW s \in Tokens PROVE TokenGrounded(s)'
    <2>1. SameRow(s)
        BY DEF IInv, TypeOK, TokenGrounded, SameRow, AddMember, tokens, request, rows
    <2> QED BY <1>3, <2>1, TokenStays
<1> QED BY <1>1, <1>2, <1>3, <1>4, <1>5 DEF IInv

\* Only the clock of a token moves.
LEMMA ExpireKeeps ==
    ASSUME NEW t \in Tokens, IInv, Expire(t)
    PROVE  IInv' /\ Grown
<1>1. TypeOK'
    BY DEF IInv, TypeOK, Steps, Expire, rows, world, request
<1>2. CoreOperationsAreCore'
    BY DEF IInv, CoreOperationsAreCore, Expire, world, request
<1>3. Grown
    BY DEF IInv, TypeOK, Grown, Expire, rows, world, request
<1>4. ASSUME NEW q \in Handlers PROVE RequestGrounded(q)'
    <2>1. SameRequest(q)
        BY DEF SameRequest, Expire, rows, world, request
    <2> QED BY <1>3, <2>1, RequestStays
<1>5. ASSUME NEW s \in Tokens PROVE TokenGrounded(s)'
    <2>1. SameRow(s)
        BY DEF IInv, TypeOK, TokenGrounded, SameRow, Expire, rows, world, request
    <2> QED BY <1>3, <2>1, TokenStays
<1> QED BY <1>1, <1>2, <1>3, <1>4, <1>5 DEF IInv

-----------------------------------------------------------------------------
(* The invariant and what follows from it *)

\* Nothing is registered, issued or under way.
LEMMA InitHolds == Init => IInv
<1> SUFFICES ASSUME Init
             PROVE  IInv
    OBVIOUS
<1>1. TypeOK
    <2>1. NoContext \in Contexts /\ NoGrant \in Grants
        BY DEF NoContext, NoGrant, Contexts, Grants
    <2> QED BY <2>1 DEF Init, TypeOK, Steps
<1>2. CoreOperationsAreCore
    BY DEF Init, CoreOperationsAreCore
<1>3. ASSUME NEW p \in Handlers PROVE RequestGrounded(p)
    BY DEF Init, RequestGrounded, At
<1>4. ASSUME NEW t \in Tokens PROVE TokenGrounded(t)
    BY DEF Init, TokenGrounded
<1> QED BY <1>1, <1>2, <1>3, <1>4 DEF IInv

\* Every step keeps IInv, and only adds registrations, memberships and rows.
LEMMA NextKeeps == IInv /\ [Next]_vars => IInv' /\ Grown
<1> SUFFICES ASSUME IInv, [Next]_vars
             PROVE  IInv' /\ Grown
    OBVIOUS
<1>1. ASSUME NEW p \in Handlers, NEW t \in Tokens, NEW surface \in {"api", "mcp"},
             ResolveToken(p, t, surface)
      PROVE  IInv' /\ Grown
    BY <1>1, ResolveTokenKeeps
<1>2. ASSUME NEW p \in Handlers, NEW w \in Workspaces,
             ResolveOperator(p, w) \/ \E a \in Accounts : ResolveSession(p, a, w)
      PROVE  IInv' /\ Grown
    BY <1>2, ResolveOperatorKeeps, ResolveSessionKeeps
<1>3. ASSUME NEW p \in Handlers,
             \/ \E name \in Names : Dispatch(p, name)
             \/ Refuse(p) \/ PlainHandler(p)
             \/ \E v \in Values : SettingsSet(p, v)
             \/ Commit(p) \/ CommitFails(p) \/ Reply(p) \/ Die(p)
      PROVE  IInv' /\ Grown
    BY <1>3, DispatchKeeps, RefuseKeeps, PlainHandlerKeeps, SettingsSetKeeps, CommitKeeps,
       CommitFailsKeeps, ReplyKeeps, DieKeeps
<1>4. ASSUME NEW p \in Handlers, NEW a \in Accounts, NEW sel \in Selections, NEW k \in Kinds,
             IssueHandler(p, a, sel, k)
      PROVE  IInv' /\ Grown
    BY <1>4, IssueHandlerKeeps
<1>5. ASSUME NEW p \in Handlers, NEW t \in Tokens, InsertAccessToken(p, t) \/ RevokeHandler(p, t)
      PROVE  IInv' /\ Grown
    BY <1>5, InsertAccessTokenKeeps, RevokeHandlerKeeps
<1>6. CASE UNCHANGED vars
    <2>1. Grown
        BY <1>6 DEF Grown, vars, world, tokens, rows
    <2>2. TypeOK' /\ CoreOperationsAreCore'
        BY <1>6 DEF IInv, TypeOK, CoreOperationsAreCore, vars, world, tokens, rows, request
    <2>3. ASSUME NEW q \in Handlers PROVE RequestGrounded(q)'
        BY <1>6, <2>1, RequestStays DEF SameRequest, vars, request
    <2>4. ASSUME NEW s \in Tokens PROVE TokenGrounded(s)'
        BY <1>6, <2>1, TokenStays DEF IInv, TokenGrounded, SameRow, vars, tokens, rows
    <2> QED BY <2>1, <2>2, <2>3, <2>4 DEF IInv
<1> QED BY <1>1, <1>2, <1>3, <1>4, <1>5, <1>6, RegisterCoreOperationsKeeps, RegisterKeeps,
    AddMemberKeeps, ExpireKeeps DEF Next

\* IInv is an invariant of requests, tokens and registrations.
THEOREM Invariance == Spec => []IInv
<1>1. IInv /\ [Next]_vars => IInv'
    BY NextKeeps
<1> QED BY <1>1, InitHolds, PTL DEF Spec

\* No step takes back a registration, a membership, a token's rows or a
\* revocation: what a request checked before an await still holds after it.
THEOREM AlwaysGrows == Spec => [][Grown]_vars
<1>1. IInv /\ [Next]_vars => [Grown]_vars
    BY NextKeeps
<1> QED BY <1>1, Invariance, PTL DEF Spec

\* No other origin's registration changes what a core operation requires.
THEOREM CoreStaysCore == Spec => []CoreOperationsAreCore
<1>1. IInv => CoreOperationsAreCore
    BY DEF IInv
<1> QED BY <1>1, Invariance, PTL

\* Success is told only when the effect is there.
THEOREM SuccessIsTrue == Spec => []SuccessMeansDone
<1>1. ASSUME IInv, NEW p \in Handlers, outcome[p] = "succeeded"
      PROVE  /\ op[p] = Issue => holder[written[p]] # None /\ snapshot[written[p]] # {}
             /\ op[p] = Revoke => revoked[written[p]]
    <2>1. RequestGrounded(p) /\ pc[p] = "answered"
        BY <1>1 DEF IInv, RequestGrounded, None
    <2>2. op[p] = Issue => written[p] \in Tokens /\ TokenGrounded(written[p])
        BY <1>1, <2>1 DEF IInv, TypeOK, RequestGrounded
    <2> QED BY <2>1, <2>2 DEF RequestGrounded, TokenGrounded
<1>2. IInv => SuccessMeansDone
    BY <1>1 DEF SuccessMeansDone
<1> QED BY <1>2, Invariance, PTL

-----------------------------------------------------------------------------
(* What a step may do *)

\* A setting is written by a commit of core.settings.set alone.
LEMMA OnlyCommitSets ==
    ASSUME [Next]_vars, setting' # setting
    PROVE  \E p \in Handlers : Commit(p) /\ op[p] = Set
<1>1. ~UNCHANGED vars
    BY DEF vars
<1>2. ASSUME NEW p \in Handlers, NEW t \in Tokens, NEW surface \in {"api", "mcp"},
             ResolveToken(p, t, surface)
      PROVE  FALSE
    BY <1>2 DEF ResolveToken
<1>3. ASSUME NEW p \in Handlers, NEW a \in Accounts, NEW sel \in Selections, NEW k \in Kinds,
             IssueHandler(p, a, sel, k)
      PROVE  FALSE
    BY <1>3 DEF IssueHandler
<1> QED BY <1>1, <1>2, <1>3 DEF Next, RegisterCoreOperations, Register, ResolveSession,
    ResolveOperator, Dispatch, Refuse, PlainHandler, SettingsSet, InsertAccessToken,
    RevokeHandler, Commit, CommitFails, Reply, Die, AddMember, Expire

\* core.settings.set runs for an owner: nobody but the core declares it, and the
\* core's declaration names that role alone.
LEMMA SetIsForOwners ==
    ASSUME NEW p \in Handlers, IInv, Authorized(ctx[p], Set)
    PROVE  ctx[p].role = "owner"
<1>1. PICK d \in Registered : d.name = Set /\ ctx[p].role \in d.roles
    BY DEF Authorized
<1>2. d \in CoreOperations
    <2>1. Set \in CoreNames
        BY DEF CoreNames, CoreOperations, Declaration
    <2> QED BY <1>1, <2>1 DEF IInv, CoreOperationsAreCore, Registered
<1>3. d.roles = {"owner"}
    BY <1>1, <1>2 DEF CoreOperations, Declaration, Status, Set, SetMember, Issue, Revoke
<1> QED BY <1>1, <1>3

\* A workspace setting changes only by the committed request of an owner of that
\* workspace, and that request is told so.
THEOREM OwnersSetSettings == Spec => SettingsSetByOwner
<1>1. ASSUME IInv, [Next]_vars, NEW w \in Workspaces, setting'[w] # setting[w]
      PROVE  \E p \in Handlers :
                /\ ctx[p].workspace = w /\ ctx[p].account # None
                /\ role[<<ctx[p].account, w>>] = "owner"
                /\ pc'[p] = "answered" /\ outcome'[p] = "succeeded"
    <2>1. PICK p \in Handlers : Commit(p) /\ op[p] = Set
        BY <1>1, OnlyCommitSets
    <2>2. ctx[p].workspace = w
        BY <1>1, <2>1 DEF Commit, IInv, TypeOK
    <2>3. ContextGrounded(p) /\ Authorized(ctx[p], Set)
        BY <1>1, <2>1 DEF IInv, RequestGrounded, ContextGrounded, Commit, At
    <2>4. ctx[p].role = "owner"
        BY <1>1, <2>3, SetIsForOwners
    <2>5. ctx[p].account # None /\ role[<<ctx[p].account, w>>] = "owner"
        BY <2>2, <2>3, <2>4 DEF ContextGrounded
    <2>6. pc'[p] = "answered" /\ outcome'[p] = "succeeded"
        BY <1>1, <2>1 DEF Commit, Answer, IInv, TypeOK
    <2> QED BY <2>2, <2>5, <2>6
<1>2. IInv /\ [Next]_vars =>
        [\A w \in Workspaces : setting'[w] # setting[w] =>
            \E p \in Handlers :
                /\ ctx[p].workspace = w /\ ctx[p].account # None
                /\ role[<<ctx[p].account, w>>] = "owner"
                /\ pc'[p] = "answered" /\ outcome'[p] = "succeeded"]_vars
    BY <1>1
<1> QED BY <1>2, Invariance, PTL DEF Spec, SettingsSetByOwner

\* A token is revoked by the revoke handler alone.
LEMMA OnlyRevokeHandlerRevokes ==
    ASSUME [Next]_vars, revoked' # revoked
    PROVE  \E p \in Handlers, t \in Tokens : RevokeHandler(p, t)
<1>1. ~UNCHANGED vars
    BY DEF vars, tokens
<1>2. ASSUME NEW p \in Handlers, NEW t \in Tokens, NEW surface \in {"api", "mcp"},
             ResolveToken(p, t, surface)
      PROVE  FALSE
    BY <1>2 DEF ResolveToken, tokens
<1>3. ASSUME NEW p \in Handlers, NEW a \in Accounts, NEW sel \in Selections, NEW k \in Kinds,
             IssueHandler(p, a, sel, k)
      PROVE  FALSE
    BY <1>3 DEF IssueHandler, tokens
<1> QED BY <1>1, <1>2, <1>3 DEF Next, RegisterCoreOperations, Register, ResolveSession,
    ResolveOperator, Dispatch, Refuse, PlainHandler, SettingsSet, InsertAccessToken,
    Commit, CommitFails, Reply, Die, AddMember, Expire, tokens

\* A token is revoked by its own account's session or by the operator, in its own
\* workspace: a token's context never holds core.token.revoke.
THEOREM EntitledRevoke == Spec => RevokedByEntitled
<1>1. ASSUME IInv, [Next]_vars, NEW t \in Tokens, revoked'[t] # revoked[t]
      PROVE  \E p \in Handlers :
                /\ op[p] = Revoke /\ written'[p] = t
                /\ ctx[p].workspace = scope[t]
                /\ ctx[p].by = "operator" \/ (ctx[p].by = "account" /\ ctx[p].account = holder[t])
    <2>1. PICK p \in Handlers, s \in Tokens : RevokeHandler(p, s)
        BY <1>1, OnlyRevokeHandlerRevokes
    <2>2. s = t
        BY <1>1, <2>1 DEF RevokeHandler, IInv, TypeOK
    <2>3. /\ op[p] = Revoke /\ written'[p] = t /\ ctx[p].workspace = scope[t]
          /\ ctx[p].by = "account" => ctx[p].account = holder[t]
        BY <1>1, <2>1, <2>2 DEF RevokeHandler, Revocable, IInv, TypeOK
    <2>4. ContextGrounded(p) /\ Revoke \in ctx[p].ops
        BY <1>1, <2>1 DEF IInv, RequestGrounded, ContextGrounded, Authorized, RevokeHandler, At
    <2>5. ctx[p].by # "token"
        <3> SUFFICES ASSUME ctx[p].by = "token"
                     PROVE  FALSE
            OBVIOUS
        <3>1. ctx[p].token \in Tokens /\ snapshot[ctx[p].token] = ctx[p].ops
            BY <1>1, <2>4 DEF IInv, TypeOK, Contexts, ContextGrounded
        <3>2. Revoke \notin snapshot[ctx[p].token]
            BY <1>1, <3>1 DEF IInv, TokenGrounded, NonTokenIssuable
        <3> QED BY <2>4, <3>1, <3>2
    <2>6. ctx[p].by \in {"operator", "account"}
        BY <1>1, <2>4, <2>5 DEF IInv, TypeOK, Contexts, ContextGrounded, None
    <2> QED BY <2>3, <2>6
<1>2. IInv /\ [Next]_vars =>
        [\A t \in Tokens : revoked'[t] # revoked[t] =>
            \E p \in Handlers :
                /\ op[p] = Revoke /\ written'[p] = t
                /\ ctx[p].workspace = scope[t]
                /\ ctx[p].by = "operator" \/ (ctx[p].by = "account" /\ ctx[p].account = holder[t])]_vars
    BY <1>1
<1> QED BY <1>2, Invariance, PTL DEF Spec, RevokedByEntitled

-----------------------------------------------------------------------------
(* The promise of a token *)

\* The rows the promise is about are not touched.
Quiet == UNCHANGED <<registry, role, holder, scope, snapshot, revoked>>

\* A registration extends what roles permit.
LEMMA RegistrationExtends ==
    ASSUME IInv, IInv', registry \subseteq registry',
           UNCHANGED <<role, holder, scope, snapshot, revoked, ctx>>
    PROVE  Authority!Extend
<1>1. [r \in Roles |-> RolePermitted(r)]' \in [Roles -> SUBSET Names]
    <2>1. ASSUME NEW e \in registry'
          PROVE  e.decl.name \in Names
        BY DEF IInv, TypeOK, Names, CoreNames
    <2>2. ASSUME NEW d \in Registered'
          PROVE  d.name \in Names
        BY <2>1 DEF Registered
    <2> QED BY <2>2 DEF RolePermitted
<1>2. \A r \in Roles : [x \in Roles |-> RolePermitted(x)][r]
                          \subseteq [x \in Roles |-> RolePermitted(x)]'[r]
    BY RegistryGrows DEF RolePermitted
<1> QED BY <1>1, <1>2 DEF Authority!Extend

\* A request whose context has no token, or goes, leaves its handler without one.
LEMMA ContextWithoutToken ==
    ASSUME NEW p \in Handlers, NEW c, c.token = None, IInv, Quiet, ctx' = [ctx EXCEPT ![p] = c]
    PROVE  Authority!Finish(p)
<1>1. [q \in Handlers |-> ctx[q].token]'
        = [[q \in Handlers |-> ctx[q].token] EXCEPT ![p] = None]
    BY DEF IInv, TypeOK
<1> QED BY <1>1 DEF Quiet, Authority!Finish, RolePermitted, Registered

\* A token is presented while it is there and not revoked.
LEMMA ResolveTokenExercises ==
    ASSUME NEW p \in Handlers, NEW t \in Tokens, NEW surface, IInv, ResolveToken(p, t, surface)
    PROVE  Authority!Exercise(p, t)
<1>1. [q \in Handlers |-> ctx[q].token]' = [[q \in Handlers |-> ctx[q].token] EXCEPT ![p] = t]
    BY DEF IInv, TypeOK, ResolveToken, Begin
<1>2. [q \in Handlers |-> ctx[q].token][p] = None
    BY DEF IInv, RequestGrounded, ResolveToken, Begin, At, NoContext
<1> QED BY <1>1, <1>2 DEF Authority!Exercise, ResolveToken, Presentable, RolePermitted,
    Registered, world, tokens, rows

\* A token is inserted with a part of what its account's role permits.
LEMMA InsertConfers ==
    ASSUME NEW p \in Handlers, NEW t \in Tokens, IInv, InsertAccessToken(p, t)
    PROVE  \E a \in Accounts, w \in Workspaces, S \in SUBSET Names : Authority!Confer(t, a, w, S)
<1>1. /\ grant[p].account \in Accounts /\ ctx[p].workspace \in Workspaces
      /\ grant[p].ops \in SUBSET Names /\ GrantGrounded(p)
    <2>1. GrantGrounded(p) /\ ctx[p].workspace # None
        BY DEF IInv, RequestGrounded, ContextGrounded, InsertAccessToken, At
    <2>2. grant[p] \in Grants /\ ctx[p] \in Contexts
        BY DEF IInv, TypeOK
    <2> QED BY <2>1, <2>2 DEF Grants, Contexts, GrantGrounded
<1>2. role[<<grant[p].account, ctx[p].workspace>>] \in Roles
    BY <1>1 DEF IInv, TypeOK, GrantGrounded, Roles
<1>3. grant[p].ops \subseteq
        [r \in Roles |-> RolePermitted(r)][role[<<grant[p].account, ctx[p].workspace>>]]
            \ NonTokenIssuable
    BY <1>1, <1>2 DEF GrantGrounded
<1>4. Authority!Confer(t, grant[p].account, ctx[p].workspace, grant[p].ops)
    BY <1>1, <1>3 DEF Authority!Confer, GrantGrounded, InsertAccessToken, RolePermitted,
       Registered, world
<1> QED BY <1>1, <1>4

\* A revocation withdraws a token that is there.
LEMMA RevokeWithdraws ==
    ASSUME NEW p \in Handlers, NEW t \in Tokens, IInv, RevokeHandler(p, t)
    PROVE  Authority!Withdraw(t)
BY DEF Authority!Withdraw, RevokeHandler, Revocable, RolePermitted, Registered, world, rows

\* The requests, surfaces and registry together keep the promise of a token: every
\* step is a step of TokenAuthority or changes nothing it speaks of.
THEOREM Refinement == Spec => ImplementsAuthority
<1>1. Init => Authority!Init
    BY FoundersAssumption DEF Init, Authority!Init, RolePermitted, Registered, NoContext, Roles
<1>2. IInv /\ IInv' /\ [Next]_vars => [Authority!Next]_(Authority!vars)
    <2> SUFFICES ASSUME IInv, IInv', [Next]_vars
                 PROVE  Authority!Next \/ UNCHANGED Authority!vars
        OBVIOUS
    <2> USE DEF Authority!Next
    <2>0. ASSUME Quiet, UNCHANGED ctx
          PROVE  UNCHANGED Authority!vars
        BY <2>0 DEF Quiet, Authority!vars, RolePermitted, Registered
    <2>1. CASE RegisterCoreOperations \/ \E e \in Proposals : Register(e.origin, e.decl)
        BY <2>1, RegistrationExtends
        DEF RegisterCoreOperations, Register, tokens, rows, request
    <2>2. ASSUME NEW p \in Handlers, NEW t \in Tokens, NEW surface \in {"api", "mcp"},
                 ResolveToken(p, t, surface)
          PROVE  Authority!Next
        BY <2>2, ResolveTokenExercises
    <2>3. ASSUME NEW p \in Handlers, NEW w \in Workspaces,
                 ResolveOperator(p, w) \/ \E a \in Accounts : ResolveSession(p, a, w)
          PROVE  Authority!Next
        <3>1. Quiet /\ \E c : c.token = None /\ ctx' = [ctx EXCEPT ![p] = c]
            BY <2>3 DEF Quiet, ResolveOperator, ResolveSession, Begin, world, tokens, rows
        <3> QED BY <3>1, ContextWithoutToken
    <2>4. ASSUME NEW p \in Handlers,
                 \/ \E name \in Names : Dispatch(p, name)
                 \/ \E v \in Values : SettingsSet(p, v)
          PROVE  Quiet /\ UNCHANGED ctx
        BY <2>4 DEF Quiet, Dispatch, SettingsSet, world, tokens, rows
    <2>5. ASSUME NEW p \in Handlers, NEW a \in Accounts, NEW sel \in Selections,
                 NEW k \in Kinds, IssueHandler(p, a, sel, k)
          PROVE  Quiet /\ UNCHANGED ctx
        BY <2>5 DEF Quiet, IssueHandler, world, tokens, rows
    <2>6. ASSUME NEW p \in Handlers,
                 \/ Refuse(p) \/ PlainHandler(p) \/ Commit(p) \/ CommitFails(p)
                 \/ Reply(p) \/ Die(p)
          PROVE  Authority!Next
        <3>1. Quiet /\ ctx' = [ctx EXCEPT ![p] = NoContext]
            BY <2>6 DEF Quiet, Refuse, PlainHandler, Commit, CommitFails, Reply, Die, Fail,
               Answer, Forget, world, tokens, rows
        <3>2. NoContext.token = None
            BY DEF NoContext
        <3> QED BY <3>1, <3>2, ContextWithoutToken
    <2>7. ASSUME NEW p \in Handlers, NEW t \in Tokens, InsertAccessToken(p, t)
          PROVE  Authority!Next
        BY <2>7, InsertConfers
    <2>8. ASSUME NEW p \in Handlers, NEW t \in Tokens, RevokeHandler(p, t)
          PROVE  Authority!Next
        BY <2>8, RevokeWithdraws
    <2>9. ASSUME NEW m \in Invitations, AddMember(m[1], m[2], m[3])
          PROVE  Authority!Next
        <3>1. m[1] \in Accounts /\ m[2] \in Workspaces /\ m[3] \in Roles
            BY FoundersAssumption DEF Roles
        <3>2. Authority!Join(m[1], m[2], m[3])
            BY <2>9 DEF Authority!Join, AddMember, RolePermitted, Registered, tokens, rows,
               request
        <3> QED BY <3>1, <3>2
    <2>10. ASSUME NEW t \in Tokens, Expire(t)
           PROVE  Quiet /\ UNCHANGED ctx
        BY <2>10 DEF Quiet, Expire, world, rows, request
    <2>11. CASE UNCHANGED vars
        BY <2>0, <2>11 DEF Quiet, vars, world, tokens, rows, request
    <2> QED BY <2>0, <2>1, <2>2, <2>3, <2>4, <2>5, <2>6, <2>7, <2>8, <2>9, <2>10, <2>11
        DEF Next
<1> QED BY <1>1, <1>2, Invariance, PTL DEF Spec, ImplementsAuthority, Authority!Spec

=============================================================================

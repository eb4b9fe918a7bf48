-------------------------- MODULE OperationAccess --------------------------
(***************************************************************************)
(* Who may run which operation, from the credential to the commit.         *)
(*                                                                         *)
(*  - operations/registry.py, core_ops.py: registration and authorize;     *)
(*  - operations/dispatch.py: one unit of work around one handler;         *)
(*  - tokens/: issue, revoke and presentation of access tokens;            *)
(*  - boundary/factories.py: the context of a token, session or operator;  *)
(*  - the surfaces: api_routes.py, the MCP facade, rheo token.             *)
(*                                                                         *)
(* A request is a sequence of transactions on two databases: the control   *)
(* plane (tokens, memberships, the registry row) and the workspace (its    *)
(* settings). Others run between any two, and the process may die there.   *)
(* A refusal before dispatch writes nothing and has no action. The state   *)
(* of a workspace changes under a request at any time, as                  *)
(* WorkspaceProvisioning says: each reading of it finds either. How long a *)
(* token lives is Settings' business; here its time runs out at any time.  *)
(***************************************************************************)
EXTENDS Naturals

CONSTANTS
    Accounts, Workspaces, Tokens, Handlers,
    Founders,       \* pairs of a workspace and the account it was provisioned for
    Invitations,    \* what rheo member add is called with
    Enabled,        \* the modules enabled in each workspace (core.module_state)
    Profile,
    Proposals,      \* what origins other than the core ask to register
    Kinds,          \* the kinds of token issued
    Lists,          \* explicit operation lists a caller may ask for
    Values          \* of a workspace setting

None == "none"
Roles == {"owner", "member", "operator"}

ASSUME FoundersAssumption ==
    /\ Founders \subseteq Accounts \X Workspaces
    /\ Invitations \subseteq Accounts \X Workspaces \X {"owner", "member"}
ASSUME KindsAssumption == Kinds \subseteq {"cli", "mcp"}
ASSUME NoneAssumption == None \notin Accounts \cup Workspaces \cup Tokens \cup Values

-----------------------------------------------------------------------------
(* Operations and their registration *)

Status == "core.workspace.status"
Set == "core.settings.set"
SetMember == "core.settings.set_member"
Issue == "core.token.issue"
Revoke == "core.token.revoke"
NoteGet == "harness.note.get"

Declaration(name, module, class, roles) ==
    [name |-> name, module |-> module, class |-> class, roles |-> roles, reserved |-> FALSE]

\* The five declarations of core_ops.py.
CoreOperations ==
    {Declaration(Status, "core", "read", Roles),
     Declaration(Set, "core", "mutate", {"owner"}),
     Declaration(SetMember, "core", "mutate", {"owner", "member"}),
     Declaration(Issue, "core", "mutate", Roles),
     Declaration(Revoke, "core", "mutate", Roles)}

CoreNames == {d.name : d \in CoreOperations}
Names == CoreNames \cup {e.decl.name : e \in Proposals}

\* The module of a declaration is the first part of its name.
ASSUME ProposalsAssumption ==
    \A e \in Proposals : e.origin # "core" /\ (e.decl.name \in CoreNames => e.decl.module = "core")

\* policy.py
NonTokenIssuable == {"core.approval.approve", "core.approval.refuse",
                     "core.standing_grant.create", "core.standing_grant.revoke", Issue, Revoke}

\* module_id_for_origin
ModuleOf(origin) == IF origin = "test_harness" THEN "harness" ELSE origin

\* Mutant: the prefix of the name is not compared with the origin.
AnyPrefix(origin, d) ==
    /\ d.module = "harness" => origin = "test_harness"
    /\ origin = "test_harness" => Profile = "test"
    /\ d.class # None
    /\ ~d.reserved

\* check_origin, then the safety class and the input model: one that declares a
\* reserved field, or allows extra ones, is refused.
Acceptable(origin, d) ==
    /\ d.module = ModuleOf(origin)
    /\ d.module = "harness" => origin = "test_harness"
    /\ d.module = "core" => origin = "core"
    /\ origin = "test_harness" => Profile = "test"
    /\ d.class # None
    /\ ~d.reserved

-----------------------------------------------------------------------------
VARIABLES
    registry,   \* the accepted declarations, each with its origin
    role,       \* control.membership
    setting,    \* core.workspace_setting: the value of one key in each workspace
    \* control.access_token with its operation rows
    holder, scope, kind, snapshot, revoked, expired,
    known,      \* the tokens whose value somebody was shown
    \* requests: next step, context, operation, the row still uncommitted, the
    \* token about to be inserted, the token written, and the outcome
    pc, ctx, op, draft, grant, written, outcome

rows == <<holder, scope, kind, snapshot>>
tokens == <<rows, revoked, expired, known>>
world == <<registry, role>>
request == <<pc, ctx, op, draft, grant, written, outcome>>
vars == <<world, setting, tokens, request>>

NoContext == [by |-> None, account |-> None, token |-> None, workspace |-> None,
              role |-> None, ops |-> {}]
NoGrant == [account |-> None, kind |-> None, ops |-> {}]

Init ==
    /\ registry = {}
    /\ role = [m \in Accounts \X Workspaces |-> IF m \in Founders THEN "owner" ELSE None]
    /\ setting = [w \in Workspaces |-> None]
    /\ holder = [t \in Tokens |-> None]
    /\ scope = [t \in Tokens |-> None]
    /\ kind = [t \in Tokens |-> None]
    /\ snapshot = [t \in Tokens |-> {}]
    /\ revoked = [t \in Tokens |-> FALSE]
    /\ expired = [t \in Tokens |-> FALSE]
    /\ known = {}
    /\ pc = [p \in Handlers |-> "idle"]
    /\ ctx = [p \in Handlers |-> NoContext]
    /\ op = [p \in Handlers |-> None]
    /\ draft = [p \in Handlers |-> None]
    /\ grant = [p \in Handlers |-> NoGrant]
    /\ written = [p \in Handlers |-> None]
    /\ outcome = [p \in Handlers |-> None]

\* OperationRegistry.register: a name is taken once; the same registration again
\* changes nothing and any other under that name is refused.
Register(origin, d) ==
    /\ Acceptable(origin, d)
    /\ \A e \in registry : e.decl.name # d.name
    /\ registry' = registry \cup {[origin |-> origin, decl |-> d]}
    /\ UNCHANGED <<role, setting, tokens, request>>

\* register_core_operations at startup.
RegisterCoreOperations ==
    /\ \A d \in CoreOperations : Acceptable("core", d) /\ \A e \in registry : e.decl.name # d.name
    /\ registry' = registry \cup {[origin |-> "core", decl |-> d] : d \in CoreOperations}
    /\ UNCHANGED <<role, setting, tokens, request>>

Registered == {e.decl : e \in registry}
RegisteredNames == {d.name : d \in Registered}

\* A process serves once startup has registered all it will accept.
Serving ==
    /\ CoreOperations \subseteq Registered
    /\ \A e \in Proposals : Acceptable(e.origin, e.decl) => e.decl.name \in RegisteredNames

-----------------------------------------------------------------------------
(* Package sets and what an issuer may grant *)

\* _role_permitted_set
RolePermitted(r) == {d.name : d \in {x \in Registered : r \in x.roles}}

ReadOnly == {d.name : d \in {x \in Registered : x.class = "read"}}

\* REGISTERED_TOOLS, filtered by the registry
AgentDefault == {Status, NoteGet} \cap RegisteredNames

CliFull == RegisteredNames \ NonTokenIssuable

SetNames == {"read_only", "agent_default", "cli_full"}
Explicit(S) == [set |-> None, list |-> S]
Selections == {[set |-> s, list |-> {}] : s \in SetNames} \cup {Explicit(S) : S \in Lists}

\* _expand: a list that names a non-issuable operation is refused.
Expand(sel) ==
    CASE sel.set = "read_only" -> ReadOnly
      [] sel.set = "agent_default" -> AgentDefault
      [] sel.set = "cli_full" -> CliFull
      [] OTHER -> IF sel.list \cap NonTokenIssuable = {} THEN sel.list ELSE {}

\* Mutant: the operator is not held to the target account's role.
OperatorUnbounded(c, a) ==
    IF c.by = "account" THEN RolePermitted(c.role)
    ELSE ReadOnly \cup AgentDefault \cup CliFull

\* _issuer_permitted_set: a session issues for its own account, the operator for
\* any member, within the package sets and that member's role.
IssuerPermitted(c, a) ==
    IF c.by = "account" THEN RolePermitted(c.role)
    ELSE (ReadOnly \cup AgentDefault \cup CliFull) \cap RolePermitted(role[<<a, c.workspace>>])

-----------------------------------------------------------------------------
(* Moves of a request *)

At(p, step) == pc[p] = step

Begin(p, c) ==
    /\ At(p, "idle")
    /\ Serving
    /\ pc' = [pc EXCEPT ![p] = "context"]
    /\ ctx' = [ctx EXCEPT ![p] = c]
    /\ UNCHANGED <<op, draft, grant, written, outcome>>

\* The dispatcher returns: what it held beyond the answer is gone.
Answer(p, state) ==
    /\ pc' = [pc EXCEPT ![p] = "answered"]
    /\ outcome' = [outcome EXCEPT ![p] = state]
    /\ ctx' = [ctx EXCEPT ![p] = NoContext]
    /\ draft' = [draft EXCEPT ![p] = None]
    /\ grant' = [grant EXCEPT ![p] = NoGrant]

Fail(p) ==
    /\ Answer(p, "not_done")
    /\ op' = [op EXCEPT ![p] = None]
    /\ written' = [written EXCEPT ![p] = None]

Forget(p) ==
    /\ pc' = [pc EXCEPT ![p] = "idle"]
    /\ ctx' = [ctx EXCEPT ![p] = NoContext]
    /\ op' = [op EXCEPT ![p] = None]
    /\ draft' = [draft EXCEPT ![p] = None]
    /\ grant' = [grant EXCEPT ![p] = NoGrant]
    /\ written' = [written EXCEPT ![p] = None]
    /\ outcome' = [outcome EXCEPT ![p] = None]

-----------------------------------------------------------------------------
(* From a credential to a context *)

\* _SURFACE_ACCEPTS. A runtime token is never issued yet.
Accepts(surface) == IF surface = "api" THEN {"cli", "mcp"} ELSE {"mcp", "runtime"}

\* Mutant: a revoked token passes.
LiveThoughRevoked(t, surface) ==
    /\ holder[t] # None
    /\ kind[t] \in Accepts(surface)
    /\ ~expired[t]
    /\ snapshot[t] \cap NonTokenIssuable = {}
    /\ role[<<holder[t], scope[t]>>] # None

\* resolve_token's checks.
Presentable(t, surface) ==
    /\ holder[t] # None
    /\ kind[t] \in Accepts(surface)
    /\ ~expired[t]
    /\ ~revoked[t]
    /\ snapshot[t] \cap NonTokenIssuable = {}
    /\ role[<<holder[t], scope[t]>>] # None

\* resolve_token, one transaction that ends with the touch of last_used_at. Whoever
\* knows the value may present it, as often as they like.
ResolveToken(p, t, surface) ==
    /\ t \in known
    /\ Presentable(t, surface)
    /\ Begin(p, [by |-> "token", account |-> holder[t], token |-> t, workspace |-> scope[t],
                 role |-> role[<<holder[t], scope[t]>>], ops |-> snapshot[t]])
    /\ UNCHANGED <<world, setting, tokens>>

\* context_from_session: a live session of a in w. It holds every operation.
ResolveSession(p, a, w) ==
    /\ role[<<a, w>>] # None
    /\ Begin(p, [by |-> "account", account |-> a, token |-> None, workspace |-> w,
                 role |-> role[<<a, w>>], ops |-> Names])
    /\ UNCHANGED <<world, setting, tokens>>

\* context_for_operator, from the rheo command
ResolveOperator(p, w) ==
    /\ Begin(p, [by |-> "operator", account |-> None, token |-> None, workspace |-> w,
                 role |-> "operator", ops |-> Names])
    /\ UNCHANGED <<world, setting, tokens>>

-----------------------------------------------------------------------------
(* Dispatch *)

\* OperationRegistry.authorize
Authorized(c, name) ==
    \E d \in Registered :
        /\ d.name = name
        /\ name \in c.ops
        /\ d.module = "core" \/ d.module \in Enabled[c.workspace]
        /\ c.role \in d.roles

\* What each entry calls: the api surface any name, the operator the operations of
\* its commands. call_tool calls what list_tools shows, a part of what the api does.
Callable(c, name) == c.by = "operator" => name \in {Issue, Revoke}

\* From the context to the open unit of work. The workspace's registry row is read
\* by _active_workspace_modules and again by open_unit_of_work: the request ends if
\* either finds it inactive. Authorize and the input's validation read the context
\* and the registry alone.
Dispatch(p, name) ==
    /\ At(p, "context")
    /\ Callable(ctx[p], name)
    /\ Authorized(ctx[p], name)
    /\ pc' = [pc EXCEPT ![p] = "handler"]
    /\ op' = [op EXCEPT ![p] = name]
    /\ UNCHANGED <<ctx, draft, grant, written, outcome>>
    /\ UNCHANGED <<world, setting, tokens>>

\* The request is refused on its way, or the handler raises, refuses or returns the
\* wrong type, or the insert of a token fails: the unit of work is rolled back.
Refuse(p) ==
    /\ pc[p] \in {"context", "handler", "insert"}
    /\ Fail(p)
    /\ UNCHANGED <<world, setting, tokens>>

\* The operations that change nothing of this model, to their commit: readings, and
\* _settings_set_member, which writes the account's own row and refuses a token.
PlainHandler(p) ==
    /\ At(p, "handler")
    /\ op[p] \notin {Set, Issue, Revoke}
    /\ op[p] = SetMember => ctx[p].by = "account"
    /\ Answer(p, "succeeded")
    /\ UNCHANGED <<op, written, world, setting, tokens>>

\* _settings_set: the row is written inside the unit of work.
SettingsSet(p, v) ==
    /\ At(p, "handler")
    /\ op[p] = Set
    /\ draft' = [draft EXCEPT ![p] = v]
    /\ pc' = [pc EXCEPT ![p] = "commit"]
    /\ UNCHANGED <<ctx, op, grant, written, outcome>>
    /\ UNCHANGED <<world, setting, tokens>>

\* issue_handler up to its own transaction: the survivors, from the registry and
\* the memberships as they are now.
IssueHandler(p, a, sel, k) ==
    LET survivors == (Expand(sel) \cap IssuerPermitted(ctx[p], a)) \ NonTokenIssuable
    IN  /\ At(p, "handler")
        /\ op[p] = Issue
        /\ \/ ctx[p].by = "account" /\ a = ctx[p].account
           \/ ctx[p].by = "operator"
        /\ role[<<a, ctx[p].workspace>>] # None
        /\ survivors # {}
        /\ grant' = [grant EXCEPT ![p] = [account |-> a, kind |-> k, ops |-> survivors]]
        /\ pc' = [pc EXCEPT ![p] = "insert"]
        /\ UNCHANGED <<ctx, op, draft, written, outcome>>
        /\ UNCHANGED <<world, setting, tokens>>

\* Mutant: the operation rows are not written.
InsertWithoutRows(p, t) ==
    /\ At(p, "insert")
    /\ holder[t] = None
    /\ holder' = [holder EXCEPT ![t] = grant[p].account]
    /\ scope' = [scope EXCEPT ![t] = ctx[p].workspace]
    /\ kind' = [kind EXCEPT ![t] = grant[p].kind]
    /\ grant' = [grant EXCEPT ![p] = NoGrant]
    /\ written' = [written EXCEPT ![p] = t]
    /\ pc' = [pc EXCEPT ![p] = "commit"]
    /\ UNCHANGED <<ctx, op, draft, outcome, snapshot>>
    /\ UNCHANGED <<world, setting, revoked, expired, known>>

\* insert_access_token and its operation rows: one control-plane transaction,
\* committed before the unit of work is.
InsertAccessToken(p, t) ==
    /\ At(p, "insert")
    /\ holder[t] = None
    /\ holder' = [holder EXCEPT ![t] = grant[p].account]
    /\ scope' = [scope EXCEPT ![t] = ctx[p].workspace]
    /\ kind' = [kind EXCEPT ![t] = grant[p].kind]
    /\ snapshot' = [snapshot EXCEPT ![t] = grant[p].ops]
    /\ grant' = [grant EXCEPT ![p] = NoGrant]
    /\ written' = [written EXCEPT ![p] = t]
    /\ pc' = [pc EXCEPT ![p] = "commit"]
    /\ UNCHANGED <<ctx, op, draft, outcome>>
    /\ UNCHANGED <<world, setting, revoked, expired, known>>

\* Mutant: any token of any account may be revoked.
RevocableByAnyone(c, t) == holder[t] # None

\* revoke_handler: a token of this workspace, and of this account unless the
\* operator asks.
Revocable(c, t) ==
    /\ holder[t] # None
    /\ scope[t] = c.workspace
    /\ c.by = "account" => holder[t] = c.account

RevokeHandler(p, t) ==
    /\ At(p, "handler")
    /\ op[p] = Revoke
    /\ Revocable(ctx[p], t)
    /\ revoked' = [revoked EXCEPT ![t] = TRUE]
    /\ written' = [written EXCEPT ![p] = t]
    /\ pc' = [pc EXCEPT ![p] = "commit"]
    /\ UNCHANGED <<ctx, op, draft, grant, outcome>>
    /\ UNCHANGED <<world, setting, rows, expired, known>>

\* UnitOfWork.commit
Commit(p) ==
    /\ At(p, "commit")
    /\ setting' = IF op[p] = Set THEN [setting EXCEPT ![ctx[p].workspace] = draft[p]] ELSE setting
    /\ Answer(p, "succeeded")
    /\ UNCHANGED <<op, written, world, tokens>>

\* Mutant: the row goes out with a failing commit.
CommitFailsHalfWay(p) ==
    /\ At(p, "commit")
    /\ setting' = IF op[p] = Set THEN [setting EXCEPT ![ctx[p].workspace] = draft[p]] ELSE setting
    /\ Fail(p)
    /\ UNCHANGED <<world, tokens>>

\* The commit fails: nothing of the workspace changes; a token row stays, and a
\* revocation too.
CommitFails(p) ==
    /\ At(p, "commit")
    /\ Fail(p)
    /\ UNCHANGED <<world, setting, tokens>>

\* The response arrives: the value of a new token is shown once.
Reply(p) ==
    /\ At(p, "answered")
    /\ known' = IF op[p] = Issue THEN known \cup {written[p]} ELSE known
    /\ Forget(p)
    /\ UNCHANGED <<world, setting, rows, revoked, expired>>

\* The process dies or the response is lost.
Die(p) ==
    /\ ~At(p, "idle")
    /\ Forget(p)
    /\ UNCHANGED <<world, setting, tokens>>

-----------------------------------------------------------------------------
(* The rest of the world *)

\* insert_membership_if_absent, from rheo member add
AddMember(a, w, r) ==
    /\ role[<<a, w>>] = None
    /\ role' = [role EXCEPT ![<<a, w>>] = r]
    /\ UNCHANGED <<registry, setting, tokens, request>>

\* expires_at passes.
Expire(t) ==
    /\ holder[t] # None
    /\ expired' = [expired EXCEPT ![t] = TRUE]
    /\ UNCHANGED <<world, setting, rows, revoked, known, request>>

Next ==
    \/ RegisterCoreOperations
    \/ \E e \in Proposals : Register(e.origin, e.decl)
    \/ \E p \in Handlers :
          \/ \E t \in Tokens, surface \in {"api", "mcp"} : ResolveToken(p, t, surface)
          \/ \E w \in Workspaces : ResolveOperator(p, w) \/ \E a \in Accounts : ResolveSession(p, a, w)
          \/ \E name \in Names : Dispatch(p, name)
          \/ Refuse(p)
          \/ PlainHandler(p)
          \/ \E v \in Values : SettingsSet(p, v)
          \/ \E a \in Accounts, sel \in Selections, k \in Kinds : IssueHandler(p, a, sel, k)
          \/ \E t \in Tokens : InsertAccessToken(p, t) \/ RevokeHandler(p, t)
          \/ Commit(p) \/ CommitFails(p) \/ Reply(p)
          \/ Die(p)
    \/ \E m \in Invitations : AddMember(m[1], m[2], m[3])
    \/ \E t \in Tokens : Expire(t)

Spec == Init /\ [][Next]_vars

-----------------------------------------------------------------------------
(* Properties *)

Steps == {"idle", "context", "handler", "insert", "commit", "answered"}
Contexts == [by : {None, "token", "account", "operator"}, account : Accounts \cup {None},
             token : Tokens \cup {None}, workspace : Workspaces \cup {None},
             role : Roles \cup {None}, ops : SUBSET Names]
Grants == [account : Accounts \cup {None}, kind : {"cli", "mcp", None}, ops : SUBSET Names]

\* Every row and request holds values of its column.
TypeOK ==
    /\ registry \subseteq [origin : {"core"} \cup {e.origin : e \in Proposals},
                           decl : CoreOperations \cup {e.decl : e \in Proposals}]
    /\ role \in [Accounts \X Workspaces -> {"owner", "member", None}]
    /\ setting \in [Workspaces -> Values \cup {None}]
    /\ holder \in [Tokens -> Accounts \cup {None}] /\ scope \in [Tokens -> Workspaces \cup {None}]
    /\ kind \in [Tokens -> {"cli", "mcp", None}] /\ snapshot \in [Tokens -> SUBSET Names]
    /\ revoked \in [Tokens -> BOOLEAN] /\ expired \in [Tokens -> BOOLEAN]
    /\ known \subseteq Tokens
    /\ pc \in [Handlers -> Steps] /\ ctx \in [Handlers -> Contexts]
    /\ op \in [Handlers -> Names \cup {None}] /\ draft \in [Handlers -> Values \cup {None}]
    /\ grant \in [Handlers -> Grants] /\ written \in [Handlers -> Tokens \cup {None}]
    /\ outcome \in [Handlers -> {None, "succeeded", "not_done"}]

\* No other origin's registration changes what a core operation requires
\* (check_origin).
CoreOperationsAreCore ==
    \A e \in registry : e.decl.name \in CoreNames => e.decl \in CoreOperations

\* A workspace setting changes only by the committed request of an owner of that
\* workspace, by session or by a token of theirs, and that request is told so.
SettingsSetByOwner ==
    [][\A w \in Workspaces : setting'[w] # setting[w] =>
          \E p \in Handlers :
              /\ ctx[p].workspace = w /\ ctx[p].account # None
              /\ role[<<ctx[p].account, w>>] = "owner"
              /\ pc'[p] = "answered" /\ outcome'[p] = "succeeded"]_vars

\* A token is revoked by its own account's session or by the operator, in its own
\* workspace; no token revokes another (revoke_handler and the policy).
RevokedByEntitled ==
    [][\A t \in Tokens : revoked'[t] # revoked[t] =>
          \E p \in Handlers :
              /\ op[p] = Revoke /\ written'[p] = t
              /\ ctx[p].workspace = scope[t]
              /\ ctx[p].by = "operator" \/ (ctx[p].by = "account" /\ ctx[p].account = holder[t])]_vars

\* Success is told only when the effect is there: the token exists for good, the
\* revocation stands.
SuccessMeansDone ==
    \A p \in Handlers : outcome[p] = "succeeded" =>
        /\ op[p] = Issue => holder[written[p]] # None /\ snapshot[written[p]] # {}
        /\ op[p] = Revoke => revoked[written[p]]

\* A context is what the rows say: a token's holds its account, workspace, role
\* and snapshot; an operation under way is one its context may run.
ContextGrounded(p) ==
    /\ ctx[p].workspace # None
    /\ ctx[p].by = "token" =>
          /\ ctx[p].token # None /\ holder[ctx[p].token] = ctx[p].account
          /\ scope[ctx[p].token] = ctx[p].workspace /\ snapshot[ctx[p].token] = ctx[p].ops
    /\ IF ctx[p].by = "operator" THEN ctx[p].role = "operator"
       ELSE /\ ctx[p].by # None /\ ctx[p].account # None /\ ctx[p].role # None
            /\ ctx[p].role = role[<<ctx[p].account, ctx[p].workspace>>]
    /\ ~At(p, "context") => Authorized(ctx[p], op[p])

GrantGrounded(p) ==
    /\ op[p] = Issue
    /\ grant[p].account # None
    /\ role[<<grant[p].account, ctx[p].workspace>>] # None
    /\ grant[p].ops # {}
    /\ grant[p].ops \subseteq RolePermitted(role[<<grant[p].account, ctx[p].workspace>>])
    /\ grant[p].ops \cap NonTokenIssuable = {}

RequestGrounded(p) ==
    /\ pc[p] \in {"idle", "answered"} => ctx[p] = NoContext
    /\ pc[p] \notin {"idle", "answered"} => ContextGrounded(p)
    /\ At(p, "insert") => GrantGrounded(p)
    /\ pc[p] # "answered" => outcome[p] = None
    /\ (pc[p] \in {"commit", "answered"} /\ op[p] \in {Issue, Revoke}) =>
          /\ written[p] # None /\ holder[written[p]] # None
          /\ op[p] = Revoke => revoked[written[p]]

TokenGrounded(t) ==
    /\ (holder[t] = None) <=> (scope[t] = None)
    /\ holder[t] = None => snapshot[t] = {} /\ ~revoked[t] /\ t \notin known
    /\ holder[t] # None =>
          /\ role[<<holder[t], scope[t]>>] # None
          /\ snapshot[t] # {}
          /\ snapshot[t] \subseteq RolePermitted(role[<<holder[t], scope[t]>>])
          /\ snapshot[t] \cap NonTokenIssuable = {}

\* What every step of a request and of its neighbours keeps true together.
IInv ==
    /\ TypeOK
    /\ CoreOperationsAreCore
    /\ \A p \in Handlers : RequestGrounded(p)
    /\ \A t \in Tokens : TokenGrounded(t)

\* The requests, surfaces and registry together keep the promise of a token.
Authority == INSTANCE TokenAuthority WITH
    permits <- [r \in Roles |-> RolePermitted(r)], confers <- snapshot,
    withdrawn <- revoked, bearer <- [p \in Handlers |-> ctx[p].token],
    Withheld <- NonTokenIssuable
ImplementsAuthority == Authority!Spec

=============================================================================

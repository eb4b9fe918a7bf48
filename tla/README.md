# TLA+ specifications of rheo-stream

Specifications of the core and of the web tier's sign-in path: what several
processes, requests, threads and browsers do to the same rows, pools, files and
cookies. Each is model-checked with TLC on small instances, and every safety
property that holds there is also proved with TLAPS for every instance.

## The system and its parts

| Part | State | Operations | What makes it hard |
| --- | --- | --- | --- |
| Provisioning and repair (`storage/provisioning.py`) | `control.workspace` row, `control.membership`, the workspace database | `provision`, `repair`, `rheo member add` | five steps, one or two commits each; crash between any two; rival walks |
| Migration orchestrator (`migrations/orchestrator.py`, `startup.py`, `rheo migrate`) | Alembic revision of every workspace database, registry state | `run_chain`, `migrate_workspace`, `migrate_active_workspaces` | several code versions at once, advisory lock, failing chains |
| Workspace routing and unit of work (`storage/routing.py`, `storage/backend.py`) | none of its own | `active_workspace`, `open_unit_of_work`, commit, rollback | the row is read, then used |
| Web sessions (`auth_routes.py`, `sessions/`) | `control.session`, `session_secret`, `session_grant`, the browsers' cookies | login, callback, continue on two hosts, logout, workspace switch | a redirect protocol across hosts; replays, lost responses |
| Accounts (`identity/accounts.py`) | `control.account`, `control.identity` | `resolve_or_create`, `rheo account create` | first-account check under a lock that one writer does not take |
| Engine pool (`storage/pools.py`) | LRU of engines, their connections | `engine_for`, enter and exit of a unit of work | eviction against threads holding an engine; nested checkouts |
| Tokens (`tokens/`) | `control.access_token`, its operation snapshot | issue, present, revoke | two transactions on two databases |
| Operations (`operations/`, `boundary/`, the api and MCP surfaces) | registry of operations | `register`, `authorize`, `dispatch` | refusal order; contexts that outlive their grounds |
| Settings (`settings/`) | declarations, `deployment.toml`, environment, override rows | `resolve`, `validate_override`, encode and decode | floors applied on read and checked on write; rows older than the code |
| URL routing and the web tier (`routing/`, `apps/web`) | the deployment's routing keys, the web process's copy of them | `url_for` and its mirror, middleware, pages | written in two languages; redirects across hosts |
| Secret store (`secrets/`), internal listener | files and variables | `resolve`, `check_env_references`, the shared-secret guard | what a scope's prefix covers |
| Refs, data root, doctor | little or none | lookups, I/O | pure functions or I/O |

The parts meet in the control plane. A request becomes a context (from a
session, a token or the operator), the context names a workspace, routing reads
the registry row, and only an `active` row is served. So the registry's promise
is the central one: *a workspace in service is complete*. The orchestrator,
the walks and the serving replicas write and read that row and the database
with no transaction across the two. Above it stand two more: *what a request does
stays within what its credential conferred*, and *a person comes back, signed
in, where they wanted to go*.

`PROJECT.json` lists the components with their status, the hazards at their
source lines, and the lines that every definition models.

## Modules

`WorkspaceLifecycle` - the abstract specification of what the registry promises:
a workspace is created once for one owner, enters service only complete, leaves
it only for `unavailable`, and returns only through provisioning.

`WorkspaceProvisioning` - provisioning, repair, the orchestrator, startup and
serving, in one module because they share the registry row and the databases.

 * `state`, `detail`, `slug`, `role` are the columns of the registry row and the
   memberships; `exists`, `revision`, `composition`, `settings` describe the
   workspace database (one representative `explicit_per_workspace` key).
 * `pc`, `job`, `ws`, `head`, `seen`, `note`, `todo` describe a process: the
   transaction it comes to next and the values it has read. Every action is one
   transaction, or one autocommit statement such as `CREATE DATABASE`; the effect
   of a step and the `_record_step` after it are two actions, as they are two
   commits.
 * `run_chain` is two actions, `BeginChain` (lock, then read the revision) and
   `UpgradeToHead`/`RefuseSchemaAhead`/`ChainError` (the end of the
   transaction), so that the lock matters.
 * Alembic revisions are numbers in one line of descent; "ahead" is "greater".
   A process's `head` stays fixed while it runs.
 * `provisionedFor` and `lastChain` are history variables. No action's guard
   reads them.
 * `Crash` ends a process at any point. `ChainError` is any exception of a
   chain, a refused connection included.
 * The `template_database` of the test profile, and the `migrating` and
   `restoring` states that no code writes, are left out.

`WebSessions` - the sign-in protocol. `account` to `active` are columns of
`control.session`; `secrets` is `control.session_secret`; `grantOf` to `used` are
columns of `control.session_grant`; `oauthState`, `cookie` and `continue` are
the browsers' cookies. A request (`pc`, `from`, `sess`, `host`, `nonce`, `who`,
`where`) is a sequence of transactions and may be lost between any two, or after
the last. `givenTo`, `begunIn`, `begunAt`, `writtenBy` and `redeemed` are history;
no guard reads them, but for `givenTo`, which tells the nonces that have been drawn
from those that have not. Every handler is served on every application host, as in
the code: a login and its callback on a host other than the identity host make a
session of that host. A URL with a state, a nonce or a code may be opened in
any browser, any number of times. What the model takes as given is that nobody
guesses a secret, a code or a nonce. Memberships are constant (no code removes
one). The check of the workspace's state in `context_from_session` is the subject
of `WorkspaceProvisioning`.

`TokenAuthority` - the abstract specification of what a token promises,
whoever issued it and however requests overlap: it confers part of what its
account's role permits in one workspace, never one of the withheld operations,
never more later, and once withdrawn it is not exercised again.

`OperationAccess` - registration, contexts, authorisation, dispatch, the handlers
of the core's own operations, and tokens, in one module because a request runs
through all of them.

 * `registry` is the operation registry; `role` is `control.membership`; `holder`,
   `snapshot` and their neighbours are `control.access_token` and its operation
   rows; `setting` stands for the workspace database.
 * A request is a context and a step; the two databases commit separately and a
   request may die, lose its connection or lose its answer between them.
 * The registry state of a workspace is a choice at each reading, as
   `WorkspaceProvisioning` has what it can be.

`AccountSignup` - `resolve_or_create` statement by statement at READ COMMITTED, with
the advisory lock, `rheo account create` (which does not take it), `sync_providers`
and connections that break at any point.

`EnginePool` - the LRU of engines, eviction and disposal outside the lock,
`dispose_all` at shutdown, checkouts with SQLAlchemy's limits, and the second unit of
work that `core.token.issue` opens to read settings while the dispatcher's is open.
An engine that has left the cache stays usable for a thread that was handed it
before; what that leaves in its pool stays open until Python collects the engine, at
some time that nothing in the code fixes (`Collect`). `reused` is the history of such
engines. `Generations` bounds how many engines of one database there are at a
time; when all are taken, a miss waits.

`Settings` - one key from its declaration to the value a request reads. A text is a
sequence of comma-separated fields and a value carries its type, so encoding,
decoding and mistyped values are modelled by what they do. `Register`, `Restart`
(another version, another environment), `EditToml`, the two write operations,
provisioning's default row, and rows from elsewhere (a restored database).
Reading is the state function `Resolved`. One key is enough: keys do not interact.

`Secrets` - references, scopes, both backends and the startup check as functions.

`Routing` - the topology in the core (`url_for`, names with underscores) and in the
web tier (`urlFor`, camel case), the link builders, the middleware, the two pages,
the internal listener and the identity routes, seen from one browser that follows
redirects. Where `WebSessions` has the rows and races of these routes with the
URLs left out, this has the URLs with one navigation at a time; `Change` counts
what happens to the deployment, the processes and the sessions meanwhile.
Paths are sequences of tokens in which `/` is a token.

`MCWorkspaceProvisioning`, `MCWebSessions`, `MCOperationAccess` and
`MCConfiguration` give instances for TLC. `MCConfiguration` instantiates
`Settings` and `Routing` with `Secrets` together: they touch only in the resolved
routing keys, which have deployment scope, so that no row reaches them, and which
`Routing` lets change at any time. A behaviour therefore is one of the settings
or one of the routing (`part`). `WorkspaceProvisioningProofs`, `WebSessionsProofs`,
`AccountSignupProofs`, `OperationAccessProofs`, `EnginePoolProofs`, `SettingsProofs`
and `RoutingProofs` (which also has what concerns `Secrets`) hold the theorems, each
about the module it is named after. Operators whose comment says "Mutant" are
plausible bugs in the definition that follows them. They are used only to show
that a property notices them.

## What the runs check

| Run | Instance | Result |
| --- | --- | --- |
| `provisioning` | 1 workspace, 2 operator processes, 1 replica, code versions 1 and 2, 3 accounts of which 1 has no row | about a million states; all hold |
| `provisioning_live` | 1 workspace, 2 operator processes, 2 versions, fairness | `RepairedForGood` holds |
| `provisioning_startup` | 2 workspaces, 1 operator process, 1 replica, fairness | `StartupCompletes` holds |
| `provisioning_rerun` | as `provisioning` | `FailedChainRefusedUntilRerun` is violated |
| `provisioning_ahead` | as `provisioning` | `NeverServedAheadOfCode` is violated |
| `sessions` | 2 browsers, 3 hosts, 1 session, 1 grant, 3 nonces, 2 requests, clock 0..1 | 850,000 states up to renaming; all hold |
| `sessions_secret` | 1 browser, 2 hosts, 2 grants | `SecretExistsUnreachable` is violated |
| `access` | 2 accounts, 2 workspaces, 1 token, 2 requests, 4 proposed registrations | 650,000 states up to renaming; all hold |
| `signup` | 2 accounts, 2 identities, 2 processes, fairness | 43,000 states; all hold |
| `pool` | 2 databases, 2 threads, cache of 1, pools of 2, 3 engines of a database at a time, fairness | 440,000 states; all hold |
| `configuration` | 14 declarations, 9 values, 3 texts; 4 deployments, 2 environments, 10 references, 2 changes, fairness | 270,000 states; all hold |
| `workspace_pick` | as `configuration`, 1 change | `WorkspaceCanBePicked` is violated |

Safety of a workspace:

 * `ActiveIsReady` - an active workspace has its database, schema, composition
   row and settings, whoever built them in whatever order.
 * `RepairSkipsOnlyDoneSteps` - `state_detail` never runs ahead of the database.
 * `OneProvisionedOwner` - retries add no owner.
 * `ActiveLeftOnlyForUnavailable` - no late walk stamps an active row (issue #23).
 * `SchemaNeverGoesBack` - versions never interleave inside a chain.
 * `ChosenSettingKept` - a late walk does not reset a setting.
 * `ImplementsLifecycle` - the whole refines `WorkspaceLifecycle`.

Sign-in:

 * `CookieCameHere` - a browser has a cookie on a host only of a session that it
   began and that was called back there, or of one that came by a grant for that
   host, written by the browser that began the session and redeemed with a nonce given
   to this browser. The nonce of a continue URL is not tied to the browser that opens
   it on the identity host, so the two browsers may differ: a signed-in browser that
   opens such a URL of another one writes a grant which that other one can redeem. A
   cookie on the identity host is always of a session begun in that browser.
 * `HostSecretHasOrigin` - a secret is for the host of the session's callback or, only
   if that was the identity host, comes from a used grant for its own host.
 * `GrantRedeemedOnce` - by however many requests a code is presented.
 * For accounts `FirstLoginOnly`, `LoginNeverDuplicates`, `AccountsMatchIdentities`,
   `AnswerIsOwnAccount`, and `SignInEnds`.

Access:

 * `ImplementsAuthority` - the whole refines `TokenAuthority`.
 * `SuccessMeansDone`, `SettingsSetByOwner` - with two databases and no
   transaction across them, an answer of success means that the effect is there,
   and a workspace's setting changes only by a request of an owner that is told so.
 * `RevokedByEntitled`, `CoreOperationsAreCore` - who revokes; who registers.

Resources:

 * `ConnectionsInOrder`, `CacheInOrder` - an eviction never takes a connection from
   under a thread, and every pool and the cache keep to their sizes.
 * `EvictedIsClosed` - what leaves the cache is closed, unless a thread that had
   been handed the engine connects to it after it was disposed of.
 * `RequestEnds` - threads that hold a connection each and wait for a second get out
   through the pool's timeout.

Configuration:

 * `NeverLooser`, `WriteMatchesRead` - `apply_floor` and `is_looser` are two
   functions; what one accepts is what the other leaves alone, and no row of any
   age loosens the deployment's value of now.
 * `RowsNeverBreakReading` - a row of another version, scope or type is dropped.
 * `OneTopology`, `OwnLinksAccepted`, `ComesBack`, `NavigationEnds` - the core and
   the web tier build the same URLs, each accepts what the other builds, and a
   navigation ends, where it was meant to.
 * `SecretsStayInScope` - prefixes end at whole segments.

Bounds. Two walks and one orchestrator are the smallest set in which a walk is
overtaken by another and by a failing migration at once; two versions are
needed for "ahead". One workspace is enough for the safety runs because
workspaces share nothing except slugs and the processes that walk over them,
and the theorems cover the rest; the startup run has two, because its list is
the point. For sign-in two browsers, a second application host and two
concurrent requests are what the properties tell apart; one grant can be written for a
nonce of either browser, presented on each host, replayed and redeemed by two
requests at once. `access` has two
workspaces so that a credential of one can be tried on the other, and two requests
so that one overtakes the other between its commits; the one kind of token it
issues is `mcp` (`cli` differs in a set and a surface). `signup` needs two people
and two processes; `pool` a cache smaller than the set of databases and a pool
that two nested requests exhaust. `configuration` offers each kind of floor, each
scope, values on both sides of a floor and texts that decode, do not decode and
decode to nothing; both modes and both schemes; and two changes (`MaxChanges`),
so that a deployment changes and changes back under a navigation. In `pool` three
engines of a database leave room for one in the cache while each thread still has an
evicted one. The supplies of
ids and the clock are finite (`Sessions`, `Grants`, `Nonces`, `LastTick`,
`Tokens`), so the sessions and access runs may end and check no deadlock. The
others do check it.

### Disagreements between the code and its documentation

 * `provisioning_rerun`: `_record_step` also accepts `unavailable`, so that
   repair can resume. A walk already past `migrate_core` therefore overwrites the
   `unavailable` that a failed migration has just written, and the workspace is
   served without the documented re-run of the chain.
 * `provisioning_ahead`: the ahead-of-code check is made when a chain runs. A
   replica that is already up serves a workspace that a newer one has migrated.
 * `sessions_secret`: `session_secret_exists`, called unreachable, follows from
   a lost response.
 * `workspace_pick`: a fresh session has no workspace; the shell renders the
   refusal `workspace_unselected` as signed out and offers the switcher only to a
   session that has one. A comment in `auth_routes.py` takes care that a freshly
   signed-in account can "reach the shell to pick one".

Met while modelling, without a run:

 * The storage document says that no caller but `create` and `repair` changes
   `state` (the orchestrator does), and `workspace_composition` is written by a
   walk only, so it keeps the old version after `rheo migrate`.
 * Nothing calls `touch`, so a session's idle window runs from login
   (`identity-and-topology.md:74`, `factories.py:197-199`).
 * In subdomain mode a dead `rheo_session` cookie on an application host keeps the
   middleware from the continue protocol; no code clears it on the next request, as
   the topology document has it.
 * `normalize_host` drops a port and lowers the case, `base_host` keeps both: with
   `compose.yaml`'s `localhost:3000` every return is `invalid_return`. The
   instances give `base_host` no port.
 * The return's scheme is not compared; the core serves `/auth/*` while
   `routing.identity.path` may say otherwise, in which case the middleware
   redirects to itself; prefixes are not validated. The instances keep `/auth`.
 * `encode_text` is not the inverse of `decode_text` for list items that hold a comma or
   surrounding blanks; `WriteMatchesRead` is stated for the others (`Clean`).
 * `token_max_days` of zero or less is accepted.
 * `pools.py` says that at most `pool_cache_size` connection pools are open. A thread
   handed an engine that another evicts and disposes of before the first connects
   opens a new pool of it, which nothing disposes of again (`reused`, the exception
   in `EvictedIsClosed`).
 * Connections of an evicted engine that are out count beside those of the cached
   ones; `pool_max_connections = 1` makes `core.token.issue` time out.
 * The topology document has membership removal revoke tokens; no code removes a
   membership. `rheo token revoke` is refused while the workspace is not active.
 * `sync_providers` leaves a row enabled when the provider is switched off; nothing
   reads it.

## Fairness

`ProcessFairness` (provisioning): a running process takes its next step (weak
fairness of `Progress`, failures not included), and a process waiting for the
advisory lock gets it (strong fairness of `BeginChain`: Postgres queues waiters).
The startup run needs nothing else. It assumes neither success of a chain nor
absence of crashes: a crashed replica counts as stopped.

`RepairFairness`: the operator repeats `rheo workspace repair` with current code
while a workspace is not active. `RepairedForGood` promises nothing until faults
cease: its premise is that eventually only calm steps occur. Both are needed, as
the code itself never retries.

`FairSpec` of `AccountSignup`: the database runs what it has accepted (weak) and
serves waiters in turn (strong, `Wait`). `Spec` of `EnginePool`: a thread takes its
next step (weak); a wait for a connection has a timeout, which is such a step. Nothing
is assumed of when an engine is collected.
`Spec` of `MCConfiguration`: redirects are followed and requests answered (weak
fairness of `NavigationStep`), the provider's page is answered or given up; no
fairness of the operator or of a person's clicks.

## What is proved

Every safety property of the passing runs is also a theorem, for every value of the
constants that the assumptions below allow. `PROJECT.json` lists the theorems; the
argument of each module follows.

**Workspaces** (`WorkspaceProvisioningProofs`; any workspaces, accounts, processes
and versions): `TypeCorrect`, `ServedIsReady`, `RepairIsSound`, `OwnerIsUnique`,
`ActiveIsNotStampedOver`, `SchemaIsMonotone`, `SettingIsKept` and `Refinement`.

All rest on `Invariance`, `Spec => []IInv`. `ActiveIsReady` is not inductive: a
walk about to activate reads only the registry, and others rewrite the registry
at any time. What stays true is that effects are never undone. `IInv`
therefore says of each process that the effects of all steps before its own are
there (`StandsOnDone`), of each row that it claims no more than what is there
(`RowTellsTruth`), and of each database that one transaction at a time is
between reading the revision and writing it (`OneChainPerDatabase`). The
lemmas about `DoneThrough` say that effects only grow; each action then has a
lemma that says which process or row it moves.

**Sign-in** (`WebSessionsProofs`; any browsers, hosts, sessions, grants, nonces and
requests): `TypeCorrect`, `CookiesAccountedFor`, `GrantsAreSingleUse` and
`SecretsHaveOrigin`. A cookie is set steps after the row it stands for was read, so
the invariant follows the session from its callback: a nonce in a cookie was
given to that browser; a grant was written by the browser in which its session was
begun, and only for a session called back on the identity host, since only there is
the cookie that the continue reads; a request under way has a session that came to
its browser on its host (`CameTo`). `CameToLasts` shows that this stays true as others
write rows. If each browser opens only continue URLs with its own nonces, the theorem
gives that each cookie is of a session begun in that browser; the code
does not enforce that, and nothing here assumes it.

**Accounts** (`AccountSignupProofs`; any accounts, identities and processes):
`AccountsAlwaysMatch`, `OwnAccountAnswered`, `OneFirstLogin`, `LoginsNeverDuplicate`.
None is inductive, because a commit writes what its process chose steps ago.
`ProcessLinked` says what a process between its steps may rely on: where the code
holds the lock it has it; what it has inserted is nobody else's; while it counts as
the first, no login has committed; and what it did not find at the re-check, only
the command, which takes no lock, can have written since.

**Access** (`OperationAccessProofs`; any accounts, workspaces, tokens, requests,
modules and proposals): `CoreStaysCore`, `SuccessIsTrue`, `OwnersSetSettings`,
`EntitledRevoke`, and `Refinement` of `TokenAuthority`. A request acts on a context
built earlier, so the invariant says of each context, grant and token row what it
was grounded in. It survives the other requests because nothing it rests on is ever
taken back: `AlwaysGrows` proves that of every step (registrations, memberships,
token rows, revocations). In the refinement the steps of a request before its commit
map to stuttering; the commit of an issue maps to `Confer`, that of a revocation to
`Withdraw`, and `ResolveToken`, where a token becomes a context, to `Exercise`.

**Pool** (`EnginePoolProofs`; any databases and sizes, any finite set of threads):
`ConnectionsStayInOrder`, `CacheStaysInOrder`, `EvictionCloses`. The three
invariants are inductive together and not apart: that a disposed pool has nothing
left needs that the engine on its way to disposal has left the cache, and the cache
needs that an engine handed out is one of it or one that nothing refers to. The
longest part counts: taking a connection adds one element to `Out`, giving it back
removes one, and disposal empties it.

**Settings** (`SettingsProofs`; any declarations, values and texts): `FloorsHold`,
`ReadingNeverBreaks`, `WritesAreRead`. The machine's own invariant (`InOrder`) is
plain; the work is in lemmas about the reading and writing functions: for each floor,
what `ApplyFloor` leaves alone is what `IsLooser` lets through, and for each type,
`DecodeText` undoes `EncodeText` (for lists, of `Clean` items). Lists of any length
need an induction that the provers do not do by themselves; `LeastNumber` (a
non-empty set of numbers has a least one, from the library's `WFMin`) gives it by
hand: the shortest counterexample is shown not to be one. This is done for
`FlattenSeq` and for the positions `ThoseIn` keeps.

**Routing and secrets** (`RoutingProofs`; any deployments, paths and references):
`TopologiesStayOne`, `NavigationsComeBack`, `OwnLinksHold`, `SecretsAlwaysInScope`.
The first and the last are facts about operators: the two joins are one function,
paths that end in no slash join without an empty segment, and `Permits` is `Covers`
for any prefix. The other two need an invariant of the whole chain of redirects.
`Underway`: at every hop the return is what was asked for, the URL is the
application's own, one that is no identity route is the one asked for, a code is for
the host to return to, and who is at the callback has had the return checked.
`Welcome`: the host to end on keeps what made the navigation fresh, who is sent to
continue has a nonce there and no cookie, comes to that host only with a code of a
live session, and meets sign-in and callback on the identity host alone.
`OwnLinksHold` has a hypothesis, `PlainHosts`: with a port in `base_host` it is false
(see above), and plain http in production is what `run_startup` refuses.
`FreshId` shows by the pigeonhole principle that one session number more than there
are hosts is enough.

Assumptions on constants. Ids are of their sets and disjoint from placeholders and
refusals (`NoneAssumption`, `RefusalAssumption`, `KnownAccountsAssumption`,
`ProcessesAssumption`, `FoundersAssumption`, `KindsAssumption`, `HostAssumption`,
`MembersAssumption`); numbers are positive (`HeadsAssumption`, `TimeAssumption`,
`SizeAssumption`); what the model counts is finite and its supplies suffice
(`ThreadsAssumption`, `GenerationsAssumption`, `HostsAssumption`). Those that say
something of the code:

 * `ProposalsAssumption` - a module's entry point is not named `core`, and the module
   of a declaration is the first part of its name (`OperationDeclaration`).
 * `SpecsAssumption`, `NativesAssumption`, `TextsAssumption`, `NumeralAssumption`,
   `FieldsAssumption` - types, scopes and floors are those of the enums; a value is of
   one of the four types; a text is a sequence of fields; a field that is a number is
   none of the blank ones. Whether a declaration fits together (`Declarable`) is
   not assumed but checked by `Register`, as in the code.
 * `DeploymentsAssumption` - the scheme is one of the key's choices, `base_host` has a
   name, prefixes are empty or begin with a slash and do not end in one, and identity
   keeps `/auth` while the shell does not take it. The code validates the scheme only;
   what happens otherwise is noted above.
 * `PathsAssumption`, `ReferencesAssumption`, `TokensAssumption` - the paths that links
   are built from have no empty segment; references are sequences of pieces.

Only model-checked: the liveness properties `RepairedForGood`, `StartupCompletes`,
`SignInEnds`, `RequestEnds` and `NavigationEnds` (fairness is out of TLAPS's reach),
and the four violations.

## Not modelled

Formatting, logging, HTTP status codes, the provider's HTTP exchange, DDL and the
content of migrations, the control database's own chain, the data root, input
schemas of operations, the text form of a token, the page markup, the health line
and the doctor command: I/O or pure text. Refs have no provider yet. The scripts
under `scripts/` check source text.

## Plan

 1. Of the four violations, prove what remains true beside them: that a workspace whose
    chain failed is never activated by a walk that began after the failure, and that a
    host refuses a second secret only to a session that had one there.
 2. Split the longest leaves of `OperationAccessProofs` and `EnginePoolProofs`.

---------------------------- MODULE WebSessions ----------------------------
(***************************************************************************)
(* Signing in on several hosts with host-only cookies.                     *)
(*                                                                         *)
(*  - auth_routes.py: login, callback, continue, logout and the workspace  *)
(*    switch, each handler a sequence of control-plane transactions;       *)
(*  - sessions/service.py and sessions/grants.py: the rows those           *)
(*    transactions write: session, session_secret, session_grant;          *)
(*  - boundary/factories.py: context_from_session;                         *)
(*  - apps/web middleware.ts: the redirect of a page without a cookie.     *)
(*                                                                         *)
(* The core serves every handler on every application host. A handler may  *)
(* be overtaken between two transactions, and its process may die there;   *)
(* its response may be lost after the last one. A URL with an OAuth state, *)
(* a continue nonce or a grant code may be opened in any browser, any      *)
(* number of times. A secret, a code and a nonce are values no one         *)
(* guesses: a session names the secret it has on a host.                   *)
(*                                                                         *)
(* A refusal that writes nothing has no action. Days and seconds are ticks *)
(* of one clock.                                                           *)
(***************************************************************************)
EXTENDS Naturals, FiniteSets

CONSTANTS
    Browsers, Accounts, Workspaces,
    Members,        \* control.membership: pairs of an account and a workspace
    Hosts,          \* the application hosts
    IdentityHost,
    Sessions, Grants, Nonces,   \* ids still to be drawn
    Handlers,       \* requests served at the same time
    IdleTime, MaxAge, GrantLife,
    LastTick        \* the clock stops here

ASSUME HostAssumption == IdentityHost \in Hosts
ASSUME MembersAssumption == Members \subseteq Accounts \X Workspaces
ASSUME TimeAssumption == {IdleTime, MaxAge, GrantLife} \subseteq Nat \ {0} /\ LastTick \in Nat

None == "none"
ASSUME NoneAssumption ==
    None \notin Browsers \cup Accounts \cup Workspaces \cup Hosts \cup Sessions \cup Grants \cup Nonces

VARIABLES
    clock,
    \* control.session
    account, created, expires, revoked, active,
    \* control.session_secret: pairs of a session and a host
    secrets,
    \* control.session_grant
    grantOf, target, bound, deadline, used,
    \* the cookies of each browser for each host: rheo_oauth_state,
    \* rheo_session and rheo_continue
    oauthState, cookie, continue,
    \* the requests: next transaction, browser, session, host, and the nonce,
    \* account and workspace at hand
    pc, from, sess, host, nonce, who, where,
    \* history: the browser a nonce was given to, the browser a session was
    \* begun in and the host of its callback, the browser whose request wrote a
    \* grant, how often a grant was redeemed
    givenTo, begunIn, begunAt, writtenBy, redeemed

rows == <<account, created, expires, revoked, active>>
grants == <<grantOf, target, bound, deadline, used>>
cookies == <<oauthState, cookie, continue>>
requests == <<pc, from, sess, host, nonce, who, where>>
history == <<givenTo, begunIn, begunAt, writtenBy, redeemed>>
vars == <<clock, rows, secrets, grants, cookies, requests, history>>

Init ==
    /\ clock = 0
    /\ account = [s \in Sessions |-> None]
    /\ created = [s \in Sessions |-> 0]
    /\ expires = [s \in Sessions |-> 0]
    /\ revoked = [s \in Sessions |-> FALSE]
    /\ active = [s \in Sessions |-> None]
    /\ secrets = {}
    /\ grantOf = [g \in Grants |-> None]
    /\ target = [g \in Grants |-> None]
    /\ bound = [g \in Grants |-> None]
    /\ deadline = [g \in Grants |-> 0]
    /\ used = [g \in Grants |-> FALSE]
    /\ oauthState = [b \in Browsers |-> [h \in Hosts |-> None]]
    /\ cookie = [b \in Browsers |-> [h \in Hosts |-> None]]
    /\ continue = [b \in Browsers |-> [h \in Hosts |-> None]]
    /\ pc = [p \in Handlers |-> "idle"]
    /\ from = [p \in Handlers |-> None]
    /\ sess = [p \in Handlers |-> None]
    /\ host = [p \in Handlers |-> None]
    /\ nonce = [p \in Handlers |-> None]
    /\ who = [p \in Handlers |-> None]
    /\ where = [p \in Handlers |-> None]
    /\ givenTo = [n \in Nonces |-> None]
    /\ begunIn = [s \in Sessions |-> None]
    /\ begunAt = [s \in Sessions |-> None]
    /\ writtenBy = [g \in Grants |-> None]
    /\ redeemed = [g \in Grants |-> 0]

-----------------------------------------------------------------------------
(* Moves of a request *)

At(p, step) == pc[p] = step

\* The request moves to step with the session s on host h.
Serve(p, step, b, s, h) ==
    /\ pc' = [pc EXCEPT ![p] = step]
    /\ from' = [from EXCEPT ![p] = b]
    /\ sess' = [sess EXCEPT ![p] = s]
    /\ host' = [host EXCEPT ![p] = h]

Holding(p, n, a, w) ==
    /\ nonce' = [nonce EXCEPT ![p] = n]
    /\ who' = [who EXCEPT ![p] = a]
    /\ where' = [where EXCEPT ![p] = w]

Respond(p) == Serve(p, "idle", None, None, None) /\ Holding(p, None, None, None)

Fresh(n) == givenTo[n] = None
Give(n, b) == givenTo' = [givenTo EXCEPT ![n] = b]

\* _session_row_from_cookie: the session of the cookie b sends to h, if the
\* session_secret row of that host is there and the session is unexpired and
\* unrevoked.
Expired(s) == expires[s] <= clock

SessionOf(b, h, s) ==
    /\ cookie[b][h] = s
    /\ <<s, h>> \in secrets
    /\ ~Expired(s)
    /\ ~revoked[s]

-----------------------------------------------------------------------------
(* Login *)

\* GET /auth/login on any host: a fresh state, in that host's cookie and in the
\* redirect to the provider.
Login(b, h, n) ==
    /\ Fresh(n)
    /\ Give(n, b)
    /\ oauthState' = [oauthState EXCEPT ![b][h] = n]
    /\ UNCHANGED <<clock, rows, secrets, grants, cookie, continue, requests,
                   begunIn, begunAt, writtenBy, redeemed>>

\* Mutant: the state is not compared.
StateUncompared(b, h, n) == oauthState[b][h] # None

\* GET /auth/callback with state n: the state must be the one in the cookie of
\* the host that serves it.
StateMatches(b, h, n) == oauthState[b][h] = n

\* The provider has authenticated an account that resolve_or_create accepts. The
\* request keeps its state to the end.
Callback(p, b, h, n, a) ==
    /\ At(p, "idle")
    /\ ~Fresh(n)
    /\ StateMatches(b, h, n)
    /\ Serve(p, "create_session", b, None, h)
    /\ Holding(p, n, a, None)
    /\ UNCHANGED <<clock, rows, secrets, grants, cookies, history>>

\* resolve_or_create refuses the identity: only the state cookie is cleared.
CallbackRefused(b, h, n) ==
    /\ ~Fresh(n)
    /\ StateMatches(b, h, n)
    /\ oauthState' = [oauthState EXCEPT ![b][h] = None]
    /\ UNCHANGED <<clock, rows, secrets, grants, cookie, continue, requests, history>>

\* Mutant: the window is subtracted.
ComputeExpiryBackwards(now, born) == now - IdleTime

\* _compute_expiry
ComputeExpiry(now, born) ==
    IF now + IdleTime < born + MaxAge THEN now + IdleTime ELSE born + MaxAge

\* create_session: the row with its deadline, in one transaction.
CreateSession(p, s) ==
    /\ At(p, "create_session")
    /\ account[s] = None
    /\ account' = [account EXCEPT ![s] = who[p]]
    /\ created' = [created EXCEPT ![s] = clock]
    /\ expires' = [expires EXCEPT ![s] = ComputeExpiry(clock, clock)]
    /\ begunIn' = [begunIn EXCEPT ![s] = givenTo[nonce[p]]]
    /\ begunAt' = [begunAt EXCEPT ![s] = host[p]]
    /\ Serve(p, "mint", from[p], s, host[p])
    /\ Holding(p, nonce[p], None, None)
    /\ UNCHANGED <<clock, revoked, active, secrets, grants, cookies, givenTo, writtenBy,
                   redeemed>>

-----------------------------------------------------------------------------
(* The session grant *)

\* A page on a host without rheo_session: middleware.ts sets rheo_continue and
\* redirects to /auth/continue on the identity host. A cookie that is there is
\* not looked at.
OpenPage(b, h, n) ==
    /\ cookie[b][h] = None
    /\ Fresh(n)
    /\ Give(n, b)
    /\ continue' = [continue EXCEPT ![b][h] = n]
    /\ UNCHANGED <<clock, rows, secrets, grants, oauthState, cookie, requests, begunIn,
                   begunAt, writtenBy, redeemed>>

\* /auth/continue on the identity host, returning to h with nonce n in the query:
\* only a live session writes a grant (without one the login begins), and only
\* for another host. Whose nonce it is, is not asked. (Bound to one that no
\* browser was given, the grant matches no cookie.)
ContinueAtIdentity(p, b, h, n, s) ==
    /\ At(p, "idle")
    /\ ~Fresh(n)
    /\ SessionOf(b, IdentityHost, s)
    /\ h # IdentityHost
    /\ Serve(p, "write_grant", b, s, h)
    /\ Holding(p, n, None, None)
    /\ UNCHANGED <<clock, rows, secrets, grants, cookies, history>>

\* write_grant
WriteGrant(p, g) ==
    /\ At(p, "write_grant")
    /\ grantOf[g] = None
    /\ grantOf' = [grantOf EXCEPT ![g] = sess[p]]
    /\ target' = [target EXCEPT ![g] = host[p]]
    /\ bound' = [bound EXCEPT ![g] = nonce[p]]
    /\ deadline' = [deadline EXCEPT ![g] = clock + GrantLife]
    /\ writtenBy' = [writtenBy EXCEPT ![g] = from[p]]
    /\ Respond(p)
    /\ UNCHANGED <<clock, rows, secrets, used, cookies, givenTo, begunIn, begunAt, redeemed>>

\* Mutants: a code works again; for any nonce; on any host.
GrantReusable(g, b, h) ==
    /\ deadline[g] > clock
    /\ target[g] = h
    /\ bound[g] = continue[b][h]

GrantUnbound(g, b, h) ==
    /\ ~used[g]
    /\ deadline[g] > clock
    /\ target[g] = h

GrantForAnyHost(g, b, h) ==
    /\ ~used[g]
    /\ deadline[g] > clock
    /\ bound[g] = continue[b][h]

\* consume_session_grant: one UPDATE checks and marks the code. Whether the
\* session is still live is not asked.
GrantMatches(g, b, h) ==
    /\ ~used[g]
    /\ deadline[g] > clock
    /\ target[g] = h
    /\ bound[g] = continue[b][h]

\* /auth/continue with the code of g, opened in browser b on an application host.
ContinueAtHost(p, b, h, g) ==
    /\ At(p, "idle")
    /\ h # IdentityHost
    /\ grantOf[g] # None
    /\ continue[b][h] # None
    /\ GrantMatches(g, b, h)
    /\ used' = [used EXCEPT ![g] = TRUE]
    /\ redeemed' = [redeemed EXCEPT ![g] = @ + 1]
    /\ Serve(p, "mint", b, grantOf[g], h)
    /\ UNCHANGED <<nonce, who, where>>
    /\ UNCHANGED <<clock, rows, secrets, grantOf, target, bound, deadline, cookies,
                   givenTo, begunIn, begunAt, writtenBy>>

-----------------------------------------------------------------------------
(* The host secret and the cookie *)

\* mint_host_secret, in a transaction of its own. (session_id, host) is unique:
\* a second mint raises session_secret_exists and the request ends in an error.
MintHostSecret(p) ==
    /\ At(p, "mint")
    /\ IF <<sess[p], host[p]>> \in secrets
       THEN Respond(p) /\ UNCHANGED secrets
       ELSE /\ secrets' = secrets \cup {<<sess[p], host[p]>>}
            /\ Serve(p, "set_cookie", from[p], sess[p], host[p])
            /\ UNCHANGED <<nonce, who, where>>
    /\ UNCHANGED <<clock, rows, grants, cookies, history>>

\* The response arrives: rheo_session is set; the callback's clears
\* rheo_oauth_state, the continue's rheo_continue.
SetCookie(p) ==
    /\ At(p, "set_cookie")
    /\ cookie' = [cookie EXCEPT ![from[p]][host[p]] = sess[p]]
    /\ IF nonce[p] # None
       THEN oauthState' = [oauthState EXCEPT ![from[p]][host[p]] = None] /\ UNCHANGED continue
       ELSE continue' = [continue EXCEPT ![from[p]][host[p]] = None] /\ UNCHANGED oauthState
    /\ Respond(p)
    /\ UNCHANGED <<clock, rows, secrets, grants, history>>

-----------------------------------------------------------------------------
(* Requests of a signed-in browser *)

\* POST /auth/logout: the row is read, then revoked, whatever happened between;
\* the response clears the cookie. Without a live session only the cookie goes.
Logout(p, b, h, s) ==
    /\ At(p, "idle")
    /\ SessionOf(b, h, s)
    /\ Serve(p, "revoke", b, s, h)
    /\ UNCHANGED <<clock, rows, secrets, grants, cookies, nonce, who, where, history>>

LogoutStale(b, h) ==
    /\ cookie[b][h] # None
    /\ \A s \in Sessions : ~SessionOf(b, h, s)
    /\ cookie' = [cookie EXCEPT ![b][h] = None]
    /\ UNCHANGED <<clock, rows, secrets, grants, oauthState, continue, requests, history>>

Revoke(p) ==
    /\ At(p, "revoke")
    /\ revoked' = [revoked EXCEPT ![sess[p]] = TRUE]
    /\ Serve(p, "clear_cookie", from[p], sess[p], host[p])
    /\ UNCHANGED <<clock, account, created, expires, active, secrets, grants, cookies, nonce,
                   who, where, history>>

\* The response of logout arrives.
ClearCookie(p) ==
    /\ At(p, "clear_cookie")
    /\ cookie' = [cookie EXCEPT ![from[p]][host[p]] = None]
    /\ Respond(p)
    /\ UNCHANGED <<clock, rows, secrets, grants, oauthState, continue, history>>

\* POST /auth/session/workspace: the row is read; switch_workspace reads it
\* again with the membership and moves the session.
SessionWorkspace(p, b, h, s, w) ==
    /\ At(p, "idle")
    /\ SessionOf(b, h, s)
    /\ Serve(p, "switch", b, s, h)
    /\ Holding(p, None, None, w)
    /\ UNCHANGED <<clock, rows, secrets, grants, cookies, history>>

SwitchWorkspace(p) ==
    /\ At(p, "switch")
    /\ IF <<account[sess[p]], where[p]>> \in Members
       THEN active' = [active EXCEPT ![sess[p]] = where[p]]
       ELSE UNCHANGED active
    /\ Respond(p)
    /\ UNCHANGED <<clock, account, created, expires, revoked, secrets, grants, cookies,
                   history>>

\* GET /internal/v1/session and every page: context_from_session. The context
\* carries the account and the workspace to the end of the request.
ContextFromSession(p, b, h, s) ==
    /\ At(p, "idle")
    /\ SessionOf(b, h, s)
    /\ active[s] # None
    /\ <<account[s], active[s]>> \in Members
    /\ Serve(p, "context", b, s, h)
    /\ UNCHANGED <<clock, rows, secrets, grants, cookies, nonce, who, where, history>>

EndRequest(p) ==
    /\ At(p, "context")
    /\ Respond(p)
    /\ UNCHANGED <<clock, rows, secrets, grants, cookies, history>>

-----------------------------------------------------------------------------
(* Failures, browsers and time *)

\* The process dies or the response is lost: what was committed stays.
LoseRequest(p) ==
    /\ ~At(p, "idle")
    /\ Respond(p)
    /\ UNCHANGED <<clock, rows, secrets, grants, cookies, history>>

\* A browser drops the cookies of a host: closed, cleared or evicted.
DropCookies(b, h) ==
    /\ {cookie[b][h], continue[b][h], oauthState[b][h]} # {None}
    /\ cookie' = [cookie EXCEPT ![b][h] = None]
    /\ continue' = [continue EXCEPT ![b][h] = None]
    /\ oauthState' = [oauthState EXCEPT ![b][h] = None]
    /\ UNCHANGED <<clock, rows, secrets, grants, requests, history>>

Tick ==
    /\ clock < LastTick
    /\ clock' = clock + 1
    /\ UNCHANGED <<rows, secrets, grants, cookies, requests, history>>

Next ==
    \/ \E b \in Browsers, h \in Hosts :
          \/ \E n \in Nonces : Login(b, h, n) \/ CallbackRefused(b, h, n) \/ OpenPage(b, h, n)
          \/ LogoutStale(b, h)
          \/ DropCookies(b, h)
    \/ \E p \in Handlers, b \in Browsers, h \in Hosts :
          \/ \E n \in Nonces, a \in Accounts : Callback(p, b, h, n, a)
          \/ \E g \in Grants : ContinueAtHost(p, b, h, g)
          \/ \E s \in Sessions :
                \/ \E n \in Nonces : ContinueAtIdentity(p, b, h, n, s)
                \/ Logout(p, b, h, s)
                \/ \E w \in Workspaces : SessionWorkspace(p, b, h, s, w)
                \/ ContextFromSession(p, b, h, s)
    \/ \E p \in Handlers :
          \/ \E s \in Sessions : CreateSession(p, s)
          \/ \E g \in Grants : WriteGrant(p, g)
          \/ MintHostSecret(p) \/ SetCookie(p) \/ Revoke(p) \/ ClearCookie(p)
          \/ SwitchWorkspace(p) \/ EndRequest(p) \/ LoseRequest(p)
    \/ Tick

Spec == Init /\ [][Next]_vars

-----------------------------------------------------------------------------
(* Properties *)

Steps == {"idle", "create_session", "mint", "set_cookie", "write_grant", "revoke",
          "clear_cookie", "switch", "context"}

\* Every row, cookie and request holds values of its column.
TypeOK ==
    /\ clock \in 0 .. LastTick
    /\ account \in [Sessions -> Accounts \cup {None}]
    /\ created \in [Sessions -> Nat] /\ expires \in [Sessions -> Nat]
    /\ revoked \in [Sessions -> BOOLEAN]
    /\ active \in [Sessions -> Workspaces \cup {None}]
    /\ secrets \subseteq Sessions \X Hosts
    /\ grantOf \in [Grants -> Sessions \cup {None}]
    /\ target \in [Grants -> Hosts \cup {None}]
    /\ bound \in [Grants -> Nonces \cup {None}]
    /\ deadline \in [Grants -> Nat] /\ used \in [Grants -> BOOLEAN]
    /\ oauthState \in [Browsers -> [Hosts -> Nonces \cup {None}]]
    /\ cookie \in [Browsers -> [Hosts -> Sessions \cup {None}]]
    /\ continue \in [Browsers -> [Hosts -> Nonces \cup {None}]]
    /\ pc \in [Handlers -> Steps]
    /\ from \in [Handlers -> Browsers \cup {None}]
    /\ sess \in [Handlers -> Sessions \cup {None}]
    /\ host \in [Handlers -> Hosts \cup {None}]
    /\ nonce \in [Handlers -> Nonces \cup {None}]
    /\ who \in [Handlers -> Accounts \cup {None}]
    /\ where \in [Handlers -> Workspaces \cup {None}]
    /\ givenTo \in [Nonces -> Browsers \cup {None}]
    /\ begunIn \in [Sessions -> Browsers \cup {None}]
    /\ begunAt \in [Sessions -> Hosts \cup {None}]
    /\ writtenBy \in [Grants -> Browsers \cup {None}]
    /\ redeemed \in [Grants -> Nat]

\* The session s came to browser b on host h in one of two ways. Its login was
\* begun in b and called back there on h; or a grant for h was redeemed that is
\* bound to a nonce given to b and was written by a request of the browser in
\* which the session was begun.
CameTo(b, h, s) ==
    \/ begunIn[s] = b /\ begunAt[s] = h
    \/ \E g \in Grants :
          /\ used[g] /\ grantOf[g] = s /\ target[g] = h
          /\ givenTo[bound[g]] = b
          /\ writtenBy[g] = begunIn[s]

\* Whichever state, nonce and code URLs are opened in which browsers, a browser
\* holds a cookie on a host only of a session that came to it there: "a callback
\* that did not begin in this browser creates no session", and a grant is bound
\* "to the browser that asked for it" (identity-and-topology.md,
\* storage-and-workspaces.md). In particular a cookie on the identity host is of
\* a session begun in this browser.
CookieCameHere ==
    \A b \in Browsers, h \in Hosts : cookie[b][h] # None => CameTo(b, h, cookie[b][h])

\* A code is redeemed at most once, however many requests present it while the
\* first is still being answered (consume_session_grant's single UPDATE).
GrantRedeemedOnce == \A g \in Grants : redeemed[g] <= 1

\* A session has a secret on the host of its callback, and on others only if that
\* was the identity host and a grant for this session and host was redeemed. So a
\* session called back on an application host stays on it.
HostSecretHasOrigin ==
    \A s \in Sessions, h \in Hosts : <<s, h>> \in secrets =>
        \/ begunAt[s] = h
        \/ /\ begunAt[s] = IdentityHost
           /\ \E g \in Grants : grantOf[g] = s /\ target[g] = h /\ used[g]

\* What the requests under way may rely on, and with it every fact above: a
\* nonce in a cookie was given to that browser, a grant was written by the browser
\* in which its session was begun and called back on the identity host, and a
\* request with a session has one that came to its browser on its host.
RowsLinked ==
    /\ \A s \in Sessions :
          /\ (account[s] = None) <=> (begunIn[s] = None)
          /\ (account[s] = None) <=> (begunAt[s] = None)
    /\ \A b \in Browsers, h \in Hosts :
          /\ oauthState[b][h] # None => givenTo[oauthState[b][h]] = b
          /\ continue[b][h] # None => givenTo[continue[b][h]] = b
    /\ \A g \in Grants : grantOf[g] # None =>
          /\ bound[g] # None /\ givenTo[bound[g]] # None
          /\ target[g] # IdentityHost
          /\ writtenBy[g] # None
          /\ begunIn[grantOf[g]] = writtenBy[g]
          /\ begunAt[grantOf[g]] = IdentityHost
    /\ \A g \in Grants : redeemed[g] = IF used[g] THEN 1 ELSE 0
    /\ \A g \in Grants : (grantOf[g] = None) <=> (target[g] = None)

RequestLinked(p) ==
    /\ from[p] # None
    /\ host[p] # None
    /\ At(p, "create_session") =>
          nonce[p] # None /\ who[p] # None /\ givenTo[nonce[p]] = from[p]
    /\ ~At(p, "create_session") => sess[p] # None
    /\ At(p, "write_grant") =>
          /\ nonce[p] # None /\ givenTo[nonce[p]] # None
          /\ host[p] # IdentityHost
          /\ begunIn[sess[p]] = from[p]
          /\ begunAt[sess[p]] = IdentityHost
    /\ pc[p] \notin {"create_session", "write_grant"} => CameTo(from[p], host[p], sess[p])
    /\ At(p, "switch") => where[p] # None

RequestsLinked == \A p \in Handlers : ~At(p, "idle") => RequestLinked(p)

IInv ==
    /\ TypeOK
    /\ RowsLinked
    /\ RequestsLinked
    /\ CookieCameHere
    /\ HostSecretHasOrigin

\* control_plane.py on session_secret_exists: "a miss here means an internal
\* invariant broke, not a reachable API state". A request about to mint would
\* then never find the secret already there.
SecretExistsUnreachable ==
    \A p \in Handlers : At(p, "mint") => <<sess[p], host[p]>> \notin secrets

=============================================================================

------------------------------- MODULE Routing -------------------------------
(***************************************************************************)
(* The URL topology, and a browser that follows it.                        *)
(*                                                                         *)
(*  - routing/config.py, routing/url_for.py: the topology in the core;     *)
(*  - apps/web lib/routing, lib/continue-redirect.ts, middleware.ts and    *)
(*    the pages: its mirror in the web tier, and the links built with it;  *)
(*  - auth_routes.py: which return the identity routes accept and where    *)
(*    each redirect goes; internal_routes.py: how the web tier gets the    *)
(*    configuration; startup.py: what is checked once.                     *)
(*                                                                         *)
(* WebSessions has the rows and the races of the same routes; here are the *)
(* URLs. One browser makes one navigation at a time, following every       *)
(* redirect; the deployment may change under it. The core reads its        *)
(* settings on every request, the web tier keeps the first configuration   *)
(* it gets for as long as its process lives.                               *)
(*                                                                         *)
(* The mirrored functions keep the names they have in each language:       *)
(* url_for is the core's, urlFor the web tier's. A path is a sequence of   *)
(* tokens in which "/" is a token; a host is a label, a name and a port.   *)
(***************************************************************************)
EXTENDS Naturals, Sequences, FiniteSets, SequencesExt, Secrets

CONSTANTS
    Deployments,    \* what the operator may deploy: the routing settings and the
                    \* profile, the provider switch and internal.secret_ref
    Environments,   \* the environment of a core process: variable -> value
    WebSecret,      \* RHEO_INTERNAL_SECRET of the web tier
    SecretFiles,    \* what the secrets directory holds
    References,     \* secret references a setting may name
    Tokens,         \* what paths and references are sequences of
    Paths,          \* paths and prefixes links are built from
    MaxChanges,     \* how often the deployment, a process or a session changes
    NoConfig

VARIABLES
    deployed,       \* the deployment's settings now
    environ,        \* the environment of the running core
    up,             \* the core has started and serves
    cached,         \* load.ts: the web process's copy of the configuration
    cookie,         \* rheo_session of each host: a session, 0 for none
    live,           \* the sessions that are neither expired nor revoked
    active,         \* the live sessions that have chosen a workspace
    minted,         \* session_secret: pairs of a session and a host
    nav,            \* the navigation under way, or where the last one ended
    changes

routingVars == <<deployed, environ, up, cached, cookie, live, active, minted, nav, changes>>

-----------------------------------------------------------------------------
(* The topology, in the core *)

Root == <<"/">>
Named == {"shell", "identity", "api", "mcp", "docs", "integration"}
Host(label, base) == [label |-> label, name |-> base.name, port |-> base.port]
NoHost == [label |-> "", name |-> "", port |-> ""]

\* No empty segment, which a browser would read as the beginning of a host.
Sound(path) == \A i \in 1 .. Len(path) - 1 : ~(path[i] = "/" /\ path[i + 1] = "/")
\* A path or a prefix as an operator or a caller writes it.
IsPath(path) ==
    path \in Seq(Tokens) /\ Sound(path) /\ (path \in {<<>>, Root} \/ path[Len(path)] # "/")

ASSUME TokensAssumption ==
    {"/", "auth", "login", "logout", "continue", "callback", "session", "workspace", "reports"} \subseteq Tokens
ASSUME PathsAssumption == \A path \in Paths : IsPath(path)
ASSUME ReferencesAssumption == References \subseteq Seq(Tokens)

\* The package defaults of the routing keys.
RoutingDefaults ==
    [mode |-> "path", scheme |-> "https", base_host |-> [name |-> "localhost", port |-> ""],
     host |-> [shell |-> "circuit", identity |-> "auth", api |-> "api", mcp |-> "mcp",
               docs |-> "docs", integration |-> "tuttle"],
     path |-> [shell |-> Root, identity |-> <<"/", "auth">>, api |-> <<"/", "api">>, mcp |-> <<"/", "mcp">>],
     external |-> {"docs", "integration"}, reserved |-> {"integration"}]

\* RoutingConfig.from_settings: docs and integration have no path key, only
\* the identity surface is fixed, and there are no modules yet.
from_settings(d) ==
    [mode |-> d.mode, scheme |-> d.scheme, base_host |-> d.base_host,
     surfaces |-> [s \in Named |->
        [host |-> d.host[s],
         path |-> IF s \in DOMAIN d.path THEN d.path[s] ELSE <<>>,
         external |-> s \in d.external,
         reserved |-> s \in d.reserved,
         fixed_path |-> s = "identity"]],
     modules |-> <<>>]

join_prefix(prefix, path) ==
    LET rooted == IF path # <<>> /\ Head(path) = "/" THEN path ELSE Root \o path
    IN  IF prefix \in {<<>>, Root} THEN rooted ELSE prefix \o rooted

NoUrl == [scheme |-> "none", host |-> NoHost, path |-> <<>>]

url_for(c, surface, path) ==
    LET known == surface \in Named \/ surface \in DOMAIN c.modules
        spec_of == IF surface \in Named THEN c.surfaces[surface] ELSE c.modules[surface]
    IN  IF ~known \/ spec_of.external \/ spec_of.reserved THEN NoUrl
        ELSE IF c.mode = "path"
        THEN [scheme |-> c.scheme, host |-> Host("", c.base_host),
              path |-> join_prefix(spec_of.path, path)]
        ELSE [scheme |-> c.scheme, host |-> Host(spec_of.host, c.base_host),
              path |-> join_prefix(IF spec_of.fixed_path THEN spec_of.path ELSE <<>>, path)]

identity_path(c, path) == join_prefix(c.surfaces["identity"].path, path)

application_hosts(c) ==
    IF c.mode = "path" THEN {Host("", c.base_host)}
    ELSE {Host(c.surfaces[s].host, c.base_host) : s \in {"shell", "identity"}}
         \cup {Host(c.modules[m].host, c.base_host) : m \in DOMAIN c.modules}

\* Read from a header or a URL: without its port.
normalize_host(host) == [host EXCEPT !.port = ""]

identity_host(c) ==
    IF c.mode = "path" THEN Host("", c.base_host)
    ELSE Host(c.surfaces["identity"].host, c.base_host)

is_application_host(c, host) == host \in application_hosts(c)

-----------------------------------------------------------------------------
(* Its mirror, in the web tier *)

\* Mutant: rule 2 is forgotten, so a root prefix is prepended too.
joinPrefixRaw(prefix, path) ==
    IF path # <<>> /\ path[1] = "/" THEN prefix \o path ELSE prefix \o <<"/">> \o path

joinPrefix(prefix, path) ==
    LET normalized == IF path # <<>> /\ path[1] = "/" THEN path ELSE <<"/">> \o path
    IN  IF prefix = <<>> \/ prefix = <<"/">> THEN normalized ELSE prefix \o normalized

surfaceFor(c, surface) ==
    IF surface \in DOMAIN c.surfaces THEN c.surfaces[surface] ELSE c.modules[surface]

urlFor(c, surface, path) ==
    IF surface \notin DOMAIN c.surfaces \cup DOMAIN c.modules THEN NoUrl
    ELSE LET s == surfaceFor(c, surface)
             onBase == c.mode = "path"
         IN  IF s.external \/ s.reserved THEN NoUrl
             ELSE [scheme |-> c.scheme,
                   host |-> Host(IF onBase THEN "" ELSE s.host, c.base_host),
                   path |-> joinPrefix(IF onBase \/ s.fixed_path THEN s.path ELSE <<>>, path)]

identityPath(c, path) == joinPrefix(c.surfaces["identity"].path, path)

applicationHosts(c) ==
    {Host(label, c.base_host) :
        label \in IF c.mode = "path" THEN {""}
                  ELSE {c.surfaces["shell"].host, c.surfaces["identity"].host}
                       \cup {c.modules[m].host : m \in DOMAIN c.modules}}

postLoginReturn(c) == urlFor(c, "shell", Root)
loginHref(c) == urlFor(c, "identity", <<"/", "login">>)
logoutAction(c) == identityPath(c, <<"/", "logout">>)
switcherAction(c) == identityPath(c, <<"/", "session", "/", "workspace">>)

\* Mutant: the same-host path where the identity host's URL is needed.
continueHrefHere(c, here) == [here EXCEPT !.path = identityPath(c, <<"/", "continue">>)]

\* The continue URL for a request at here; the return target travels in nav.
continueHref(c, here) == urlFor(c, "identity", <<"/", "continue">>)

-----------------------------------------------------------------------------
(* The browser *)

Config == from_settings(deployed)
Routed(path, name) == path = <<"/", "auth", "/", name>>
IsAuth(path) == Len(path) >= 2 /\ path[1] = "/" /\ path[2] = "auth"

\* The prefixes an operator sets are rooted, the identity surface keeps the one its
\* routes are mounted at, the application has a shell and an identity surface, and
\* its base host has a name.
ASSUME DeploymentsAssumption ==
    \A d \in Deployments :
        /\ d.base_host.name # "" /\ d.scheme \in {"http", "https"}
        /\ \A s \in DOMAIN d.path : IsPath(d.path[s]) /\ (d.path[s] = <<>> \/ d.path[s][1] = "/")
        /\ {"shell", "identity"} \subseteq DOMAIN d.path
        /\ d.path["identity"] = <<"/", "auth">> /\ ~IsAuth(d.path["shell"])
        /\ {"shell", "identity"} \cap (d.external \cup d.reserved) = {}

LoginPage == <<"/", "login">>
Pages == {Root, <<"/", "reports">>}

Hosts == UNION {{normalize_host(h) : h \in application_hosts(from_settings(d))} : d \in Deployments}
ASSUME HostsAssumption == IsFiniteSet(Hosts)

Here == normalize_host(nav.loc.host)
Going == nav.at = "going"
AtRest == nav.at = "rest"

\* A host with no cookie of a dead session, and where no live session has lost the
\* cookie of the secret it has there (session_secret_exists, which WebSessions
\* examines).
Unspoilt(host, cookies, sessions, secrets) ==
    \/ cookies[host] \in sessions
    \/ cookies[host] = 0 /\ \A n \in sessions : <<n, host>> \notin secrets

\* A navigation that begins at loc. steady: nothing has changed since, and the
\* web tier's copy is current. fresh: where it is to end, the step that begins it
\* leaves nothing in the way.
Begin(loc, ret) ==
    [at |-> "going", loc |-> loc, ret |-> ret, asked |-> ret, shows |-> "nothing",
     code |-> NoHost, session |-> 0, nonceAt |-> NoHost, oauthAt |-> NoHost, signedIn |-> FALSE,
     steady |-> cached \in {NoConfig, Config},
     fresh |-> Unspoilt(normalize_host(ret.host), cookie', live', minted')]

Go(loc) == nav' = [nav EXCEPT !.loc = loc]
End(shows) == nav' = [nav EXCEPT !.at = "rest", !.shows = shows]

\* build_cookie's Secure rule, and the browser's: a Secure cookie is not kept
\* from a plain http response.
Kept(scheme) == (scheme # "http" \/ deployed.profile = "production") => nav.loc.scheme = "https"

sessionVars == <<cookie, live, active, minted>>
deploymentVars == <<deployed, environ, up, cached, changes>>

-----------------------------------------------------------------------------
(* The web tier *)

InternalPrefixes ==
    { <<Scheme, "file", Slash, "internal", Slash>>, <<Scheme, "env", Slash, "RHEO_INTERNAL_SECRET">> }

HasCredentials == WebSecret # ""

\* Resolved anew for every request of the web tier.
ResolvedInternalSecret == Resolve(deployed.secretRef, InternalPrefixes, environ, SecretFiles)

require_internal_secret(header) ==
    header # "" /\ ResolvedInternalSecret \notin Refusals \cup {""} /\ header = ResolvedInternalSecret

\* A request of the web tier to the internal listener is answered; reached is
\* the network's part in it.
Answered(reached) == HasCredentials /\ reached /\ up /\ require_internal_secret(WebSecret)

\* The web tier takes nothing for a configuration but a body with every field.
isRoutingConfig(body) ==
    /\ body.mode \in {"path", "subdomain"}
    /\ Named \subseteq DOMAIN body.surfaces
    /\ \A s \in Named : DOMAIN body.surfaces[s] = {"host", "path", "external", "reserved", "fixed_path"}

\* The configuration at hand after loadRoutingConfig; a failure is not kept. One
\* copy stands for the middleware's and the pages'.
loadRoutingConfig(reached) ==
    IF cached # NoConfig THEN cached
    ELSE IF Answered(reached) /\ isRoutingConfig(Config) THEN Config
    ELSE NoConfig

\* The answer of /internal/v1/session for this host's cookie: a fresh session
\* has no workspace, and only a session that has one is ok.
session_info ==
    IF cookie[Here] \notin live THEN "signed_out"
    ELSE IF cookie[Here] \notin active THEN "workspace_unselected"
    ELSE "account"

fetchSession(reached) ==
    IF ~HasCredentials THEN "unavailable"
    ELSE IF cookie[Here] = 0 THEN "session_missing"
    ELSE IF Answered(reached) THEN session_info
    ELSE "unavailable"

\* What the two pages show: the shell reads the session itself, and offers the
\* workspace switcher and the logout form with the account and nowhere else.
Shows(loaded, reached) ==
    IF loaded = NoConfig THEN "unavailable"
    ELSE IF nav.loc.path = LoginPage THEN "sign_in"
    ELSE fetchSession(reached)

\* The middleware: a request without a session cookie goes to the identity
\* host with the host it asked for as its return and a nonce of its own host.
Middleware(reached) ==
    LET loaded == loadRoutingConfig(reached)
    IN  /\ Going /\ ~IsAuth(nav.loc.path) /\ nav.loc.path # LoginPage
        /\ cookie[Here] = 0
        /\ loaded # NoConfig
        /\ cached' = loaded
        /\ nav' = [nav EXCEPT
                    !.loc = continueHref(loaded, nav.loc),
                    !.ret = [scheme |-> loaded.scheme, host |-> nav.loc.host,
                             path |-> joinPrefix(<<>>, nav.loc.path)],
                    !.nonceAt = IF Kept(loaded.scheme) THEN Here ELSE @]
        /\ UNCHANGED <<deployed, environ, up, sessionVars, changes>>

\* A page is rendered for a request the middleware passes: it has a cookie, it is
\* for the sign-in page, or the middleware's own request (passed) got no
\* configuration.
RenderPage(passed, reached) ==
    LET loaded == loadRoutingConfig(reached)
    IN  /\ Going /\ ~IsAuth(nav.loc.path)
        /\ nav.loc.path = LoginPage \/ cookie[Here] # 0 \/ loadRoutingConfig(passed) = NoConfig
        /\ cached' = loaded
        /\ End(Shows(loaded, reached))
        /\ UNCHANGED <<deployed, environ, up, sessionVars, changes>>

-----------------------------------------------------------------------------
(* The core *)

Requested(name) == Going /\ up /\ Routed(nav.loc.path, name)
ReturnHost == normalize_host(nav.ret.host)

CoreUnreachable ==
    /\ Going /\ ~up /\ IsAuth(nav.loc.path)
    /\ End("unavailable")
    /\ UNCHANGED <<sessionVars, deploymentVars>>

ContinueRefused ==
    /\ Requested("continue")
    /\ ~is_application_host(Config, ReturnHost)
    /\ End("refused")
    /\ UNCHANGED <<sessionVars, deploymentVars>>

\* Mutant: back to the root instead of the return's path.
ReturnToRoot(ret) == Root

\* The same-host tail of the return target.
path_and_query(ret) == ret.path

\* Mutant: only the single host of path mode finds its row.
NoSessionInSubdomains == IF deployed.mode = "path" /\ cookie[Here] \in live THEN cookie[Here] ELSE 0

\* _session_row_from_cookie: the session of this host's cookie, if it is alive.
SessionHere == IF cookie[Here] \in live THEN cookie[Here] ELSE 0

ContinueAtIdentity ==
    /\ Requested("continue")
    /\ is_application_host(Config, ReturnHost)
    /\ Here = identity_host(Config)
    /\ IF SessionHere = 0
       THEN Go([nav.loc EXCEPT !.path = identity_path(Config, <<"/", "login">>)])
       ELSE IF ReturnHost = Here
       THEN Go([nav.loc EXCEPT !.path = path_and_query(nav.ret)])
       ELSE nav' = [nav EXCEPT !.code = ReturnHost, !.session = SessionHere,
                        !.loc = [scheme |-> Config.scheme, host |-> ReturnHost,
                                 path |-> identity_path(Config, <<"/", "continue">>)]]
    /\ UNCHANGED <<sessionVars, deploymentVars>>

\* consume_grant: written for this host, bound to this host's nonce.
GrantIsForHere == nav.code = Here /\ nav.nonceAt = Here

ContinueWithoutGrant ==
    /\ Requested("continue")
    /\ is_application_host(Config, ReturnHost)
    /\ Here # identity_host(Config)
    /\ ~GrantIsForHere
    /\ End("refused")
    /\ UNCHANGED <<sessionVars, deploymentVars>>

ContinueAtHost ==
    /\ Requested("continue")
    /\ is_application_host(Config, ReturnHost)
    /\ Here # identity_host(Config)
    /\ GrantIsForHere
    /\ IF <<nav.session, Here>> \in minted
       THEN End("session_secret_exists") /\ UNCHANGED sessionVars
       ELSE /\ minted' = minted \cup {<<nav.session, Here>>}
            /\ cookie' = IF Kept(Config.scheme) THEN [cookie EXCEPT ![Here] = nav.session] ELSE cookie
            /\ nav' = [nav EXCEPT !.code = NoHost, !.nonceAt = NoHost,
                                  !.loc.path = path_and_query(nav.ret)]
            /\ UNCHANGED <<live, active>>
    /\ UNCHANGED deploymentVars

\* login: the provider is resolved first, then the return is checked.
Login ==
    /\ Requested("login")
    /\ IF ~deployed.provider THEN End("no_provider")
       ELSE IF ~is_application_host(Config, ReturnHost) THEN End("refused")
       ELSE nav' = [nav EXCEPT !.at = "provider", !.loc = url_for(Config, "identity", <<"/", "callback">>),
                               !.oauthAt = IF Kept(Config.scheme) THEN Here ELSE @]
    /\ UNCHANGED <<sessionVars, deploymentVars>>

\* The provider sends the browser to the callback, or the person gives up.
ProviderAnswers(approved) ==
    /\ nav.at = "provider"
    /\ nav' = IF approved THEN [nav EXCEPT !.at = "going"]
              ELSE [nav EXCEPT !.at = "rest", !.shows = "abandoned"]
    /\ UNCHANGED <<sessionVars, deploymentVars>>

\* The state cookie is on the host that served login, and only there; the
\* account may be refused (signup is closed, or the provider's answer fails).
CallbackRefused ==
    /\ Requested("callback") /\ deployed.provider
    /\ \/ nav.oauthAt # Here /\ End("refused")
       \/ nav.oauthAt = Here /\ End("no_account")
    /\ UNCHANGED <<sessionVars, deploymentVars>>

CallbackWithoutProvider ==
    /\ Requested("callback") /\ ~deployed.provider
    /\ End("no_provider")
    /\ UNCHANGED <<sessionVars, deploymentVars>>

\* A session no cookie names is forgotten and its number used again, so one more
\* than there are hosts are enough.
Ids == 1 .. Cardinality(Hosts) + 1
Carried(c) == {c[h] : h \in Hosts}

Callback ==
    LET id == CHOOSE n \in Ids : n \notin Carried(cookie)
        target == IF is_application_host(Config, ReturnHost) THEN nav.ret ELSE url_for(Config, "shell", Root)
    IN  /\ Requested("callback") /\ deployed.provider
        /\ nav.oauthAt = Here
        /\ cookie' = IF Kept(Config.scheme) THEN [cookie EXCEPT ![Here] = id] ELSE cookie
        /\ live' = (live \cup {id}) \cap Carried(cookie')
        /\ active' = active \cap (Carried(cookie') \ {id})
        /\ minted' = {m \in minted : m[1] # id /\ m[1] \in Carried(cookie')}
                     \cup {<<n, Here>> : n \in {id} \cap Carried(cookie')}
        /\ nav' = [nav EXCEPT !.loc = target, !.oauthAt = NoHost, !.signedIn = TRUE]
        /\ UNCHANGED deploymentVars

-----------------------------------------------------------------------------
(* The person, the operator, the clock *)

Visit(host, path) ==
    /\ AtRest
    /\ host \in application_hosts(Config)
    /\ UNCHANGED <<sessionVars, deploymentVars>>
    /\ LET loc == [scheme |-> Config.scheme, host |-> host, path |-> path]
       IN  nav' = Begin(loc, loc)

\* The sign-in link of a page that was rendered without an account.
FollowSignIn ==
    /\ AtRest /\ cached # NoConfig
    /\ nav.shows \in {"sign_in", "session_missing", "signed_out", "workspace_unselected"}
    /\ UNCHANGED <<sessionVars, deploymentVars>>
    /\ nav' = Begin(loginHref(cached), postLoginReturn(cached))

\* The guard of the two POST routes, for a page of this host.
check_origin == is_application_host(Config, Here)

\* The logout form, on the page's own host; the answer leads to the sign-in page.
Logout ==
    /\ AtRest /\ nav.shows = "account" /\ up
    /\ cached # NoConfig /\ Routed(logoutAction(cached), "logout")
    /\ check_origin
    /\ live' = live \ {cookie[Here]}
    /\ active' = active \ {cookie[Here]}
    /\ cookie' = [cookie EXCEPT ![Here] = 0]
    /\ UNCHANGED <<minted, deploymentVars>>
    /\ LET page == url_for(Config, "shell", LoginPage) IN nav' = Begin(page, page)

\* POST /auth/session/workspace for a workspace the account is a member of. No
\* page offers the first choice, so it is some client of the browser's that posts.
SelectWorkspace ==
    /\ AtRest /\ up /\ nav.loc # NoUrl
    /\ cached # NoConfig /\ IsAuth(switcherAction(cached))
    /\ check_origin
    /\ SessionHere # 0 /\ SessionHere \notin active
    /\ active' = active \cup {SessionHere}
    /\ UNCHANGED <<cookie, live, minted, nav, deploymentVars>>

Change ==
    /\ changes < MaxChanges
    /\ changes' = changes + 1
    /\ nav' = [nav EXCEPT !.steady = FALSE]

\* deployment.toml is edited under running processes.
Edit(d) ==
    /\ Change
    /\ deployed' = d
    /\ UNCHANGED <<environ, up, cached, sessionVars>>

\* run_startup's two checks; a core that fails one does not serve.
StartupPasses(d, env) ==
    /\ ~(d.profile = "production" /\ d.scheme = "http")
    /\ CheckEnvReferences({d.secretRef}, env)

RestartCore(env) ==
    /\ Change
    /\ environ' = env
    /\ up' = StartupPasses(deployed, env)
    /\ UNCHANGED <<deployed, cached, sessionVars>>

RestartWeb ==
    /\ Change
    /\ cached' = NoConfig
    /\ UNCHANGED <<deployed, environ, up, sessionVars>>

SessionExpires(n) ==
    /\ Change
    /\ n \in live
    /\ live' = live \ {n}
    /\ active' = active \ {n}
    /\ UNCHANGED <<deployed, environ, up, cached, cookie, minted>>

-----------------------------------------------------------------------------
RoutingInit ==
    /\ deployed \in Deployments
    /\ environ \in Environments
    /\ up = StartupPasses(deployed, environ)
    /\ cached = NoConfig
    /\ cookie = [h \in Hosts |-> 0]
    /\ live = {} /\ active = {} /\ minted = {} /\ changes = 0
    /\ nav = [at |-> "rest", loc |-> NoUrl, ret |-> NoUrl, asked |-> NoUrl, shows |-> "nothing",
              code |-> NoHost, session |-> 0, nonceAt |-> NoHost, oauthAt |-> NoHost,
              signedIn |-> FALSE, steady |-> FALSE, fresh |-> FALSE]

\* A step of the navigation: the browser follows, a server answers.
NavigationStep ==
    \/ \E reached \in BOOLEAN : Middleware(reached)
    \/ \E passed, reached \in BOOLEAN : RenderPage(passed, reached)
    \/ CoreUnreachable
    \/ ContinueRefused \/ ContinueAtIdentity \/ ContinueWithoutGrant \/ ContinueAtHost
    \/ Login
    \/ \E approved \in BOOLEAN : ProviderAnswers(approved)
    \/ CallbackRefused \/ CallbackWithoutProvider \/ Callback

RoutingNext ==
    \/ NavigationStep
    \/ \E host \in Hosts, path \in Pages : Visit(host, path)
    \/ FollowSignIn
    \/ Logout
    \/ SelectWorkspace
    \/ \E d \in Deployments : Edit(d)
    \/ \E env \in Environments : RestartCore(env)
    \/ RestartWeb
    \/ \E n \in Ids : SessionExpires(n)

RoutingSpec == RoutingInit /\ [][RoutingNext]_routingVars

-----------------------------------------------------------------------------
\* The core's topology and the web tier's mirror of it are one: the same URL
\* for every surface and path, the same hosts, the same same-host paths, for the
\* copy that the page at hand was built with and whatever prefix the identity
\* surface is given; and no URL has an empty segment, which a browser would read
\* as a host.
OneTopology ==
    AtRest /\ cached # NoConfig => \A prefix \in Paths :
        LET c == [cached EXCEPT !.surfaces["identity"].path = prefix]
        IN  /\ application_hosts(c) = applicationHosts(c)
            /\ \A path \in Paths :
                /\ identity_path(c, path) = identityPath(c, path)
                /\ Sound(identityPath(c, path))
                /\ \A surface \in Named :
                    /\ url_for(c, surface, path) = urlFor(c, surface, path)
                    /\ Sound(urlFor(c, surface, path).path)

\* Following redirects ends: once changes cease, no state of cookies, copies
\* and deployment sends the browser round between the middleware, the identity
\* host and the provider for ever.
NavigationEnds == Going ~> AtRest

\* A navigation under one deployment that ends on a page of a live session ends
\* on the page that was asked for, on the host it was asked on, through however
\* many hosts it went.
ComesBack ==
    AtRest /\ nav.steady /\ nav.shows \in {"account", "workspace_unselected"} => nav.loc = nav.asked

\* Under one deployment the application never refuses the URLs it builds itself:
\* without a dead cookie in the way, a navigation ends on a page of its session,
\* or because the provider, the account rules or a server that did not answer
\* ended it.
OwnLinksAccepted ==
    AtRest /\ nav.steady /\ nav.fresh /\ nav.asked.path # LoginPage =>
        nav.shows \in {"account", "workspace_unselected", "unavailable", "session_missing",
                       "no_provider", "no_account", "abandoned", "nothing"}

\* A component resolves only the references its prefixes name and the paths
\* beneath them, in whole segments: shown for the internal listener's scope,
\* whatever internal.secret_ref is set to and whatever exists beside it.
SecretsStayInScope ==
    \A text \in References :
        LET covered == \E prefix \in InternalPrefixes : Covers(prefix, text)
        IN  /\ Parses(text) => (Permits(InternalPrefixes, text) <=> covered)
            /\ Resolve(text, InternalPrefixes, environ, SecretFiles) \in Refusals \/ covered

\* _session_row_from_cookie's comment: a freshly signed-in account is to reach the
\* shell and pick its workspace there. So the page that is rendered for a live
\* session offers the switcher.
WorkspaceCanBePicked ==
    AtRest /\ nav.steady /\ nav.signedIn => nav.shows # "workspace_unselected"
=============================================================================

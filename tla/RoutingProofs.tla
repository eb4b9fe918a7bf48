---------------------------- MODULE RoutingProofs ----------------------------
(***************************************************************************)
(* Proofs about the URL topology and the navigations that follow it, for   *)
(* any deployments, paths and secret references.                           *)
(*                                                                         *)
(* That the two topologies are one, and that a scope covers whole          *)
(* segments, are facts about the operators. That a navigation comes back   *)
(* (Underway) and is not refused (Welcome) are invariants of the whole     *)
(* chain of redirects.                                                     *)
(***************************************************************************)
EXTENDS Routing, SequenceTheorems, FiniteSetTheorems, TLAPS

-----------------------------------------------------------------------------
(* Scopes of secrets *)

\* Prefixes, element by element.
LEMMA PrefixElements ==
    ASSUME NEW S, NEW s \in Seq(S), NEW t \in Seq(S)
    PROVE  IsPrefix(s, t) <=> Len(s) <= Len(t) /\ \A i \in 1 .. Len(s) : s[i] = t[i]
<1>1. Len(s) \in Nat /\ Len(t) \in Nat
    BY LenProperties
<1>2. SubSeq(s, 1, Len(s)) = [i \in 1 .. Len(s) |-> s[i]]
    BY <1>1
<1>3. CASE Len(s) <= Len(t)
    <2>1. SubSeq(t, 1, Len(s)) = [i \in 1 .. Len(s) |-> t[i]]
        BY <1>1, <1>3
    <2>2. [i \in 1 .. Len(s) |-> s[i]] = [i \in 1 .. Len(s) |-> t[i]] <=> \A i \in 1 .. Len(s) : s[i] = t[i]
        OBVIOUS
    <2> QED BY <1>2, <1>3, <2>1, <2>2 DEF IsPrefix
<1>4. CASE ~(Len(s) <= Len(t))
    BY <1>4 DEF IsPrefix
<1> QED BY <1>3, <1>4

\* What Scope.permits lets a prefix match is what the prefix names and what is
\* beneath it, for any prefix.
LEMMA PrefixCoversSegments ==
    ASSUME NEW S, Slash \in S, NEW prefix \in Seq(S), prefix # <<>>, NEW text \in Seq(S)
    PROVE  Permits({prefix}, text) <=> Covers(prefix, text)
<1> DEFINE n == Len(prefix)
           m == Len(text)
<1>1. /\ n \in Nat \ {0} /\ m \in Nat /\ DOMAIN prefix = 1 .. n /\ DOMAIN text = 1 .. m
      /\ Last(prefix) = prefix[n]
    BY LenProperties, EmptySeq DEF Last
<1>a. /\ n + 1 \in Nat /\ n - 1 \in Nat /\ (n - 1) + 1 = n
      /\ \A i \in 1 .. n : i \in 1 .. (n - 1) \/ i = n
      /\ n \in 1 .. n /\ \A i \in 1 .. (n - 1) : i \in 1 .. n
      /\ \A i \in 1 .. (n + 1) : i \in 1 .. n \/ i = n + 1
      /\ n + 1 \in 1 .. (n + 1) /\ \A i \in 1 .. n : i \in 1 .. (n + 1)
      /\ (n <= m <=> n - 1 <= m /\ m > n - 1) /\ (n + 1 <= m <=> n <= m /\ m > n)
      /\ (m = n - 1 => ~(n <= m))
    <2> HIDE DEF n, m
    <2> QED BY <1>1
<1>b. (\A i \in 1 .. n : prefix[i] = text[i])
          <=> (\A i \in 1 .. (n - 1) : prefix[i] = text[i]) /\ text[n] = prefix[n]
    <2> HIDE DEF n, m
    <2> QED BY <1>1, <1>a
<1>2. CASE Last(prefix) = Slash
    <2> DEFINE stem == Front(prefix)
    <2>1. stem \in Seq(S) /\ Len(stem) = n - 1 /\ \A i \in 1 .. (n - 1) : stem[i] = prefix[i]
        BY <1>1 DEF Front
    <2>2. Permits({prefix}, text) <=> n <= m /\ \A i \in 1 .. n : prefix[i] = text[i]
        <3>1. Permits({prefix}, text) <=> text = prefix \/ IsPrefix(prefix, text)
            BY <1>2 DEF Permits
        <3>2. text = prefix => IsPrefix(prefix, text)
            BY <1>1, PrefixElements
        <3> QED BY <3>1, <3>2, PrefixElements
    <2>3. Covers(prefix, text) <=> /\ IsPrefix(stem, text)
                                   /\ \/ m = n - 1 /\ stem = prefix
                                      \/ m > n - 1 /\ text[n] = Slash
        <3>1. SubSeq(stem, 1, Len(stem)) = stem
            BY <2>1, SubSeqFull
        <3>2. (n - 1) + 1 = n
            BY <1>1
        <3> HIDE DEF stem
        <3> QED BY <1>2, <2>1, <3>1, <3>2 DEF Covers, IsPrefix, stem
    <2>4. stem # prefix
        BY <1>1, <2>1
    <2>5. IsPrefix(stem, text) <=> n - 1 <= m /\ \A i \in 1 .. (n - 1) : prefix[i] = text[i]
        BY <2>1, PrefixElements
    <2> HIDE DEF stem
    <2>6. Covers(prefix, text) <=> n <= m /\ (\A i \in 1 .. (n - 1) : prefix[i] = text[i]) /\ text[n] = prefix[n]
        <3> HIDE DEF n, m
        <3> QED BY <1>1, <1>2, <1>a, <2>3, <2>4, <2>5
    <2> HIDE DEF n, m
    <2> QED BY <1>b, <2>2, <2>6
<1>3. CASE Last(prefix) # Slash
    <2> DEFINE dir == Append(prefix, Slash)
    <2>1. /\ dir \in Seq(S) /\ Len(dir) = n + 1
          /\ (\A i \in 1 .. n : dir[i] = prefix[i]) /\ dir[n + 1] = Slash
        BY <1>1, AppendProperties
    <2> HIDE DEF dir
    <2>2. Permits({prefix}, text) <=> text = prefix \/ IsPrefix(dir, text)
        BY <1>3 DEF Permits, dir
    <2>3. IsPrefix(dir, text) <=> n + 1 <= m /\ \A i \in 1 .. (n + 1) : dir[i] = text[i]
        BY <2>1, PrefixElements
    <2>4. (\A i \in 1 .. (n + 1) : dir[i] = text[i])
          <=> (\A i \in 1 .. n : prefix[i] = text[i]) /\ text[n + 1] = Slash
        <3> HIDE DEF n, m
        <3> QED BY <1>a, <2>1
    <2>5. Covers(prefix, text) <=> /\ IsPrefix(prefix, text)
                                   /\ m = n \/ (m > n /\ text[n + 1] = Slash)
        <3>1. SubSeq(prefix, 1, n) = prefix
            BY SubSeqFull
        <3> QED BY <1>3, <3>1 DEF Covers, IsPrefix
    <2>6. IsPrefix(prefix, text) <=> n <= m /\ \A i \in 1 .. n : prefix[i] = text[i]
        BY PrefixElements
    <2>7. text = prefix <=> m = n /\ \A i \in 1 .. n : prefix[i] = text[i]
        BY <1>1, SeqEqual
    <2>8. m = n => n <= m
        BY <1>1
    <2> HIDE DEF n, m
    <2>9. IsPrefix(dir, text) <=> n <= m /\ m > n /\ (\A i \in 1 .. n : prefix[i] = text[i]) /\ text[n + 1] = Slash
        BY <1>a, <2>3, <2>4
    <2> QED BY <2>2, <2>5, <2>6, <2>7, <2>8, <2>9
<1> QED BY <1>2, <1>3

\* The internal listener's scope.
LEMMA ScopeHolds ==
    ASSUME NEW text \in Seq(Tokens), NEW env, NEW files
    PROVE  LET covered == \E prefix \in InternalPrefixes : Covers(prefix, text)
           IN  /\ Permits(InternalPrefixes, text) <=> covered
               /\ Resolve(text, InternalPrefixes, env, files) \in Refusals \/ covered
<1> DEFINE S == Tokens \cup {Scheme, Slash, "file", "env", "internal", "RHEO_INTERNAL_SECRET"}
<1>1. \A prefix \in InternalPrefixes : prefix \in Seq(S) /\ prefix # <<>>
    <2>1. {Scheme, Slash, "file", "env", "internal", "RHEO_INTERNAL_SECRET"} \subseteq S
        OBVIOUS
    <2> HIDE DEF S
    <2>2. <<Scheme, "file", Slash, "internal", Slash>> \in Seq(S) /\ <<Scheme, "file", Slash, "internal", Slash>> # <<>>
        BY <2>1
    <2>3. <<Scheme, "env", Slash, "RHEO_INTERNAL_SECRET">> \in Seq(S) /\ <<Scheme, "env", Slash, "RHEO_INTERNAL_SECRET">> # <<>>
        BY <2>1
    <2> QED BY <2>2, <2>3 DEF InternalPrefixes
<1>2. text \in Seq(S)
    BY SeqMonotonic
<1>3. Permits(InternalPrefixes, text) <=> \E prefix \in InternalPrefixes : Permits({prefix}, text)
    BY DEF Permits
<1>4. \A prefix \in InternalPrefixes : Permits({prefix}, text) <=> Covers(prefix, text)
    BY <1>1, <1>2, PrefixCoversSegments
<1>5. Permits(InternalPrefixes, text) <=> \E prefix \in InternalPrefixes : Covers(prefix, text)
    BY <1>3, <1>4
<1>6. ~Permits(InternalPrefixes, text) => Resolve(text, InternalPrefixes, env, files) \in Refusals
    BY DEF Resolve, Refusals
<1> QED BY <1>5, <1>6


-----------------------------------------------------------------------------
(* One topology *)

\* The two languages' joins are the same function.
LEMMA JoinsAgree ==
    ASSUME NEW prefix, NEW path \in Seq(Tokens)
    PROVE  join_prefix(prefix, path) = joinPrefix(prefix, path)
<1>1. path # <<>> => Head(path) = path[1]
    OBVIOUS
<1> QED BY <1>1 DEF join_prefix, joinPrefix, Root

\* Two paths put one behind the other have an empty segment only where they meet.
LEMMA ConcatSound ==
    ASSUME NEW s \in Seq(Tokens), NEW t \in Seq(Tokens), Sound(s), Sound(t),
           s # <<>>, t # <<>> => ~(s[Len(s)] = "/" /\ t[1] = "/")
    PROVE  Sound(s \o t) /\ s \o t \in Seq(Tokens)
<1> DEFINE n == Len(s)
           m == Len(t)
           u == s \o t
<1>1. /\ n \in Nat \ {0} /\ m \in Nat
      /\ u \in Seq(Tokens) /\ Len(u) = n + m
      /\ \A i \in 1 .. (n + m) : u[i] = IF i <= n THEN s[i] ELSE t[i - n]
    BY ConcatProperties, LenProperties, EmptySeq
<1>2. (\A i \in 1 .. (n - 1) : ~(s[i] = "/" /\ s[i + 1] = "/")) /\ (\A i \in 1 .. (m - 1) : ~(t[i] = "/" /\ t[i + 1] = "/"))
    BY DEF Sound
<1>3. m > 0 => ~(s[n] = "/" /\ t[1] = "/")
    BY EmptySeq
<1> HIDE DEF n, m, u
<1>4. ASSUME NEW i \in 1 .. (n + m - 1), u[i] = "/", u[i + 1] = "/" PROVE FALSE
    <2>1. i \in 1 .. (n + m) /\ i + 1 \in 1 .. (n + m) /\ i \in Nat
        BY <1>1
    <2>2. CASE i < n
        <3>1. u[i] = s[i] /\ u[i + 1] = s[i + 1] /\ i \in 1 .. (n - 1)
            BY <1>1, <2>1, <2>2
        <3> QED BY <1>2, <1>4, <3>1
    <2>3. CASE i = n
        <3>1. u[i] = s[n] /\ u[i + 1] = t[1] /\ m > 0
            <4>1. i <= n /\ ~(i + 1 <= n) /\ (i + 1) - n = 1 /\ m > 0
                BY <1>1, <2>1, <2>3
            <4> QED BY <1>1, <2>1, <2>3, <4>1
        <3> QED BY <1>3, <1>4, <3>1
    <2>4. CASE i > n
        <3>1. ~(i <= n) /\ ~(i + 1 <= n) /\ (i + 1) - n = (i - n) + 1 /\ i - n \in 1 .. (m - 1)
            BY <1>1, <2>1, <2>4
        <3>2. u[i] = t[i - n] /\ u[i + 1] = t[(i - n) + 1]
            BY <1>1, <2>1, <3>1
        <3> QED BY <1>2, <1>4, <3>1, <3>2
    <2> QED BY <1>1, <2>1, <2>2, <2>3, <2>4
<1>5. Len(u) - 1 = n + m - 1
    BY <1>1
<1> QED BY <1>1, <1>4, <1>5 DEF Sound, u

\* The root is a path, and a path of one element.
LEMMA RootIsPath == Root \in Seq(Tokens) /\ Len(Root) = 1 /\ Root[1] = "/" /\ Sound(Root) /\ IsPath(Root)
<1>1. Root \in Seq(Tokens) /\ Len(Root) = 1 /\ Root[1] = "/"
    BY TokensAssumption DEF Root
<1>2. Sound(Root)
    BY <1>1 DEF Sound
<1> QED BY <1>1, <1>2 DEF IsPath

\* What a prefix and a path are joined to has no empty segment, and begins at
\* the root when the prefix does.
LEMMA JoinSound ==
    ASSUME NEW prefix, IsPath(prefix), NEW path, IsPath(path)
    PROVE  joinPrefix(prefix, path) \in Seq(Tokens) /\ Sound(joinPrefix(prefix, path))
<1>1. prefix \in Seq(Tokens) /\ Sound(prefix) /\ path \in Seq(Tokens) /\ Sound(path)
    BY DEF IsPath
<1> DEFINE rooted == IF path # <<>> /\ path[1] = "/" THEN path ELSE Root \o path
<1>2. rooted \in Seq(Tokens) /\ Sound(rooted)
    <2>1. CASE path # <<>> /\ path[1] = "/"
        BY <1>1, <2>1
    <2>2. CASE ~(path # <<>> /\ path[1] = "/")
        <3>1. Root # <<>> /\ (path # <<>> => ~(Root[Len(Root)] = "/" /\ path[1] = "/"))
            BY <2>2, RootIsPath
        <3>2. Sound(Root \o path) /\ Root \o path \in Seq(Tokens)
            BY <1>1, <3>1, RootIsPath, ConcatSound
        <3> QED BY <2>2, <3>2
    <2> QED BY <2>1, <2>2
<1>3. joinPrefix(prefix, path) = IF prefix = <<>> \/ prefix = Root THEN rooted ELSE prefix \o rooted
    BY DEF joinPrefix, Root
<1> HIDE DEF rooted
<1>4. ~(prefix = <<>> \/ prefix = Root) => Sound(prefix \o rooted) /\ prefix \o rooted \in Seq(Tokens)
    <2> SUFFICES ASSUME ~(prefix = <<>> \/ prefix = Root) PROVE Sound(prefix \o rooted) /\ prefix \o rooted \in Seq(Tokens)
        OBVIOUS
    <2>1. prefix # <<>> /\ prefix[Len(prefix)] # "/"
        BY DEF IsPath
    <2> QED BY <1>1, <1>2, <2>1, ConcatSound
<1> QED BY <1>2, <1>3, <1>4

\* For a configuration without modules, whose prefixes are paths, the core's
\* topology and the web tier's are one.
LEMMA TopologiesAgree ==
    ASSUME NEW c, c.modules = <<>>, DOMAIN c.surfaces = Named, \A s \in Named : IsPath(c.surfaces[s].path)
    PROVE  /\ application_hosts(c) = applicationHosts(c)
           /\ \A path : IsPath(path) =>
                /\ identity_path(c, path) = identityPath(c, path)
                /\ Sound(identityPath(c, path))
                /\ \A surface \in Named :
                    /\ url_for(c, surface, path) = urlFor(c, surface, path)
                    /\ Sound(urlFor(c, surface, path).path)
<1>1. DOMAIN c.modules = {} /\ "shell" \in Named /\ "identity" \in Named
    BY DEF Named
<1>2. \A h : h \in application_hosts(c) <=> h \in applicationHosts(c)
    <2>1. CASE c.mode = "path"
        BY <1>1, <2>1 DEF application_hosts, applicationHosts
    <2>2. CASE c.mode # "path"
        BY <1>1, <2>2 DEF application_hosts, applicationHosts
    <2> QED BY <2>1, <2>2
<1>3. ASSUME NEW path, IsPath(path)
      PROVE  /\ identity_path(c, path) = identityPath(c, path)
             /\ Sound(identityPath(c, path))
             /\ \A surface \in Named : /\ url_for(c, surface, path) = urlFor(c, surface, path)
                                       /\ Sound(urlFor(c, surface, path).path)
    <2>1. path \in Seq(Tokens) /\ IsPath(<<>>)
        BY <1>3 DEF IsPath, Sound
    <2>2. identity_path(c, path) = identityPath(c, path) /\ Sound(identityPath(c, path))
        BY <1>1, <1>3, <2>1, JoinsAgree, JoinSound DEF identity_path, identityPath
    <2>3. ASSUME NEW surface \in Named
          PROVE  url_for(c, surface, path) = urlFor(c, surface, path) /\ Sound(urlFor(c, surface, path).path)
        <3> DEFINE p == c.surfaces[surface]
        <3>1. \A q : join_prefix(q, path) = joinPrefix(q, path)
            BY <2>1, JoinsAgree
        <3>2. Sound(joinPrefix(p.path, path)) /\ Sound(joinPrefix(<<>>, path))
            BY <1>3, <2>1, JoinSound
        <3>3. url_for(c, surface, path) = urlFor(c, surface, path)
            BY <1>1, <3>1 DEF url_for, urlFor, surfaceFor
        <3>4. Sound(NoUrl.path)
            BY DEF Sound, NoUrl
        <3>5. urlFor(c, surface, path).path \in {NoUrl.path, joinPrefix(p.path, path), joinPrefix(<<>>, path)}
            BY <1>1 DEF urlFor, surfaceFor
        <3> QED BY <3>2, <3>3, <3>4, <3>5
    <2> QED BY <2>2, <2>3
<1> QED BY <1>2, <1>3

\* What an operator deploys is such a configuration, with any prefix of the
\* identity surface.
LEMMA DeployedConfigs ==
    ASSUME NEW d \in Deployments
    PROVE  /\ from_settings(d).modules = <<>> /\ DOMAIN from_settings(d).surfaces = Named
           /\ \A s \in Named : IsPath(from_settings(d).surfaces[s].path)
<1>1. IsPath(<<>>)
    BY DEF IsPath, Sound
<1>2. \A s \in DOMAIN d.path : IsPath(d.path[s])
    BY DeploymentsAssumption
<1> QED BY <1>1, <1>2 DEF from_settings

\* The settings are ones that were deployed, and so is the web tier's copy.
CopyInOrder ==
    /\ deployed \in Deployments
    /\ cached = NoConfig \/ \E d \in Deployments : cached = from_settings(d)

LEMMA CopyInit == RoutingInit => CopyInOrder
BY DEF RoutingInit, CopyInOrder

LEMMA CopyStep == CopyInOrder /\ [RoutingNext]_routingVars => CopyInOrder'
<1> SUFFICES ASSUME CopyInOrder, [RoutingNext]_routingVars PROVE CopyInOrder'
    OBVIOUS
<1> USE DEF CopyInOrder
<1>1. ASSUME NEW reached \in BOOLEAN, cached' = loadRoutingConfig(reached), deployed' = deployed PROVE CopyInOrder'
    BY <1>1 DEF loadRoutingConfig, Config
<1>2. ASSUME deployed' \in Deployments, cached' \in {cached, NoConfig} PROVE CopyInOrder'
    BY <1>2
<1>3. CASE \E reached \in BOOLEAN : Middleware(reached)
    BY <1>1, <1>3 DEF Middleware
<1>4. CASE \E passed, reached \in BOOLEAN : RenderPage(passed, reached)
    BY <1>1, <1>4 DEF RenderPage
<1>5. CASE CoreUnreachable \/ ContinueRefused \/ ContinueAtIdentity \/ ContinueWithoutGrant \/ ContinueAtHost
    BY <1>2, <1>5 DEF CoreUnreachable, ContinueRefused, ContinueAtIdentity, ContinueWithoutGrant, ContinueAtHost, deploymentVars
<1>6. CASE Login \/ (\E approved \in BOOLEAN : ProviderAnswers(approved)) \/ CallbackRefused \/ CallbackWithoutProvider \/ Callback
    BY <1>2, <1>6 DEF Login, ProviderAnswers, CallbackRefused, CallbackWithoutProvider, Callback, deploymentVars
<1>7. CASE (\E host \in Hosts, path \in Pages : Visit(host, path)) \/ FollowSignIn \/ Logout \/ SelectWorkspace
    BY <1>2, <1>7 DEF Visit, FollowSignIn, Logout, SelectWorkspace, deploymentVars
<1>8. CASE (\E d \in Deployments : Edit(d)) \/ (\E env \in Environments : RestartCore(env)) \/ RestartWeb
           \/ (\E n \in Ids : SessionExpires(n))
    BY <1>2, <1>8 DEF Edit, RestartCore, RestartWeb, SessionExpires
<1>9. CASE UNCHANGED routingVars
    BY <1>2, <1>9 DEF routingVars
<1> QED BY <1>3, <1>4, <1>5, <1>6, <1>7, <1>8, <1>9 DEF RoutingNext, NavigationStep

LEMMA OneTopologyHolds == CopyInOrder => OneTopology
<1> SUFFICES ASSUME CopyInOrder, cached # NoConfig, NEW prefix \in Paths
             PROVE  LET c == [cached EXCEPT !.surfaces["identity"].path = prefix]
                    IN  /\ application_hosts(c) = applicationHosts(c)
                        /\ \A path \in Paths :
                            /\ identity_path(c, path) = identityPath(c, path)
                            /\ Sound(identityPath(c, path))
                            /\ \A surface \in Named :
                                /\ url_for(c, surface, path) = urlFor(c, surface, path)
                                /\ Sound(urlFor(c, surface, path).path)
    BY DEF OneTopology
<1> PICK d \in Deployments : cached = from_settings(d)
    BY DEF CopyInOrder
<1> DEFINE c == [cached EXCEPT !.surfaces["identity"].path = prefix]
<1>1. c.modules = <<>> /\ DOMAIN c.surfaces = Named
    BY DeployedConfigs DEF from_settings
<1>2. \A s \in Named : IsPath(c.surfaces[s].path)
    <2>1. IsPath(prefix) /\ \A s \in Named : IsPath(cached.surfaces[s].path)
        BY PathsAssumption, DeployedConfigs
    <2>2. \A s \in Named : c.surfaces[s].path \in {prefix, cached.surfaces[s].path}
        BY DEF from_settings
    <2> QED BY <2>1, <2>2
<1> HIDE DEF c
<1> QED BY <1>1, <1>2, TopologiesAgree, PathsAssumption DEF c

-----------------------------------------------------------------------------
(* Navigations that come back *)

NavFields == {"at", "loc", "ret", "asked", "shows", "code", "session", "nonceAt", "oauthAt", "signedIn",
              "steady", "fresh"}

IsUrl(u) == u = [scheme |-> u.scheme, host |-> u.host, path |-> u.path]

\* A URL of the application, and a page of it.
OwnUrl(c, u) == IsUrl(u) /\ u.scheme = c.scheme /\ is_application_host(c, u.host)
OwnPage(c, u) ==
    OwnUrl(c, u) /\ u.path \in Seq(Tokens) /\ u.path # <<>> /\ u.path[1] = "/" /\ ~IsAuth(u.path)

\* A navigation n under configuration c, wherever between the hosts it is: the
\* return is what was asked for, whoever had it; every URL it is sent to is the
\* application's own, and one that is not an identity route is the one asked for;
\* a code is for the host that is to be returned to; and who is at the callback
\* has had the return checked.
Underway(n, c) ==
    /\ OwnPage(c, n.asked) /\ n.ret = n.asked
    /\ OwnUrl(c, n.loc)
    /\ ~IsAuth(n.loc.path) => n.loc = n.asked
    /\ n.code \in {NoHost, normalize_host(n.asked.host)}
    /\ Routed(n.loc.path, "callback") \/ n.at = "provider" =>
            is_application_host(c, normalize_host(n.asked.host))

\* A page of a live session is shown where a page was asked for, and nothing is
\* shown on the way.
ShownOnPages(n) ==
    /\ DOMAIN n = NavFields
    /\ n.at \in {"going", "provider"} => n.shows = "nothing"
    /\ n.shows \in {"account", "workspace_unselected"} => ~IsAuth(n.loc.path)

NavInOrder ==
    /\ CopyInOrder
    /\ ShownOnPages(nav)
    /\ nav.steady => cached \in {NoConfig, Config} /\ Underway(nav, Config)

\* The routes of the identity surface.
LEMMA AuthPaths ==
    /\ \A path, name : Routed(path, name) => IsAuth(path)
    /\ \A name : IsAuth(<<"/", "auth", "/", name>>)
    /\ \A name, other : Routed(<<"/", "auth", "/", name>>, other) <=> name = other
<1>1. \A name : LET p == <<"/", "auth", "/", name>> IN Len(p) = 4 /\ p[1] = "/" /\ p[2] = "auth" /\ p[4] = name
    OBVIOUS
<1>2. \A name : IsAuth(<<"/", "auth", "/", name>>)
    BY <1>1 DEF IsAuth
<1>3. \A name, other : Routed(<<"/", "auth", "/", name>>, other) => name = other
    BY <1>1 DEF Routed
<1> QED BY <1>2, <1>3 DEF Routed

\* Two hosts of one topology that are the same once their ports are dropped are
\* the same; and none is the host that stands for none.
LEMMA SameHost ==
    ASSUME NEW d \in Deployments, NEW g, NEW h,
           is_application_host(from_settings(d), g), is_application_host(from_settings(d), h)
    PROVE  /\ normalize_host(g) = normalize_host(h) => g = h
           /\ normalize_host(g) # NoHost
<1> DEFINE c == from_settings(d)
<1>1. DOMAIN c.modules = {} /\ c.base_host.name # ""
    <2>1. c.modules = <<>> /\ c.base_host = d.base_host
        BY DEF from_settings
    <2>2. d.base_host.name # ""
        BY DeploymentsAssumption
    <2>3. DOMAIN <<>> = {}
        OBVIOUS
    <2> HIDE DEF c
    <2> QED BY <2>1, <2>2, <2>3
<1> HIDE DEF c
<1>2. \A x : is_application_host(c, x) => \E label : x = Host(label, c.base_host)
    BY <1>1 DEF is_application_host, application_hosts
<1>3. PICK k : g = Host(k, c.base_host)
    BY <1>2 DEF c
<1>4. PICK l : h = Host(l, c.base_host)
    BY <1>2 DEF c
<1>5. normalize_host(g).label = k /\ normalize_host(h).label = l /\ normalize_host(g).name = c.base_host.name
    BY <1>3, <1>4 DEF normalize_host, Host
<1>6. NoHost.name = ""
    BY DEF NoHost
<1> QED BY <1>1, <1>3, <1>4, <1>5, <1>6

\* The identity surface's own URLs, in both languages.
LEMMA IdentityUrls ==
    ASSUME NEW d \in Deployments, NEW name \in {"login", "continue", "callback"}
    PROVE  LET c == from_settings(d)
               path == <<"/", "auth", "/", name>>
               url == url_for(c, "identity", <<"/", name>>)
           IN  /\ OwnUrl(c, url) /\ url.path = path /\ url.host = identity_host(c)
               /\ urlFor(c, "identity", <<"/", name>>) = url
               /\ identity_path(c, <<"/", name>>) = path
<1> DEFINE c == from_settings(d)
<1>1. IsPath(<<"/", name>>)
    <2>1. LET p == <<"/", name>> IN p \in Seq(Tokens) /\ Len(p) = 2 /\ p[2] = name /\ p[2] # "/"
        BY TokensAssumption
    <2> DEFINE p == <<"/", name>>
    <2>2. Sound(p)
        BY <2>1 DEF Sound
    <2> HIDE DEF p
    <2> QED BY <2>1, <2>2 DEF IsPath, p
<1>2. /\ c.surfaces["identity"].path = <<"/", "auth">> /\ ~c.surfaces["identity"].external
      /\ ~c.surfaces["identity"].reserved /\ c.surfaces["identity"].fixed_path
      /\ "identity" \in Named
    BY DeploymentsAssumption DEF from_settings, Named
<1>3. join_prefix(<<"/", "auth">>, <<"/", name>>) = <<"/", "auth", "/", name>>
    <2>1. <<"/", name>> # <<>> /\ Head(<<"/", name>>) = "/"
        OBVIOUS
    <2>2. <<"/", "auth">> # <<>> /\ <<"/", "auth">> # <<"/">>
        OBVIOUS
    <2>3. <<"/", "auth">> \o <<"/", name>> = <<"/", "auth", "/", name>>
        <3> DEFINE s == <<"/", "auth">>
                   t == <<"/", name>>
                   u == <<"/", "auth", "/", name>>
        <3>1. /\ s \in Seq(Tokens) /\ Len(s) = 2 /\ s[1] = "/" /\ s[2] = "auth"
              /\ t \in Seq(Tokens) /\ Len(t) = 2 /\ t[1] = "/" /\ t[2] = name
              /\ u \in Seq(Tokens) /\ Len(u) = 4 /\ u[1] = "/" /\ u[2] = "auth" /\ u[3] = "/" /\ u[4] = name
            BY TokensAssumption
        <3> HIDE DEF s, t, u
        <3>2. /\ s \o t \in Seq(Tokens) /\ Len(s \o t) = Len(s) + Len(t)
              /\ \A i \in 1 .. (Len(s) + Len(t)) : (s \o t)[i] = IF i <= Len(s) THEN s[i] ELSE t[i - Len(s)]
            BY <3>1, ConcatProperties
        <3>3. Len(s) + Len(t) = 4 /\ \A i \in 1 .. 4 : i = 1 \/ i = 2 \/ i = 3 \/ i = 4
            BY <3>1
        <3>4. \A i \in 1 .. 4 : (s \o t)[i] = u[i]
            <4>1. \A i \in 1 .. 4 : (s \o t)[i] = IF i <= 2 THEN s[i] ELSE t[i - 2]
                BY <3>1, <3>2, <3>3
            <4>2. (s \o t)[1] = s[1] /\ (s \o t)[2] = s[2] /\ (s \o t)[3] = t[1] /\ (s \o t)[4] = t[2]
                <5>1. 1 \in 1 .. 4 /\ 2 \in 1 .. 4 /\ 3 \in 1 .. 4 /\ 4 \in 1 .. 4
                    OBVIOUS
                <5>2. 1 <= 2 /\ 2 <= 2 /\ ~(3 <= 2) /\ ~(4 <= 2) /\ 3 - 2 = 1 /\ 4 - 2 = 2
                    OBVIOUS
                <5>3. (s \o t)[1] = s[1] /\ (s \o t)[2] = s[2]
                    BY <4>1, <5>1, <5>2
                <5>4. (s \o t)[3] = t[3 - 2] /\ (s \o t)[4] = t[4 - 2]
                    BY <4>1, <5>1, <5>2
                <5> QED BY <5>2, <5>3, <5>4
            <4> QED BY <3>1, <3>3, <4>2
        <3>5. s \o t = u
            BY <3>1, <3>2, <3>3, <3>4, SeqEqual
        <3> QED BY <3>5 DEF s, t, u
    <2> QED BY <2>1, <2>2, <2>3 DEF join_prefix, Root
<1> HIDE DEF c
<1>4. url_for(c, "identity", <<"/", name>>) = [scheme |-> c.scheme, host |-> identity_host(c), path |-> <<"/", "auth", "/", name>>]
    BY <1>2, <1>3 DEF url_for, identity_host
<1>5. is_application_host(c, identity_host(c))
    BY DEF is_application_host, application_hosts, identity_host
<1>6. urlFor(c, "identity", <<"/", name>>) = url_for(c, "identity", <<"/", name>>)
    BY <1>1, <1>2, DeployedConfigs, TopologiesAgree DEF c
<1>7. identity_path(c, <<"/", name>>) = <<"/", "auth", "/", name>>
    BY <1>2, <1>3 DEF identity_path
<1>8. /\ OwnUrl(c, url_for(c, "identity", <<"/", name>>))
      /\ url_for(c, "identity", <<"/", name>>).path = <<"/", "auth", "/", name>>
      /\ url_for(c, "identity", <<"/", name>>).host = identity_host(c)
    BY <1>4, <1>5 DEF OwnUrl, IsUrl
<1> QED BY <1>6, <1>7, <1>8 DEF c

\* Where the shell's prefix leads is not an identity route.
LEMMA BehindShell ==
    ASSUME NEW prefix, IsPath(prefix), prefix = <<>> \/ prefix[1] = "/", ~IsAuth(prefix),
           NEW path \in {Root, LoginPage}
    PROVE  LET p == join_prefix(prefix, path)
           IN  p \in Seq(Tokens) /\ p # <<>> /\ p[1] = "/" /\ ~IsAuth(p)
<1>1. path \in Seq(Tokens) /\ path # <<>> /\ Head(path) = "/" /\ path[1] = "/" /\ ~IsAuth(path)
    <2>1. CASE path = Root
        BY <2>1, RootIsPath DEF IsAuth
    <2>2. CASE path = LoginPage
        <3>1. LET p == <<"/", "login">> IN p \in Seq(Tokens) /\ p # <<>> /\ Head(p) = "/" /\ p[1] = "/" /\ p[2] # "auth"
            BY TokensAssumption
        <3> QED BY <2>2, <3>1 DEF LoginPage, IsAuth
    <2> QED BY <2>1, <2>2
<1>2. CASE prefix \in {<<>>, Root}
    BY <1>1, <1>2 DEF join_prefix
<1>3. CASE prefix \notin {<<>>, Root}
    <2> DEFINE p == prefix \o path
    <2>1. prefix \in Seq(Tokens) /\ prefix[1] = "/" /\ prefix # <<>>
        BY <1>3 DEF IsPath
    <2>2. Len(prefix) >= 2
        <3>1. Len(prefix) \in Nat /\ Len(prefix) # 0
            BY <2>1, EmptySeq, LenProperties
        <3>2. ASSUME Len(prefix) = 1 PROVE FALSE
            <4>1. \A i \in 1 .. Len(prefix) : prefix[i] = Root[i]
                BY <2>1, <3>2, RootIsPath
            <4>2. prefix = Root
                BY <2>1, <3>2, <4>1, RootIsPath, SeqEqual
            <4> QED BY <1>3, <4>2
        <3>3. \A n \in Nat : n # 0 /\ n # 1 => n >= 2
            OBVIOUS
        <3> QED BY <3>1, <3>2, <3>3
    <2>3. prefix[2] # "auth"
        BY <2>1, <2>2 DEF IsAuth
    <2>4. p \in Seq(Tokens) /\ Len(p) = Len(prefix) + Len(path) /\ p[1] = prefix[1] /\ p[2] = prefix[2]
        <3>1. 1 \in 1 .. (Len(prefix) + Len(path)) /\ 2 \in 1 .. (Len(prefix) + Len(path)) /\ 1 <= Len(prefix) /\ 2 <= Len(prefix)
            BY <1>1, <2>1, <2>2, LenProperties
        <3> QED BY <1>1, <2>1, <3>1, ConcatProperties
    <2>5. p # <<>>
        BY <1>1, <2>1, <2>2, <2>4, EmptySeq, LenProperties
    <2>6. join_prefix(prefix, path) = p
        BY <1>1, <1>3 DEF join_prefix
    <2> HIDE DEF p
    <2> QED BY <2>1, <2>3, <2>4, <2>5, <2>6 DEF IsAuth
<1> QED BY <1>2, <1>3

\* The shell's own URLs.
LEMMA ShellUrls ==
    ASSUME NEW d \in Deployments, NEW path \in {Root, LoginPage}
    PROVE  OwnPage(from_settings(d), url_for(from_settings(d), "shell", path))
<1> DEFINE c == from_settings(d)
           shell == c.surfaces["shell"]
<1>1. /\ ~shell.external /\ ~shell.reserved /\ ~shell.fixed_path
      /\ IsPath(shell.path) /\ (shell.path = <<>> \/ shell.path[1] = "/") /\ ~IsAuth(shell.path)
      /\ "shell" \in Named
    BY DeploymentsAssumption DEF from_settings, Named
<1>2. IsPath(<<>>) /\ ~IsAuth(<<>>)
    BY DEF IsPath, Sound, IsAuth
<1> HIDE DEF c
<1>3. CASE c.mode = "path"
    <2> DEFINE h == Host("", c.base_host)
    <2>1. url_for(c, "shell", path) = [scheme |-> c.scheme, host |-> h, path |-> join_prefix(shell.path, path)]
        BY <1>1, <1>3 DEF url_for
    <2>2. is_application_host(c, h)
        BY <1>3 DEF is_application_host, application_hosts
    <2> HIDE DEF h
    <2> QED BY <1>1, <2>1, <2>2, BehindShell DEF OwnPage, OwnUrl, IsUrl, c
<1>4. CASE c.mode # "path"
    <2> DEFINE h == Host(shell.host, c.base_host)
    <2>1. url_for(c, "shell", path) = [scheme |-> c.scheme, host |-> h, path |-> join_prefix(<<>>, path)]
        BY <1>1, <1>4 DEF url_for
    <2>2. is_application_host(c, h)
        BY <1>4 DEF is_application_host, application_hosts
    <2> HIDE DEF h
    <2> QED BY <1>2, <2>1, <2>2, BehindShell DEF OwnPage, OwnUrl, IsUrl, c
<1> QED BY <1>3, <1>4 DEF c

\* A redirect to an identity route of the application, or to what was asked for.
LEMMA Redirected ==
    ASSUME NEW c, NEW n, NEW k, Underway(n, c), k.asked = n.asked, k.ret = n.asked,
           k.code \in {n.code, NoHost, normalize_host(n.asked.host)},
           (OwnUrl(c, k.loc) /\ IsAuth(k.loc.path)) \/ k.loc = n.asked,
           Routed(k.loc.path, "callback") \/ k.at = "provider" => is_application_host(c, normalize_host(n.asked.host))
    PROVE  Underway(k, c)
BY DEF Underway, OwnPage

\* What a step that leaves the deployment as it is has to keep.
StepInOrder ==
    ShownOnPages(nav)' /\ (nav.steady' => cached' \in {NoConfig, Config} /\ Underway(nav', Config))

\* A new navigation is under way from its first request.
LEMMA BeginInOrder ==
    ASSUME NEW loc, NEW ret, nav' = Begin(loc, ret), cached' = cached,
           cached \in {NoConfig, Config} =>
                OwnPage(Config, ret) /\ (loc = ret \/ (OwnUrl(Config, loc) /\ Routed(loc.path, "login")))
    PROVE  StepInOrder
<1>1. /\ DOMAIN nav' = NavFields /\ nav'.at = "going" /\ nav'.shows = "nothing" /\ nav'.loc = loc /\ nav'.ret = ret
      /\ nav'.asked = ret /\ nav'.code = NoHost /\ (nav'.steady <=> cached \in {NoConfig, Config})
    BY DEF Begin, NavFields
<1>2. ShownOnPages(nav)'
    BY <1>1 DEF ShownOnPages
<1>3. ASSUME nav.steady' PROVE Underway(nav', Config)
    <2>1. CASE loc = ret
        BY <1>1, <1>3, <2>1, AuthPaths DEF Underway, OwnPage
    <2>2. CASE OwnUrl(Config, loc) /\ Routed(loc.path, "login")
        <3>1. IsAuth(loc.path) /\ ~Routed(loc.path, "callback")
            BY <2>2, AuthPaths DEF Routed
        <3> QED BY <1>1, <1>3, <2>2, <3>1 DEF Underway
    <2> QED BY <1>1, <1>3, <2>1, <2>2
<1> QED BY <1>1, <1>2, <1>3 DEF StepInOrder

\* An answer that is shown where the navigation is.
LEMMA EndInOrder ==
    ASSUME NavInOrder, NEW shows, End(shows), cached' = cached \/ \E reached \in BOOLEAN : cached' = loadRoutingConfig(reached),
           shows \in {"account", "workspace_unselected"} => ~IsAuth(nav.loc.path)
    PROVE  StepInOrder
<1>1. /\ DOMAIN nav' = NavFields /\ nav'.at = "rest" /\ nav'.shows = shows /\ nav'.loc = nav.loc /\ nav'.ret = nav.ret
      /\ nav'.asked = nav.asked /\ nav'.code = nav.code /\ nav'.steady = nav.steady
    BY DEF End, NavInOrder, ShownOnPages, NavFields
<1>2. ShownOnPages(nav)'
    BY <1>1 DEF ShownOnPages
<1>3. nav.steady => cached' \in {NoConfig, Config} /\ Underway(nav', Config)
    BY <1>1 DEF NavInOrder, Underway, loadRoutingConfig
<1> QED BY <1>1, <1>2, <1>3 DEF StepInOrder

\* The middleware sends what was asked for along as the return.
LEMMA MiddlewareInOrder ==
    ASSUME NavInOrder, NEW reached \in BOOLEAN, Middleware(reached)
    PROVE  StepInOrder
<1> DEFINE loaded == loadRoutingConfig(reached)
           u == continueHref(loaded, nav.loc)
           r == [scheme |-> loaded.scheme, host |-> nav.loc.host, path |-> joinPrefix(<<>>, nav.loc.path)]
<1>1. \E x : nav' = [nav EXCEPT !.loc = u, !.ret = r, !.nonceAt = x]
    BY Zenon DEF Middleware
<1>2. /\ DOMAIN nav' = NavFields /\ nav'.at = nav.at /\ nav'.shows = nav.shows /\ nav'.loc = u /\ nav'.ret = r
      /\ nav'.asked = nav.asked /\ nav'.code = nav.code /\ nav'.steady = nav.steady
    <2> HIDE DEF u, r
    <2> QED BY <1>1 DEF NavInOrder, ShownOnPages, NavFields
<1>3. Going /\ ~IsAuth(nav.loc.path) /\ loaded # NoConfig /\ cached' = loaded
    BY DEF Middleware
<1>4. ShownOnPages(nav)'
    BY <1>2, <1>3 DEF ShownOnPages, NavInOrder, Going
<1>5. ASSUME nav.steady PROVE cached' \in {NoConfig, Config} /\ Underway(nav', Config)
    <2>1. Underway(nav, Config) /\ loaded = Config
        BY <1>3, <1>5 DEF NavInOrder, loadRoutingConfig
    <2>2. OwnUrl(Config, u) /\ u.path = <<"/", "auth", "/", "continue">>
        BY <2>1, IdentityUrls DEF continueHref, Config, NavInOrder, CopyInOrder
    <2>3. nav.loc = nav.asked /\ OwnPage(Config, nav.asked)
        BY <1>3, <2>1 DEF Underway
    <2>4. joinPrefix(<<>>, nav.loc.path) = nav.asked.path
        BY <2>3 DEF joinPrefix, OwnPage
    <2>5. r = nav.asked
        BY <2>1, <2>3, <2>4 DEF OwnPage, OwnUrl, IsUrl
    <2>6. IsAuth(u.path) /\ ~Routed(u.path, "callback")
        BY <2>2, AuthPaths
    <2> HIDE DEF u, r, loaded
    <2>7. nav'.at # "provider"
        BY <1>2, <1>3 DEF Going
    <2> QED BY <1>2, <1>3, <2>1, <2>2, <2>5, <2>6, <2>7, Redirected
<1> QED BY <1>2, <1>4, <1>5 DEF StepInOrder

\* A page is rendered where a page was asked for.
LEMMA RenderInOrder ==
    ASSUME NavInOrder, NEW passed \in BOOLEAN, NEW reached \in BOOLEAN, RenderPage(passed, reached)
    PROVE  StepInOrder
BY EndInOrder DEF RenderPage

\* The identity host sends the browser to sign in, back home, or with a code to
\* the host it is to return to.
LEMMA ContinueAtIdentityInOrder ==
    ASSUME NavInOrder, ContinueAtIdentity PROVE StepInOrder
<1>1. PICK u, x, y : /\ nav' = [nav EXCEPT !.loc = u, !.code = x, !.session = y]
                     /\ \/ u = [nav.loc EXCEPT !.path = identity_path(Config, <<"/", "login">>)] /\ x = nav.code
                        \/ u = [nav.loc EXCEPT !.path = nav.ret.path] /\ x = nav.code /\ ReturnHost = Here
                        \/ u = [scheme |-> Config.scheme, host |-> ReturnHost, path |-> identity_path(Config, <<"/", "continue">>)]
                           /\ x = ReturnHost
    <2>1. DOMAIN nav = NavFields
        BY DEF NavInOrder, ShownOnPages
    <2>2. \A u : [nav EXCEPT !.loc = u] = [nav EXCEPT !.loc = u, !.code = nav.code, !.session = nav.session]
        BY <2>1 DEF NavFields
    <2>3. CASE SessionHere = 0
        BY <2>2, <2>3, Zenon DEF ContinueAtIdentity, Go
    <2>4. CASE SessionHere # 0 /\ ReturnHost = Here
        BY <2>2, <2>4, Zenon DEF ContinueAtIdentity, Go, path_and_query
    <2>5. CASE SessionHere # 0 /\ ReturnHost # Here
        <3> DEFINE w == [scheme |-> Config.scheme, host |-> ReturnHost, path |-> identity_path(Config, <<"/", "continue">>)]
        <3>1. nav' = [nav EXCEPT !.code = ReturnHost, !.session = SessionHere, !.loc = w]
            BY <2>5, Zenon DEF ContinueAtIdentity
        <3>2. nav' = [nav EXCEPT !.loc = w, !.code = ReturnHost, !.session = SessionHere]
            <4> HIDE DEF w
            <4> QED BY <2>1, <3>1 DEF NavFields
        <3> QED BY <3>2, Zenon
    <2> QED BY <2>3, <2>4, <2>5, Zenon
<1>2. /\ Going /\ is_application_host(Config, ReturnHost) /\ cached' = cached
    BY DEF ContinueAtIdentity, Requested, deploymentVars
<1>3. /\ DOMAIN nav' = NavFields /\ nav'.at = nav.at /\ nav'.shows = nav.shows /\ nav'.loc = u /\ nav'.ret = nav.ret
      /\ nav'.asked = nav.asked /\ nav'.code = x /\ nav'.steady = nav.steady
    BY <1>1 DEF NavInOrder, ShownOnPages, NavFields
<1>4. ShownOnPages(nav)'
    BY <1>2, <1>3 DEF ShownOnPages, NavInOrder, Going
<1>5. ASSUME nav.steady PROVE cached' \in {NoConfig, Config} /\ Underway(nav', Config)
    <2>1. Underway(nav, Config) /\ cached' \in {NoConfig, Config} /\ nav'.at # "provider"
        BY <1>2, <1>3, <1>5 DEF NavInOrder, Going
    <2>2. OwnUrl(Config, nav.loc) /\ OwnPage(Config, nav.asked) /\ nav.ret = nav.asked
        BY <2>1 DEF Underway
    <2>3. \A path : LET v == [nav.loc EXCEPT !.path = path]
                    IN  OwnUrl(Config, v) /\ v.path = path /\ v.host = nav.loc.host /\ v.scheme = nav.loc.scheme
        BY <2>2 DEF OwnUrl, IsUrl
    <2>4. \A name \in {"login", "continue"} :
            /\ identity_path(Config, <<"/", name>>) = <<"/", "auth", "/", name>>
            /\ IsAuth(identity_path(Config, <<"/", name>>)) /\ ~Routed(identity_path(Config, <<"/", name>>), "callback")
        BY IdentityUrls, AuthPaths DEF Config, NavInOrder, CopyInOrder
    <2>5. CASE u = [nav.loc EXCEPT !.path = identity_path(Config, <<"/", "login">>)] /\ x = nav.code
        <3>1. OwnUrl(Config, u) /\ IsAuth(u.path) /\ ~Routed(u.path, "callback")
            BY <2>3, <2>4, <2>5
        <3> QED BY <1>3, <2>1, <2>2, <2>5, <3>1, Redirected
    <2>6. CASE u = [nav.loc EXCEPT !.path = nav.ret.path] /\ x = nav.code /\ ReturnHost = Here
        <3>1. nav.loc.host = nav.asked.host
            BY <2>2, <2>6, SameHost DEF ReturnHost, Here, OwnPage, OwnUrl, Config, NavInOrder, CopyInOrder
        <3>2. u = nav.asked
            BY <2>2, <2>3, <2>6, <3>1 DEF OwnPage, OwnUrl, IsUrl
        <3>3. ~Routed(u.path, "callback")
            BY <2>2, <3>2, AuthPaths DEF OwnPage
        <3> QED BY <1>3, <2>1, <2>2, <2>6, <3>2, <3>3, Redirected
    <2>7. CASE u = [scheme |-> Config.scheme, host |-> ReturnHost, path |-> identity_path(Config, <<"/", "continue">>)]
               /\ x = ReturnHost
        <3>1. OwnUrl(Config, u) /\ IsAuth(u.path) /\ ~Routed(u.path, "callback")
            BY <1>2, <2>4, <2>7 DEF OwnUrl, IsUrl
        <3>2. x = normalize_host(nav.asked.host)
            BY <2>2, <2>7 DEF ReturnHost
        <3> QED BY <1>3, <2>1, <2>2, <3>1, <3>2, Redirected
    <2> QED BY <1>1, <2>5, <2>6, <2>7
<1> QED BY <1>3, <1>4, <1>5 DEF StepInOrder

\* A grant is redeemed on the host it was written for, and leads back home there.
LEMMA ContinueAtHostInOrder ==
    ASSUME NavInOrder, ContinueAtHost PROVE StepInOrder
<1>1. /\ Going /\ is_application_host(Config, ReturnHost) /\ cached' = cached
      /\ nav.code = Here
    BY DEF ContinueAtHost, Requested, deploymentVars, GrantIsForHere
<1>2. CASE End("session_secret_exists")
    BY <1>1, <1>2, EndInOrder
<1>3. CASE nav' = [nav EXCEPT !.code = NoHost, !.nonceAt = NoHost, !.loc.path = path_and_query(nav.ret)]
    <2> DEFINE u == [nav.loc EXCEPT !.path = nav.ret.path]
    <2>1. /\ DOMAIN nav' = NavFields /\ nav'.at = nav.at /\ nav'.shows = nav.shows /\ nav'.loc = u /\ nav'.ret = nav.ret
          /\ nav'.asked = nav.asked /\ nav'.code = NoHost /\ nav'.steady = nav.steady
        BY <1>3 DEF NavInOrder, ShownOnPages, NavFields, path_and_query
    <2>2. ShownOnPages(nav)'
        BY <1>1, <2>1 DEF ShownOnPages, NavInOrder, Going
    <2>3. ASSUME nav.steady PROVE cached' \in {NoConfig, Config} /\ Underway(nav', Config)
        <3>1. Underway(nav, Config) /\ cached' \in {NoConfig, Config} /\ nav'.at # "provider"
            BY <1>1, <2>1, <2>3 DEF NavInOrder, Going
        <3>2. OwnUrl(Config, nav.loc) /\ OwnPage(Config, nav.asked) /\ nav.ret = nav.asked
              /\ nav.code \in {NoHost, normalize_host(nav.asked.host)}
            BY <3>1 DEF Underway
        <3>3. deployed \in Deployments /\ is_application_host(Config, nav.loc.host) /\ is_application_host(Config, nav.asked.host)
            BY <3>2 DEF OwnPage, OwnUrl, NavInOrder, CopyInOrder
        <3>4. nav.loc.host = nav.asked.host
            BY <1>1, <3>2, <3>3, SameHost DEF Here, Config
        <3>5. u = nav.asked
            BY <3>2, <3>4 DEF OwnPage, OwnUrl, IsUrl
        <3>6. ~Routed(u.path, "callback")
            BY <3>2, <3>5, AuthPaths DEF OwnPage
        <3> HIDE DEF u
        <3> QED BY <2>1, <3>1, <3>2, <3>5, <3>6, Redirected
    <2> QED BY <2>1, <2>2, <2>3 DEF StepInOrder
<1> QED BY <1>2, <1>3, Zenon DEF ContinueAtHost

\* The provider is asked for a return that has been checked.
LEMMA LoginInOrder ==
    ASSUME NavInOrder, Login PROVE StepInOrder
<1>1. Going /\ cached' = cached
    BY DEF Login, Requested, deploymentVars
<1>2. CASE ~deployed.provider \/ ~is_application_host(Config, ReturnHost)
    BY <1>1, <1>2, EndInOrder DEF Login
<1>3. CASE deployed.provider /\ is_application_host(Config, ReturnHost)
    <2> DEFINE u == url_for(Config, "identity", <<"/", "callback">>)
    <2>1. \E x : nav' = [nav EXCEPT !.at = "provider", !.loc = u, !.oauthAt = x]
        BY <1>3, Zenon DEF Login
    <2>2. /\ DOMAIN nav' = NavFields /\ nav'.at = "provider" /\ nav'.shows = nav.shows /\ nav'.loc = u /\ nav'.ret = nav.ret
          /\ nav'.asked = nav.asked /\ nav'.code = nav.code /\ nav'.steady = nav.steady
        <3> HIDE DEF u
        <3> QED BY <2>1 DEF NavInOrder, ShownOnPages, NavFields
    <2>3. OwnUrl(Config, u) /\ IsAuth(u.path)
        BY IdentityUrls, AuthPaths DEF Config, NavInOrder, CopyInOrder
    <2> HIDE DEF u
    <2>4. ShownOnPages(nav)'
        BY <1>1, <2>2, <2>3 DEF ShownOnPages, NavInOrder, Going
    <2>5. ASSUME nav.steady PROVE cached' \in {NoConfig, Config} /\ Underway(nav', Config)
        <3>1. Underway(nav, Config) /\ cached' \in {NoConfig, Config}
            BY <1>1, <2>5 DEF NavInOrder
        <3>2. nav.ret = nav.asked /\ is_application_host(Config, normalize_host(nav.asked.host))
            BY <1>3, <3>1 DEF Underway, ReturnHost
        <3> QED BY <2>2, <2>3, <3>1, <3>2, Redirected
    <2> QED BY <2>2, <2>4, <2>5 DEF StepInOrder
<1> QED BY <1>2, <1>3

LEMMA ProviderAnswersInOrder ==
    ASSUME NavInOrder, NEW approved \in BOOLEAN, ProviderAnswers(approved) PROVE StepInOrder
<1>1. nav.at = "provider" /\ cached' = cached
    BY DEF ProviderAnswers, deploymentVars
<1>2. CASE ~approved
    BY <1>1, <1>2, EndInOrder DEF ProviderAnswers, End
<1>3. CASE approved
    <2>1. /\ DOMAIN nav' = NavFields /\ nav'.at = "going" /\ nav'.shows = nav.shows /\ nav'.loc = nav.loc /\ nav'.ret = nav.ret
          /\ nav'.asked = nav.asked /\ nav'.code = nav.code /\ nav'.steady = nav.steady
        BY <1>3 DEF ProviderAnswers, NavInOrder, ShownOnPages, NavFields
    <2>2. ShownOnPages(nav)'
        BY <1>1, <2>1 DEF ShownOnPages, NavInOrder
    <2>3. nav.steady => cached' \in {NoConfig, Config} /\ Underway(nav', Config)
        BY <1>1, <2>1 DEF NavInOrder, Underway
    <2> QED BY <2>1, <2>2, <2>3 DEF StepInOrder
<1> QED BY <1>2, <1>3

\* The callback returns what was asked for.
LEMMA CallbackInOrder ==
    ASSUME NavInOrder, Callback PROVE StepInOrder
<1> DEFINE u == IF is_application_host(Config, ReturnHost) THEN nav.ret ELSE url_for(Config, "shell", Root)
<1>1. Going /\ cached' = cached /\ Routed(nav.loc.path, "callback")
    BY DEF Callback, Requested, deploymentVars
<1>2. nav' = [nav EXCEPT !.loc = u, !.oauthAt = NoHost, !.signedIn = TRUE]
    BY DEF Callback
<1>3. /\ DOMAIN nav' = NavFields /\ nav'.at = nav.at /\ nav'.shows = nav.shows /\ nav'.loc = u /\ nav'.ret = nav.ret
      /\ nav'.asked = nav.asked /\ nav'.code = nav.code /\ nav'.steady = nav.steady
    <2> HIDE DEF u
    <2> QED BY <1>2 DEF NavInOrder, ShownOnPages, NavFields
<1>4. ShownOnPages(nav)'
    <2> HIDE DEF u
    <2> QED BY <1>1, <1>3 DEF ShownOnPages, NavInOrder, Going
<1>5. ASSUME nav.steady PROVE cached' \in {NoConfig, Config} /\ Underway(nav', Config)
    <2>1. Underway(nav, Config) /\ cached' \in {NoConfig, Config} /\ nav'.at # "provider"
        BY <1>1, <1>3, <1>5 DEF NavInOrder, Going
    <2>2. nav.ret = nav.asked /\ OwnPage(Config, nav.asked) /\ is_application_host(Config, ReturnHost)
        BY <1>1, <2>1 DEF Underway, ReturnHost
    <2>3. u = nav.asked
        BY <2>2
    <2> HIDE DEF u
    <2>4. ~Routed(u.path, "callback")
        BY <2>2, <2>3, AuthPaths DEF OwnPage
    <2> QED BY <1>3, <2>1, <2>2, <2>3, <2>4, Redirected
<1> QED BY <1>3, <1>4, <1>5 DEF StepInOrder

\* The person starts on a page of the application, on the sign-in link of a page,
\* or on the page a logout leads to.
LEMMA BeginsInOrder ==
    ASSUME NavInOrder, (\E host \in Hosts, path \in Pages : Visit(host, path)) \/ FollowSignIn \/ Logout
    PROVE  StepInOrder
<1>0. deployed \in Deployments
    BY DEF NavInOrder, CopyInOrder
<1>1. ASSUME NEW host, NEW path \in Pages, Visit(host, path) PROVE StepInOrder
    <2> DEFINE loc == [scheme |-> Config.scheme, host |-> host, path |-> path]
    <2>1. nav' = Begin(loc, loc) /\ is_application_host(Config, host) /\ cached' = cached
        BY <1>1 DEF Visit, is_application_host, deploymentVars
    <2>2. path \in Seq(Tokens) /\ path # <<>> /\ path[1] = "/" /\ ~IsAuth(path)
        <3>1. LET p == <<"/", "reports">> IN p \in Seq(Tokens) /\ p # <<>> /\ p[1] = "/" /\ p[2] # "auth"
            BY TokensAssumption
        <3>2. CASE path = <<"/", "reports">>
            BY <3>1, <3>2 DEF IsAuth
        <3>3. CASE path = Root
            <4>1. Root # <<>>
                BY DEF Root
            <4>2. ~IsAuth(Root)
                BY RootIsPath DEF IsAuth
            <4> QED BY <3>3, <4>1, <4>2, RootIsPath
        <3> QED BY <3>2, <3>3 DEF Pages
    <2>3. OwnPage(Config, loc)
        BY <2>1, <2>2 DEF OwnPage, OwnUrl, IsUrl
    <2> HIDE DEF loc
    <2> QED BY <2>1, <2>3, BeginInOrder
<1>2. CASE FollowSignIn
    <2>1. nav' = Begin(loginHref(cached), postLoginReturn(cached)) /\ cached # NoConfig /\ cached' = cached
        BY <1>2 DEF FollowSignIn, deploymentVars
    <2>2. OwnUrl(Config, loginHref(Config)) /\ Routed(loginHref(Config).path, "login")
        BY <1>0, IdentityUrls DEF loginHref, Config, Routed
    <2>3. OwnPage(Config, postLoginReturn(Config))
        <3>1. urlFor(Config, "shell", Root) = url_for(Config, "shell", Root)
            BY <1>0, DeployedConfigs, TopologiesAgree, RootIsPath DEF Config, Named
        <3> QED BY <1>0, <3>1, ShellUrls DEF postLoginReturn, Config
    <2> QED BY <2>1, <2>2, <2>3, BeginInOrder
<1>3. CASE Logout
    <2>1. nav' = Begin(url_for(Config, "shell", LoginPage), url_for(Config, "shell", LoginPage)) /\ cached' = cached
        BY <1>3 DEF Logout, deploymentVars
    <2>2. OwnPage(Config, url_for(Config, "shell", LoginPage))
        BY <1>0, ShellUrls DEF Config
    <2> QED BY <2>1, <2>2, BeginInOrder
<1> QED BY <1>1, <1>2, <1>3

LEMMA NavInit == RoutingInit => NavInOrder
<1> SUFFICES ASSUME RoutingInit PROVE NavInOrder
    OBVIOUS
<1>1. /\ DOMAIN nav = NavFields /\ nav.at = "rest" /\ nav.shows = "nothing" /\ nav.steady = FALSE
    BY DEF RoutingInit, NavFields
<1> QED BY <1>1, CopyInit DEF NavInOrder, ShownOnPages

LEMMA NavStep == NavInOrder /\ [RoutingNext]_routingVars => NavInOrder'
<1> SUFFICES ASSUME NavInOrder, [RoutingNext]_routingVars PROVE NavInOrder'
    OBVIOUS
<1>0. CopyInOrder'
    BY CopyStep DEF NavInOrder
<1>1. ASSUME deployed' = deployed, StepInOrder PROVE NavInOrder'
    BY <1>0, <1>1 DEF NavInOrder, StepInOrder, Config
<1>2. ASSUME NEW shows, End(shows), shows \notin {"account", "workspace_unselected"}, UNCHANGED deploymentVars PROVE NavInOrder'
    BY <1>1, <1>2, EndInOrder DEF deploymentVars
<1>3. ASSUME Change PROVE NavInOrder'
    <2>1. /\ DOMAIN nav' = NavFields /\ nav'.at = nav.at /\ nav'.shows = nav.shows /\ nav'.loc = nav.loc /\ nav'.steady = FALSE
        BY <1>3 DEF Change, NavInOrder, ShownOnPages, NavFields
    <2> QED BY <1>0, <2>1 DEF NavInOrder, ShownOnPages
<1>4. CASE \E reached \in BOOLEAN : Middleware(reached)
    BY <1>1, <1>4, MiddlewareInOrder DEF Middleware
<1>5. CASE \E passed, reached \in BOOLEAN : RenderPage(passed, reached)
    BY <1>1, <1>5, RenderInOrder DEF RenderPage
<1>6. CASE CoreUnreachable \/ ContinueRefused \/ ContinueWithoutGrant \/ CallbackRefused \/ CallbackWithoutProvider
    BY <1>2, <1>6 DEF CoreUnreachable, ContinueRefused, ContinueWithoutGrant, CallbackRefused, CallbackWithoutProvider
<1>7. CASE ContinueAtIdentity \/ ContinueAtHost \/ Login \/ (\E approved \in BOOLEAN : ProviderAnswers(approved)) \/ Callback
    <2>1. deployed' = deployed
        BY <1>7 DEF ContinueAtIdentity, ContinueAtHost, Login, ProviderAnswers, Callback, deploymentVars
    <2> QED BY <1>1, <1>7, <2>1, ContinueAtIdentityInOrder, ContinueAtHostInOrder, LoginInOrder, ProviderAnswersInOrder, CallbackInOrder
<1>8. CASE (\E host \in Hosts, path \in Pages : Visit(host, path)) \/ FollowSignIn \/ Logout
    <2>1. deployed' = deployed
        BY <1>8 DEF Visit, FollowSignIn, Logout, deploymentVars
    <2> QED BY <1>1, <1>8, <2>1, BeginsInOrder
<1>9. CASE SelectWorkspace \/ UNCHANGED routingVars
    <2>1. nav' = nav /\ deployed' = deployed /\ cached' = cached
        BY <1>9 DEF SelectWorkspace, deploymentVars, routingVars
    <2> QED BY <1>1, <2>1 DEF NavInOrder, StepInOrder
<1>10. CASE (\E d \in Deployments : Edit(d)) \/ (\E env \in Environments : RestartCore(env)) \/ RestartWeb
            \/ (\E n \in Ids : SessionExpires(n))
    BY <1>3, <1>10 DEF Edit, RestartCore, RestartWeb, SessionExpires
<1> QED BY <1>4, <1>5, <1>6, <1>7, <1>8, <1>9, <1>10 DEF RoutingNext, NavigationStep

LEMMA ComesBackHolds == NavInOrder => ComesBack
BY DEF NavInOrder, ShownOnPages, Underway, ComesBack

-----------------------------------------------------------------------------
(* Links that are accepted *)

\* What OwnLinksAccepted needs of the operator: a base host without a port, which
\* normalize_host would drop from every request and not from the settings, and no
\* plain http in production, which run_startup refuses.
PlainHosts ==
    \A d \in Deployments : d.base_host.port = "" /\ ~(d.profile = "production" /\ d.scheme = "http")

Accepted == {"account", "workspace_unselected", "unavailable", "session_missing",
             "no_provider", "no_account", "abandoned", "nothing"}

\* What keeps a navigation from being refused: the host it is to end on stays
\* unspoilt; whoever is sent to continue has left a nonce there and has no cookie
\* there, and comes to another host than the identity host only with a code of a
\* live session for it; sign-in and callback are met on the identity host alone,
\* where the state cookie is.
Welcome(n, c, cookies, sessions, secrets) ==
    LET end == normalize_host(n.asked.host)
    IN  /\ Unspoilt(end, cookies, sessions, secrets)
        /\ Routed(n.loc.path, "continue") =>
                /\ n.nonceAt = end /\ cookies[end] = 0
                /\ n.loc.host # identity_host(c) => n.loc.host = end /\ n.code = end /\ n.session \in sessions
        /\ Routed(n.loc.path, "login") => n.loc.host = identity_host(c)
        /\ Routed(n.loc.path, "callback") \/ n.at = "provider" =>
                n.loc.host = identity_host(c) /\ n.oauthAt = identity_host(c)
        /\ n.at = "rest" /\ n.asked.path # LoginPage => n.shows \in Accepted

SessionsInOrder ==
    /\ cookie \in [Hosts -> Ids \cup {0}]
    /\ live \subseteq Ids
    /\ nav.session \in Ids \cup {0}

LinksInOrder ==
    /\ NavInOrder
    /\ SessionsInOrder
    /\ PlainHosts /\ nav.steady /\ nav.fresh => Welcome(nav, Config, cookie, live, minted)

LEMMA KeptPort ==
    ASSUME NEW h, NEW label, NEW name, NEW port, h = [label |-> label, name |-> name, port |-> port]
    PROVE  [h EXCEPT !.port = port] = h
OBVIOUS

\* Without a port, hosts are read as they are built.
LEMMA PlainHost ==
    ASSUME PlainHosts, NEW d \in Deployments, NEW h, is_application_host(from_settings(d), h)
    PROVE  normalize_host(h) = h /\ h \in Hosts
<1> DEFINE c == from_settings(d)
<1>1. DOMAIN c.modules = {} /\ c.base_host.port = ""
    <2>1. c.modules = <<>> /\ c.base_host = d.base_host
        BY DEF from_settings
    <2>2. d.base_host.port = ""
        BY DEF PlainHosts
    <2>3. DOMAIN <<>> = {}
        OBVIOUS
    <2> HIDE DEF c
    <2> QED BY <2>1, <2>2, <2>3
<1> HIDE DEF c
<1>2. PICK label : h = Host(label, c.base_host)
    BY <1>1 DEF is_application_host, application_hosts, c
<1>3. normalize_host(h) = h
    <2>1. h = [label |-> label, name |-> c.base_host.name, port |-> ""]
        BY <1>1, <1>2 DEF Host
    <2>2. [h EXCEPT !.port = ""] = h
        BY <2>1, KeptPort, Zenon
    <2> QED BY <2>2 DEF normalize_host
<1>4. normalize_host(h) \in Hosts
    BY DEF Hosts, is_application_host
<1> QED BY <1>3, <1>4

LEMMA IdentityHost ==
    ASSUME NEW c PROVE is_application_host(c, identity_host(c))
BY DEF is_application_host, application_hosts, identity_host

\* There is always a number for a new session.
LEMMA FreshId ==
    ASSUME cookie \in [Hosts -> Ids \cup {0}]
    PROVE  \E n \in Ids : n \notin Carried(cookie)
<1> SUFFICES ASSUME Ids \subseteq Carried(cookie) PROVE FALSE
    OBVIOUS
<1> DEFINE k == Cardinality(Hosts)
<1>1. k \in Nat
    BY HostsAssumption, FS_CardinalityType
<1>2. IsFiniteSet(Carried(cookie)) /\ Cardinality(Carried(cookie)) <= k
    <2>1. cookie \in Surjection(Hosts, Carried(cookie))
        BY DEF Surjection, Carried
    <2> QED BY <2>1, HostsAssumption, FS_Surjection
<1>3. IsFiniteSet(Ids) /\ Cardinality(Ids) = k + 1
    <2> HIDE DEF k
    <2>1. Cardinality(1 .. k + 1) = k + 1
        BY <1>1, FS_Interval
    <2>2. IsFiniteSet(1 .. k + 1)
        BY <1>1, FS_Interval
    <2>3. Ids = 1 .. k + 1
        BY DEF Ids, k
    <2> QED BY <2>1, <2>2, <2>3
<1>4. Cardinality(Ids) <= Cardinality(Carried(cookie))
    BY <1>2, FS_Subset
<1>5. Cardinality(Carried(cookie)) \in Nat
    BY <1>2, FS_CardinalityType
<1> HIDE DEF k
<1> QED BY <1>1, <1>2, <1>3, <1>4, <1>5

\* Sessions and cookies keep their types.
LEMMA SessionsInit == RoutingInit => SessionsInOrder
BY DEF RoutingInit, SessionsInOrder

LEMMA SessionsStep ==
    ASSUME NavInOrder, SessionsInOrder, [RoutingNext]_routingVars PROVE SessionsInOrder'
<1> USE DEF SessionsInOrder
<1>0. DOMAIN nav = NavFields
    BY DEF NavInOrder, ShownOnPages
<1>a. ASSUME NEW x, nav' = [nav EXCEPT !.loc = x] PROVE nav'.session = nav.session
    BY <1>0, <1>a DEF NavFields
<1>b. ASSUME NEW x, End(x) PROVE nav'.session = nav.session
    BY <1>0, <1>b DEF NavFields, End
<1>c. ASSUME NEW x, NEW y, nav' = Begin(x, y) PROVE nav'.session = 0
    BY <1>c DEF Begin
<1>d. ASSUME nav'.session = nav.session \/ nav'.session = 0, UNCHANGED sessionVars PROVE SessionsInOrder'
    BY <1>d DEF sessionVars
<1>e. ASSUME Change PROVE nav'.session = nav.session
    BY <1>0, <1>e DEF NavFields, Change
<1>1. ASSUME NEW reached \in BOOLEAN, Middleware(reached) PROVE SessionsInOrder'
    <2>1. \E x, y, z : nav' = [nav EXCEPT !.loc = x, !.ret = y, !.nonceAt = z]
        BY <1>1, Zenon DEF Middleware
    <2>2. nav'.session = nav.session
        BY <1>0, <2>1 DEF NavFields
    <2> QED BY <1>1, <1>d, <2>2 DEF Middleware
<1>2. ASSUME NEW passed \in BOOLEAN, NEW reached \in BOOLEAN, RenderPage(passed, reached) PROVE SessionsInOrder'
    BY <1>2, <1>b, <1>d DEF RenderPage
<1>3. CASE CoreUnreachable \/ ContinueRefused \/ ContinueWithoutGrant \/ CallbackRefused \/ CallbackWithoutProvider
    BY <1>3, <1>b, <1>d DEF CoreUnreachable, ContinueRefused, ContinueWithoutGrant, CallbackRefused, CallbackWithoutProvider
<1>4. CASE ContinueAtIdentity
    <2>1. UNCHANGED sessionVars
        BY <1>4 DEF ContinueAtIdentity
    <2>2. SessionHere \in Ids \cup {0}
        BY DEF SessionHere
    <2>3. nav'.session \in {nav.session, SessionHere}
        <3>1. CASE \E x : nav' = [nav EXCEPT !.loc = x]
            BY <1>a, <3>1
        <3>2. CASE \E x, y : nav' = [nav EXCEPT !.code = x, !.session = SessionHere, !.loc = y]
            BY <1>0, <3>2 DEF NavFields
        <3> QED BY <1>4, <3>1, <3>2, Zenon DEF ContinueAtIdentity, Go
    <2> QED BY <2>1, <2>2, <2>3 DEF sessionVars
<1>5. CASE ContinueAtHost
    <2>1. CASE End("session_secret_exists") /\ UNCHANGED sessionVars
        BY <1>b, <1>d, <2>1
    <2>2. CASE /\ cookie' \in {cookie, [cookie EXCEPT ![Here] = nav.session]} /\ live' = live
               /\ nav' = [nav EXCEPT !.code = NoHost, !.nonceAt = NoHost, !.loc.path = path_and_query(nav.ret)]
        <3>1. nav'.session = nav.session
            BY <1>0, <2>2 DEF NavFields
        <3>2. cookie' \in [Hosts -> Ids \cup {0}]
            BY <2>2
        <3> QED BY <2>2, <3>1, <3>2
    <2> QED BY <1>5, <2>1, <2>2 DEF ContinueAtHost
<1>6. CASE Login
    <2>1. UNCHANGED sessionVars
        BY <1>6 DEF Login
    <2>2. nav'.session = nav.session
        <3>1. CASE \E x : End(x)
            BY <1>b, <3>1
        <3>2. CASE \E x, y : nav' = [nav EXCEPT !.at = "provider", !.loc = x, !.oauthAt = y]
            BY <1>0, <3>2 DEF NavFields
        <3> QED BY <1>6, <3>1, <3>2, Zenon DEF Login
    <2> QED BY <1>d, <2>1, <2>2
<1>7. ASSUME NEW approved \in BOOLEAN, ProviderAnswers(approved) PROVE SessionsInOrder'
    <2>1. nav'.session = nav.session
        BY <1>0, <1>7 DEF ProviderAnswers, NavFields
    <2> QED BY <1>7, <1>d, <2>1 DEF ProviderAnswers
<1>8. CASE Callback
    <2> DEFINE id == CHOOSE n \in Ids : n \notin Carried(cookie)
    <2>1. id \in Ids
        BY FreshId
    <2>2. cookie' \in {cookie, [cookie EXCEPT ![Here] = id]} /\ live' \subseteq live \cup {id}
        BY <1>8 DEF Callback
    <2>3. \E x : nav' = [nav EXCEPT !.loc = x, !.oauthAt = NoHost, !.signedIn = TRUE]
        BY <1>8, Zenon DEF Callback
    <2>4. nav'.session = nav.session
        BY <1>0, <2>3 DEF NavFields
    <2> HIDE DEF id
    <2>5. cookie' \in [Hosts -> Ids \cup {0}]
        BY <2>1, <2>2
    <2> QED BY <2>1, <2>2, <2>4, <2>5
<1>9. CASE (\E host \in Hosts, path \in Pages : Visit(host, path)) \/ FollowSignIn
    BY <1>9, <1>c, <1>d DEF Visit, FollowSignIn
<1>10. CASE Logout
    <2>1. nav'.session = 0
        BY <1>10, <1>c DEF Logout
    <2>2. cookie' = [cookie EXCEPT ![Here] = 0] /\ live' \subseteq live
        BY <1>10 DEF Logout
    <2> QED BY <2>1, <2>2
<1>11. CASE SelectWorkspace \/ UNCHANGED routingVars
    BY <1>11 DEF SelectWorkspace, routingVars
<1>12. CASE (\E d \in Deployments : Edit(d)) \/ (\E env \in Environments : RestartCore(env)) \/ RestartWeb
    BY <1>12, <1>d, <1>e DEF Edit, RestartCore, RestartWeb
<1>13. ASSUME NEW n \in Ids, SessionExpires(n) PROVE SessionsInOrder'
    BY <1>13, <1>e DEF SessionExpires
<1> QED BY <1>1, <1>2, <1>3, <1>4, <1>5, <1>6, <1>7, <1>8, <1>9, <1>10, <1>11, <1>12, <1>13 DEF RoutingNext, NavigationStep

\* What a step of a navigation that is steady and fresh starts from.
Welcomed == LinksInOrder /\ PlainHosts /\ nav.steady /\ nav.fresh

\* What it has to keep, while the deployment stays as it is.
WelcomeNext == Welcome(nav', Config, cookie', live', minted')

LEMMA WelcomeFacts ==
    ASSUME Welcomed
    PROVE  /\ DOMAIN nav = NavFields /\ deployed \in Deployments
           /\ Underway(nav, Config) /\ cached \in {NoConfig, Config}
           /\ Welcome(nav, Config, cookie, live, minted) /\ SessionsInOrder
           /\ OwnPage(Config, nav.asked) /\ nav.ret = nav.asked /\ nav.loc.scheme = Config.scheme
           /\ is_application_host(Config, nav.asked.host) /\ is_application_host(Config, nav.loc.host)
           /\ normalize_host(nav.asked.host) = nav.asked.host /\ Here = nav.loc.host
           /\ ReturnHost = nav.asked.host /\ nav.asked.host \in Hosts /\ nav.loc.host \in Hosts
           /\ Kept(Config.scheme)
<1>1. /\ DOMAIN nav = NavFields /\ deployed \in Deployments
      /\ Underway(nav, Config) /\ cached \in {NoConfig, Config}
      /\ Welcome(nav, Config, cookie, live, minted) /\ SessionsInOrder
    BY DEF Welcomed, LinksInOrder, NavInOrder, ShownOnPages, CopyInOrder
<1>2. /\ OwnPage(Config, nav.asked) /\ nav.ret = nav.asked /\ nav.loc.scheme = Config.scheme
      /\ is_application_host(Config, nav.asked.host) /\ is_application_host(Config, nav.loc.host)
    BY <1>1 DEF Underway, OwnPage, OwnUrl
<1>3. \A h : is_application_host(Config, h) => normalize_host(h) = h /\ h \in Hosts
    BY <1>1, PlainHost DEF Config, Welcomed
<1>4. Kept(Config.scheme)
    <2>1. Config.scheme = deployed.scheme
        BY DEF Config, from_settings
    <2>2. deployed.scheme \in {"http", "https"} /\ ~(deployed.profile = "production" /\ deployed.scheme = "http")
        BY <1>1, DeploymentsAssumption DEF Welcomed, PlainHosts
    <2> QED BY <1>2, <2>1, <2>2 DEF Kept
<1> QED BY <1>1, <1>2, <1>3, <1>4 DEF Here, ReturnHost

\* A step to what was asked for, which is not an identity route.
LEMMA HomeWelcome ==
    ASSUME Welcomed, nav'.asked = nav.asked, nav'.loc = nav.asked, nav'.at = "going",
           Unspoilt(nav.asked.host, cookie', live', minted')
    PROVE  WelcomeNext
<1>1. normalize_host(nav.asked.host) = nav.asked.host /\ ~IsAuth(nav.asked.path)
    BY WelcomeFacts DEF OwnPage
<1>2. \A name : ~Routed(nav'.loc.path, name)
    BY <1>1, AuthPaths
<1> QED BY <1>1, <1>2 DEF WelcomeNext, Welcome

\* An answer that is shown.
LEMMA EndWelcome ==
    ASSUME Welcomed, NEW shows, End(shows), UNCHANGED sessionVars,
           shows \in Accepted \/ nav.asked.path = LoginPage
    PROVE  WelcomeNext
<1>1. /\ nav'.at = "rest" /\ nav'.shows = shows /\ nav'.loc = nav.loc /\ nav'.code = nav.code
      /\ nav'.asked = nav.asked /\ nav'.session = nav.session /\ nav'.nonceAt = nav.nonceAt /\ nav'.oauthAt = nav.oauthAt
    BY WelcomeFacts DEF End, NavFields
<1>2. cookie' = cookie /\ live' = live /\ minted' = minted
    BY DEF sessionVars
<1> QED BY <1>1, <1>2, WelcomeFacts DEF WelcomeNext, Welcome

LEMMA MiddlewareWelcome ==
    ASSUME Welcomed, NEW reached \in BOOLEAN, Middleware(reached) PROVE WelcomeNext
<1> DEFINE loaded == loadRoutingConfig(reached)
           u == continueHref(loaded, nav.loc)
           z == IF Kept(loaded.scheme) THEN Here ELSE nav.nonceAt
<1>1. Going /\ ~IsAuth(nav.loc.path) /\ cookie[Here] = 0 /\ loaded # NoConfig
      /\ cookie' = cookie /\ live' = live /\ minted' = minted
    BY DEF Middleware, sessionVars
<1>2. loaded = Config
    BY <1>1, WelcomeFacts DEF loadRoutingConfig
<1>3. z = nav.asked.host /\ cookie[nav.asked.host] = 0
    <2>1. nav.loc = nav.asked
        BY <1>1, WelcomeFacts DEF Underway
    <2>2. Kept(loaded.scheme)
        BY <1>2, WelcomeFacts
    <2> HIDE DEF loaded
    <2> QED BY <1>1, <2>1, <2>2, WelcomeFacts
<1>4. u.path = <<"/", "auth", "/", "continue">> /\ u.host = identity_host(Config)
    BY <1>2, WelcomeFacts, IdentityUrls DEF continueHref, Config
<1>5. \E r : nav' = [nav EXCEPT !.loc = u, !.ret = r, !.nonceAt = z]
    BY Zenon DEF Middleware
<1> HIDE DEF u, z, loaded
<1>6. nav'.at = nav.at /\ nav'.loc = u /\ nav'.nonceAt = z /\ nav'.asked = nav.asked
    BY <1>5, WelcomeFacts DEF NavFields
<1>7. Routed(u.path, "continue") /\ ~Routed(u.path, "login") /\ ~Routed(u.path, "callback")
    BY <1>4, AuthPaths
<1>8. nav'.at = "going"
    BY <1>1, <1>6 DEF Going
<1> QED BY <1>1, <1>3, <1>4, <1>6, <1>7, <1>8, WelcomeFacts DEF WelcomeNext, Welcome

\* The page that was asked for has no cookie, or one of a live session.
LEMMA RenderWelcome ==
    ASSUME Welcomed, NEW passed \in BOOLEAN, NEW reached \in BOOLEAN, RenderPage(passed, reached) PROVE WelcomeNext
<1> DEFINE loaded == loadRoutingConfig(reached)
<1>1. ~IsAuth(nav.loc.path) /\ End(Shows(loaded, reached)) /\ UNCHANGED sessionVars
    BY DEF RenderPage
<1>2. nav.loc = nav.asked
    BY <1>1, WelcomeFacts DEF Underway
<1>3. cookie[Here] = 0 \/ cookie[Here] \in live
    BY <1>2, WelcomeFacts DEF Welcome, Unspoilt
<1>4. fetchSession(reached) \in Accepted
    BY <1>3 DEF fetchSession, session_info, Accepted
<1>5. Shows(loaded, reached) \in Accepted \/ nav.asked.path = LoginPage
    BY <1>2, <1>4 DEF Shows, Accepted
<1> QED BY <1>1, <1>5, EndWelcome

LEMMA ContinueAtIdentityWelcome ==
    ASSUME Welcomed, ContinueAtIdentity PROVE WelcomeNext
<1>0. DOMAIN nav = NavFields
    BY WelcomeFacts
<1>1. /\ Going /\ Routed(nav.loc.path, "continue") /\ nav.loc.host = identity_host(Config)
      /\ cookie' = cookie /\ live' = live /\ minted' = minted
    BY WelcomeFacts DEF ContinueAtIdentity, Requested, sessionVars
<1>2. Unspoilt(nav.asked.host, cookie', live', minted') /\ nav.nonceAt = nav.asked.host /\ cookie[nav.asked.host] = 0
    BY <1>1, WelcomeFacts DEF Welcome
<1>3. \A name \in {"login", "continue"} : identity_path(Config, <<"/", name>>) = <<"/", "auth", "/", name>>
    BY WelcomeFacts, IdentityUrls DEF Config
<1>4. CASE SessionHere = 0
    <2> DEFINE u == [nav.loc EXCEPT !.path = identity_path(Config, <<"/", "login">>)]
    <2>1. nav' = [nav EXCEPT !.loc = u]
        BY <1>4, Zenon DEF ContinueAtIdentity, Go
    <2>2. u.host = identity_host(Config) /\ u.path = <<"/", "auth", "/", "login">>
        BY <1>1, <1>3, WelcomeFacts DEF Underway, OwnUrl, IsUrl
    <2> HIDE DEF u
    <2>3. nav'.loc = u /\ nav'.at = "going" /\ nav'.asked = nav.asked
        BY <1>0, <1>1, <2>1 DEF NavFields, Going
    <2>4. ~Routed(u.path, "continue") /\ ~Routed(u.path, "callback")
        BY <2>2, AuthPaths
    <2> QED BY <1>2, <2>2, <2>3, <2>4, WelcomeFacts DEF WelcomeNext, Welcome
<1>5. CASE SessionHere # 0 /\ ReturnHost = Here
    <2> DEFINE u == [nav.loc EXCEPT !.path = nav.ret.path]
    <2>1. nav' = [nav EXCEPT !.loc = u]
        BY <1>5, Zenon DEF ContinueAtIdentity, Go, path_and_query
    <2>2. u = nav.asked
        BY <1>5, WelcomeFacts DEF Underway, OwnUrl, OwnPage, IsUrl
    <2> HIDE DEF u
    <2>3. nav'.loc = u /\ nav'.at = "going" /\ nav'.asked = nav.asked
        BY <1>0, <1>1, <2>1 DEF NavFields, Going
    <2> QED BY <1>2, <2>2, <2>3, HomeWelcome
<1>6. CASE SessionHere # 0 /\ ReturnHost # Here
    <2> DEFINE u == [scheme |-> Config.scheme, host |-> ReturnHost, path |-> identity_path(Config, <<"/", "continue">>)]
    <2>1. nav' = [nav EXCEPT !.code = ReturnHost, !.session = SessionHere, !.loc = u]
        BY <1>6, Zenon DEF ContinueAtIdentity
    <2>2. u.host = nav.asked.host /\ u.path = <<"/", "auth", "/", "continue">>
        BY <1>3, WelcomeFacts
    <2> HIDE DEF u
    <2>3. /\ nav'.loc = u /\ nav'.at = "going" /\ nav'.asked = nav.asked /\ nav'.code = ReturnHost
          /\ nav'.session = SessionHere /\ nav'.nonceAt = nav.nonceAt
        BY <1>0, <1>1, <2>1 DEF NavFields, Going
    <2>4. ~Routed(u.path, "login") /\ ~Routed(u.path, "callback")
        BY <2>2, AuthPaths
    <2>5. SessionHere \in live'
        BY <1>1, <1>6 DEF SessionHere
    <2> QED BY <1>1, <1>2, <2>2, <2>3, <2>4, <2>5, WelcomeFacts DEF WelcomeNext, Welcome
<1> QED BY <1>4, <1>5, <1>6

LEMMA ContinueAtHostWelcome ==
    ASSUME Welcomed, ContinueAtHost PROVE WelcomeNext
<1>0. DOMAIN nav = NavFields
    BY WelcomeFacts
<1>1. Going /\ Routed(nav.loc.path, "continue") /\ nav.loc.host # identity_host(Config)
    BY WelcomeFacts DEF ContinueAtHost, Requested
<1>2. /\ nav.loc.host = nav.asked.host /\ nav.session \in live /\ cookie[nav.asked.host] = 0
      /\ Unspoilt(nav.asked.host, cookie, live, minted)
    BY <1>1, WelcomeFacts DEF Welcome
<1>3. <<nav.session, Here>> \notin minted
    <2>1. 0 \notin live
        BY WelcomeFacts, HostsAssumption, FS_CardinalityType DEF SessionsInOrder, Ids
    <2> QED BY <1>2, <2>1, WelcomeFacts DEF Unspoilt
<1>4. /\ cookie' = [cookie EXCEPT ![Here] = nav.session] /\ live' = live
      /\ nav' = [nav EXCEPT !.code = NoHost, !.nonceAt = NoHost, !.loc.path = path_and_query(nav.ret)]
    BY <1>3, WelcomeFacts DEF ContinueAtHost
<1>5. nav'.loc = [nav.loc EXCEPT !.path = nav.ret.path] /\ nav'.at = "going" /\ nav'.asked = nav.asked
    BY <1>0, <1>1, <1>4 DEF NavFields, Going, path_and_query
<1>6. nav'.loc = nav.asked
    BY <1>2, <1>5, WelcomeFacts DEF Underway, OwnUrl, OwnPage, IsUrl
<1>7. Unspoilt(nav.asked.host, cookie', live', minted')
    BY <1>2, <1>4, WelcomeFacts DEF SessionsInOrder, Unspoilt
<1> QED BY <1>5, <1>6, <1>7, HomeWelcome

LEMMA LoginWelcome ==
    ASSUME Welcomed, Login PROVE WelcomeNext
<1>1. /\ Going /\ Routed(nav.loc.path, "login") /\ nav.loc.host = identity_host(Config) /\ UNCHANGED sessionVars
      /\ is_application_host(Config, ReturnHost)
    BY WelcomeFacts DEF Login, Requested, Welcome
<1>2. CASE ~deployed.provider
    BY <1>1, <1>2, EndWelcome DEF Login, Accepted
<1>3. CASE deployed.provider
    <2> DEFINE u == url_for(Config, "identity", <<"/", "callback">>)
               z == IF Kept(Config.scheme) THEN Here ELSE nav.oauthAt
    <2>1. nav' = [nav EXCEPT !.at = "provider", !.loc = u, !.oauthAt = z]
        BY <1>1, <1>3, Zenon DEF Login
    <2>2. u.host = identity_host(Config) /\ u.path = <<"/", "auth", "/", "callback">>
        BY WelcomeFacts, IdentityUrls DEF Config
    <2>3. z = identity_host(Config)
        BY <1>1, WelcomeFacts
    <2> HIDE DEF u, z
    <2>4. nav'.loc = u /\ nav'.at = "provider" /\ nav'.asked = nav.asked /\ nav'.oauthAt = z
        BY <2>1, WelcomeFacts DEF NavFields
    <2>5. ~Routed(u.path, "login") /\ ~Routed(u.path, "continue")
        BY <2>2, AuthPaths
    <2>6. Unspoilt(nav.asked.host, cookie', live', minted')
        BY <1>1, WelcomeFacts DEF Welcome, sessionVars
    <2> QED BY <2>2, <2>3, <2>4, <2>5, <2>6, WelcomeFacts DEF WelcomeNext, Welcome
<1> QED BY <1>2, <1>3

LEMMA ProviderAnswersWelcome ==
    ASSUME Welcomed, NEW approved \in BOOLEAN, ProviderAnswers(approved) PROVE WelcomeNext
<1>1. nav.at = "provider" /\ UNCHANGED sessionVars
    BY DEF ProviderAnswers
<1>2. CASE ~approved
    BY <1>1, <1>2, EndWelcome DEF ProviderAnswers, End, Accepted
<1>3. CASE approved
    <2>1. /\ nav'.at = "going" /\ nav'.loc = nav.loc /\ nav'.code = nav.code /\ nav'.asked = nav.asked
          /\ nav'.session = nav.session /\ nav'.nonceAt = nav.nonceAt /\ nav'.oauthAt = nav.oauthAt
        BY <1>3, WelcomeFacts DEF ProviderAnswers, NavFields
    <2> QED BY <1>1, <2>1, WelcomeFacts DEF WelcomeNext, Welcome, sessionVars
<1> QED BY <1>2, <1>3

\* A sign-in on the identity host leaves the host to return to as it was, or with
\* a cookie of the new session.
LEMMA CallbackWelcome ==
    ASSUME Welcomed, Callback PROVE WelcomeNext
<1> DEFINE id == CHOOSE n \in Ids : n \notin Carried(cookie)
           end == nav.asked.host
<1>1. id \in Ids
    BY FreshId, WelcomeFacts DEF SessionsInOrder
<1>2. /\ Going /\ is_application_host(Config, ReturnHost)
      /\ nav' = [nav EXCEPT !.loc = nav.ret, !.oauthAt = NoHost, !.signedIn = TRUE]
      /\ cookie' = [cookie EXCEPT ![Here] = id]
      /\ live' = (live \cup {id}) \cap Carried(cookie')
      /\ minted' = {m \in minted : m[1] # id /\ m[1] \in Carried(cookie')}
                     \cup {<<n, Here>> : n \in {id} \cap Carried(cookie')}
    BY WelcomeFacts DEF Callback, Requested
<1> HIDE DEF id
<1>3. nav'.loc = nav.asked /\ nav'.at = "going" /\ nav'.asked = nav.asked
    BY <1>2, WelcomeFacts DEF NavFields, Going
<1>4. Unspoilt(end, cookie', live', minted')
    <2>1. Unspoilt(end, cookie, live, minted) /\ end \in Hosts /\ DOMAIN cookie = Hosts
        BY WelcomeFacts DEF Welcome, SessionsInOrder
    <2>2. \A n : n = cookie'[end] /\ (n \in live \/ n = id) => n \in live'
        BY <1>2, <2>1 DEF Carried
    <2>3. CASE end = Here
        <3>1. cookie'[end] = id
            BY <1>2, <2>1, <2>3
        <3> QED BY <1>2, <2>2, <3>1 DEF Unspoilt
    <2>4. CASE end # Here
        <3>1. cookie'[end] = cookie[end]
            BY <1>2, <2>1, <2>4
        <3>2. CASE cookie[end] \in live
            BY <1>2, <2>2, <3>1, <3>2 DEF Unspoilt
        <3>3. CASE cookie[end] = 0 /\ \A n \in live : <<n, end>> \notin minted
            <4>1. ASSUME NEW n \in live', <<n, end>> \in minted' PROVE FALSE
                <5>1. n \in live \/ n = id
                    BY <1>2
                <5>2. \A k : <<n, end>> # <<k, Here>>
                    BY <2>4
                <5>3. <<n, end>> \in minted /\ <<n, end>>[1] # id
                    BY <1>2, <4>1, <5>2
                <5> QED BY <3>3, <5>1, <5>3
            <4> QED BY <3>1, <3>3, <4>1 DEF Unspoilt
        <3> QED BY <2>1, <3>2, <3>3 DEF Unspoilt
    <2> QED BY <2>3, <2>4
<1> QED BY <1>3, <1>4, HomeWelcome

\* The refusals that are left are none of a welcome navigation's.
LEMMA RefusalsWelcome ==
    ASSUME Welcomed, CoreUnreachable \/ ContinueRefused \/ ContinueWithoutGrant \/ CallbackRefused \/ CallbackWithoutProvider
    PROVE  WelcomeNext
<1>1. CASE CoreUnreachable \/ CallbackWithoutProvider
    BY <1>1, EndWelcome DEF CoreUnreachable, CallbackWithoutProvider, Accepted
<1>2. ~ContinueRefused
    BY WelcomeFacts DEF ContinueRefused
<1>3. ~ContinueWithoutGrant
    BY WelcomeFacts DEF ContinueWithoutGrant, Requested, GrantIsForHere, Welcome
<1>4. CASE CallbackRefused
    <2>1. nav.oauthAt = Here
        BY <1>4, WelcomeFacts DEF CallbackRefused, Requested, Welcome
    <2> QED BY <1>4, <2>1, EndWelcome DEF CallbackRefused, Accepted
<1> QED BY <1>1, <1>2, <1>3, <1>4

\* A navigation that begins fresh begins welcome.
LEMMA BeginWelcome ==
    ASSUME PlainHosts, deployed \in Deployments, NEW loc, NEW ret, nav' = Begin(loc, ret), nav'.fresh,
           OwnPage(Config, ret), loc = ret \/ (Routed(loc.path, "login") /\ loc.host = identity_host(Config))
    PROVE  WelcomeNext
<1>1. /\ nav'.at = "going" /\ nav'.loc = loc /\ nav'.asked = ret
      /\ Unspoilt(normalize_host(ret.host), cookie', live', minted')
    BY DEF Begin
<1>2. CASE loc = ret
    <2>1. \A name : ~Routed(loc.path, name)
        BY <1>2, AuthPaths DEF OwnPage
    <2> QED BY <1>1, <2>1 DEF WelcomeNext, Welcome
<1>3. CASE Routed(loc.path, "login") /\ loc.host = identity_host(Config)
    <2>1. ~Routed(loc.path, "continue") /\ ~Routed(loc.path, "callback")
        BY <1>3, AuthPaths DEF Routed
    <2> QED BY <1>1, <1>3, <2>1 DEF WelcomeNext, Welcome
<1> QED BY <1>2, <1>3

LEMMA LinksInit == RoutingInit => LinksInOrder
<1> SUFFICES ASSUME RoutingInit PROVE LinksInOrder
    OBVIOUS
<1>1. nav.steady = FALSE
    BY DEF RoutingInit
<1> QED BY <1>1, NavInit, SessionsInit DEF LinksInOrder

LEMMA LinksStep == LinksInOrder /\ [RoutingNext]_routingVars => LinksInOrder'
<1> SUFFICES ASSUME LinksInOrder, [RoutingNext]_routingVars PROVE LinksInOrder'
    OBVIOUS
<1>0. NavInOrder' /\ SessionsInOrder' /\ DOMAIN nav = NavFields /\ deployed \in Deployments
    BY NavStep, SessionsStep DEF LinksInOrder, NavInOrder, ShownOnPages, CopyInOrder
<1> SUFFICES ASSUME PlainHosts, nav'.steady, nav'.fresh
             PROVE  Welcome(nav, Config, cookie, live, minted)'
    BY <1>0 DEF LinksInOrder
<1>1. ASSUME deployed' = deployed, WelcomeNext PROVE Welcome(nav, Config, cookie, live, minted)'
    BY <1>1 DEF WelcomeNext, Config
<1>2. CASE NavigationStep
    <2>1. deployed' = deployed
        BY <1>2 DEF NavigationStep, Middleware, RenderPage, CoreUnreachable, ContinueRefused, ContinueAtIdentity,
                    ContinueWithoutGrant, ContinueAtHost, Login, ProviderAnswers, CallbackRefused,
                    CallbackWithoutProvider, Callback, deploymentVars
    <2>2. nav'.steady = nav.steady /\ nav'.fresh = nav.fresh
        <3>1. CASE \E x : End(x)
            BY <1>0, <3>1 DEF End, NavFields
        <3>2. CASE \E x, y, z : nav' = [nav EXCEPT !.loc = x, !.ret = y, !.nonceAt = z]
            BY <1>0, <3>2 DEF NavFields
        <3>3. CASE \E x : nav' = [nav EXCEPT !.loc = x]
            BY <1>0, <3>3 DEF NavFields
        <3>4. CASE \E x, y, z : nav' = [nav EXCEPT !.code = x, !.session = y, !.loc = z]
            BY <1>0, <3>4 DEF NavFields
        <3>5. CASE \E x : nav' = [nav EXCEPT !.code = NoHost, !.nonceAt = NoHost, !.loc.path = x]
            BY <1>0, <3>5 DEF NavFields
        <3>6. CASE \E x, y : nav' = [nav EXCEPT !.at = "provider", !.loc = x, !.oauthAt = y]
            BY <1>0, <3>6 DEF NavFields
        <3>7. CASE nav' = [nav EXCEPT !.at = "going"]
            BY <1>0, <3>7 DEF NavFields
        <3>8. CASE \E x : nav' = [nav EXCEPT !.loc = x, !.oauthAt = NoHost, !.signedIn = TRUE]
            BY <1>0, <3>8 DEF NavFields
        <3>9. CASE \E reached \in BOOLEAN : Middleware(reached)
            <4>1. PICK reached \in BOOLEAN : Middleware(reached)
                BY <3>9
            <4>2. \E x, y, z : nav' = [nav EXCEPT !.loc = x, !.ret = y, !.nonceAt = z]
                BY <4>1, Zenon DEF Middleware
            <4> QED BY <3>2, <4>2
        <3>10. CASE \E passed, reached \in BOOLEAN : RenderPage(passed, reached)
            BY <3>1, <3>10, Zenon DEF RenderPage
        <3>11. CASE CoreUnreachable \/ ContinueRefused \/ ContinueWithoutGrant \/ CallbackRefused \/ CallbackWithoutProvider
            BY <3>1, <3>11, Zenon DEF CoreUnreachable, ContinueRefused, ContinueWithoutGrant, CallbackRefused, CallbackWithoutProvider
        <3>12. CASE ContinueAtIdentity
            BY <3>3, <3>4, <3>12, Zenon DEF ContinueAtIdentity, Go
        <3>13. CASE ContinueAtHost
            BY <3>1, <3>5, <3>13, Zenon DEF ContinueAtHost
        <3>14. CASE Login
            BY <3>1, <3>6, <3>14, Zenon DEF Login
        <3>15. CASE \E approved \in BOOLEAN : ProviderAnswers(approved)
            BY <3>1, <3>7, <3>15, Zenon DEF ProviderAnswers, End
        <3>16. CASE Callback
            BY <3>8, <3>16, Zenon DEF Callback
        <3> QED BY <1>2, <3>9, <3>10, <3>11, <3>12, <3>13, <3>14, <3>15, <3>16 DEF NavigationStep
    <2>3. Welcomed
        BY <2>2 DEF Welcomed
    <2>4. WelcomeNext
        BY <1>2, <2>3, MiddlewareWelcome, RenderWelcome, RefusalsWelcome, ContinueAtIdentityWelcome,
           ContinueAtHostWelcome, LoginWelcome, ProviderAnswersWelcome, CallbackWelcome DEF NavigationStep
    <2> QED BY <1>1, <2>1, <2>4
<1>3. CASE (\E host \in Hosts, path \in Pages : Visit(host, path)) \/ FollowSignIn \/ Logout
    <2>1. deployed' = deployed /\ cached' = cached
        BY <1>3 DEF Visit, FollowSignIn, Logout, deploymentVars
    <2>2. PICK loc, ret : /\ nav' = Begin(loc, ret)
                          /\ loc = ret \/ (loc = loginHref(cached) /\ cached # NoConfig)
        BY <1>3, Zenon DEF Visit, FollowSignIn, Logout
    <2>3. nav'.asked = ret /\ nav'.loc = loc /\ cached \in {NoConfig, Config}
        BY <2>2 DEF Begin
    <2>4. OwnPage(Config, ret)
        BY <1>0, <2>1, <2>3 DEF NavInOrder, Underway, Config
    <2>5. loc = loginHref(Config) => Routed(loc.path, "login") /\ loc.host = identity_host(Config)
        BY <1>0, IdentityUrls DEF loginHref, Config, Routed
    <2> QED BY <1>0, <1>1, <2>1, <2>2, <2>3, <2>4, <2>5, BeginWelcome
<1>4. CASE SelectWorkspace \/ UNCHANGED routingVars
    <2>1. nav' = nav /\ deployed' = deployed /\ cookie' = cookie /\ live' = live /\ minted' = minted
        BY <1>4 DEF SelectWorkspace, deploymentVars, routingVars
    <2> QED BY <1>1, <2>1 DEF LinksInOrder, WelcomeNext
<1>5. CASE (\E d \in Deployments : Edit(d)) \/ (\E env \in Environments : RestartCore(env)) \/ RestartWeb
           \/ (\E n \in Ids : SessionExpires(n))
    <2>1. nav'.steady = FALSE
        BY <1>0, <1>5 DEF Edit, RestartCore, RestartWeb, SessionExpires, Change, NavFields
    <2> QED BY <2>1
<1> QED BY <1>2, <1>3, <1>4, <1>5 DEF RoutingNext

-----------------------------------------------------------------------------
(* Theorems *)

\* The navigation is in order in every reachable state: what from_settings,
\* url_for, the redirects of auth_routes.py and of the middleware make of it.
THEOREM Invariance == RoutingSpec => []NavInOrder
<1>1. RoutingInit => NavInOrder
    BY NavInit
<1>2. NavInOrder /\ [RoutingNext]_routingVars => NavInOrder'
    BY NavStep
<1> QED BY <1>1, <1>2, PTL DEF RoutingSpec

\* url_for.py and its mirror in apps/web/lib/routing agree, on the web tier's
\* copy of any deployed configuration and with any identity prefix.
THEOREM TopologiesStayOne == RoutingSpec => []OneTopology
<1>1. NavInOrder => OneTopology
    BY OneTopologyHolds DEF NavInOrder
<1> QED BY <1>1, Invariance, PTL

\* Whatever sequence of redirects, sign-ins and grants lies between, a steady
\* navigation that shows a session's page shows the one asked for.
THEOREM NavigationsComeBack == RoutingSpec => []ComesBack
BY Invariance, ComesBackHolds, PTL

\* The internal listener resolves nothing outside its scope, whatever
\* internal.secret_ref says, and Scope.permits is that scope exactly.
THEOREM SecretsAlwaysInScope == RoutingSpec => []SecretsStayInScope
<1>1. SecretsStayInScope
    BY ReferencesAssumption, ScopeHolds DEF SecretsStayInScope
<1> QED BY <1>1, PTL

\* Under one deployment whose base host has no port and whose scheme suits its
\* profile, the application never refuses a URL that it built itself, whatever
\* sessions, secrets and cookies earlier navigations have left.
THEOREM OwnLinksHold == RoutingSpec => [](PlainHosts => OwnLinksAccepted)
<1>1. RoutingInit => LinksInOrder
    BY LinksInit
<1>2. LinksInOrder /\ [RoutingNext]_routingVars => LinksInOrder'
    BY LinksStep
<1>3. LinksInOrder => (PlainHosts => OwnLinksAccepted)
    BY DEF LinksInOrder, Welcome, OwnLinksAccepted, Accepted, AtRest
<1> QED BY <1>1, <1>2, <1>3, PTL DEF RoutingSpec
=============================================================================

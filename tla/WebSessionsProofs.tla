------------------------- MODULE WebSessionsProofs -------------------------
(***************************************************************************)
(* Proofs that the sign-in protocol of WebSessions keeps its promises for  *)
(* any number of browsers, hosts, sessions, grants and requests.           *)
(*                                                                         *)
(* The promises are not inductive by themselves: what a request does with  *)
(* its session depends on what earlier requests checked. IInv says what is *)
(* carried over: RowsLinked for rows and cookies, RequestsLinked for the   *)
(* requests under way. One lemma per action shows it kept.                 *)
(***************************************************************************)
EXTENDS WebSessions, TLAPS

\* What a step may do to the history and the grants: add to them.
Lasting ==
    /\ \A n \in Nonces : givenTo[n] # None => givenTo'[n] = givenTo[n]
    /\ \A s \in Sessions :
          begunIn[s] # None => begunIn'[s] = begunIn[s] /\ begunAt'[s] = begunAt[s]
    /\ \A g \in Grants : grantOf[g] # None =>
          /\ grantOf'[g] = grantOf[g] /\ target'[g] = target[g]
          /\ bound'[g] = bound[g] /\ writtenBy'[g] = writtenBy[g]
          /\ used[g] => used'[g]

\* What a request has at hand.
SameRequest(q) ==
    /\ pc'[q] = pc[q] /\ from'[q] = from[q] /\ sess'[q] = sess[q] /\ host'[q] = host[q]
    /\ nonce'[q] = nonce[q] /\ who'[q] = who[q] /\ where'[q] = where[q]

\* A session that came to a browser has come to it for good.
LEMMA CameToLasts ==
    ASSUME IInv, Lasting, NEW b \in Browsers, NEW h \in Hosts, NEW s \in Sessions,
           CameTo(b, h, s)
    PROVE  CameTo(b, h, s)'
<1>1. CASE begunIn[s] = b /\ begunAt[s] = h
    BY <1>1, NoneAssumption DEF Lasting, CameTo
<1>2. CASE \E g \in Grants : /\ used[g] /\ grantOf[g] = s /\ target[g] = h
                            /\ givenTo[bound[g]] = b /\ writtenBy[g] = begunIn[s]
    <2>1. PICK g \in Grants : /\ used[g] /\ grantOf[g] = s /\ target[g] = h
                             /\ givenTo[bound[g]] = b /\ writtenBy[g] = begunIn[s]
        BY <1>2
    <2>2. grantOf[g] # None /\ b # None
        BY <2>1, NoneAssumption
    <2>3. bound[g] \in Nonces /\ begunIn[s] # None
        BY <2>1, <2>2 DEF IInv, TypeOK, RowsLinked
    <2>4. /\ used'[g] /\ grantOf'[g] = s /\ target'[g] = h
          /\ givenTo'[bound'[g]] = b /\ writtenBy'[g] = begunIn'[s]
        BY <2>1, <2>2, <2>3 DEF Lasting
    <2> QED BY <2>4 DEF CameTo
<1> QED BY <1>1, <1>2 DEF CameTo

\* So the cookies and secrets that were there stay accounted for,
LEMMA CookiesLast ==
    ASSUME IInv, Lasting, UNCHANGED <<cookie, secrets>>
    PROVE  CookieCameHere' /\ HostSecretHasOrigin'
<1>1. ASSUME NEW b \in Browsers, NEW h \in Hosts, cookie[b][h] # None
      PROVE  CameTo(b, h, cookie[b][h])'
    <2>1. cookie[b][h] \in Sessions /\ CameTo(b, h, cookie[b][h])
        BY <1>1 DEF IInv, TypeOK, CookieCameHere
    <2>2. \A s \in Sessions : CameTo(b, h, s) => CameTo(b, h, s)'
        BY CameToLasts
    <2> QED BY <2>1, <2>2 DEF CameTo
<1>2. CookieCameHere'
    BY <1>1 DEF CookieCameHere, CameTo
<1>3. HostSecretHasOrigin'
    <2> SUFFICES ASSUME NEW s \in Sessions, NEW h \in Hosts, <<s, h>> \in secrets
                 PROVE  \/ begunAt'[s] = h
                        \/ /\ begunAt'[s] = IdentityHost
                           /\ \E g \in Grants : grantOf'[g] = s /\ target'[g] = h /\ used'[g]
        BY DEF HostSecretHasOrigin
    <2>1. \/ begunAt[s] = h
          \/ /\ begunAt[s] = IdentityHost
             /\ \E g \in Grants : grantOf[g] = s /\ target[g] = h /\ used[g]
        BY DEF IInv, HostSecretHasOrigin
    <2>2. begunAt[s] # None /\ begunIn[s] # None
        BY <2>1, HostAssumption, NoneAssumption DEF IInv, RowsLinked
    <2>3. begunAt'[s] = begunAt[s]
        BY <2>2 DEF Lasting
    <2>4. \A g \in Grants :
            grantOf[g] = s => grantOf'[g] = s /\ target'[g] = target[g] /\ (used[g] => used'[g])
        BY NoneAssumption DEF Lasting
    <2> QED BY <2>1, <2>3, <2>4
<1> QED BY <1>2, <1>3

\* and the requests a step does not move.
LEMMA RequestLasts ==
    ASSUME IInv, Lasting, NEW q \in Handlers, pc[q] # "idle", SameRequest(q)
    PROVE  RequestLinked(q)'
<1>1. RequestLinked(q)
    BY DEF IInv, RequestsLinked, At
<1>2. /\ from[q] \in Browsers /\ host[q] \in Hosts /\ pc[q] \in Steps
      /\ pc[q] # "create_session" => sess[q] \in Sessions
    BY <1>1 DEF IInv, TypeOK, RequestLinked, At
<1>3. pc[q] \notin {"create_session", "write_grant"} => CameTo(from[q], host[q], sess[q])'
    <2> SUFFICES ASSUME pc[q] \notin {"create_session", "write_grant"}
                 PROVE  CameTo(from[q], host[q], sess[q])'
        OBVIOUS
    <2>1. sess[q] \in Sessions /\ CameTo(from[q], host[q], sess[q])
        BY <1>1, <1>2 DEF RequestLinked
    <2>2. \A b \in Browsers, h \in Hosts, s \in Sessions : CameTo(b, h, s) => CameTo(b, h, s)'
        BY CameToLasts
    <2> QED BY <1>2, <2>1, <2>2 DEF CameTo, SameRequest
<1>4. nonce[q] # None => nonce[q] \in Nonces
    BY DEF IInv, TypeOK
<1>5. pc[q] = "write_grant" => begunIn[sess[q]] # None
    BY <1>1 DEF RequestLinked, At
<1> QED BY <1>1, <1>2, <1>3, <1>4, <1>5 DEF RequestLinked, SameRequest, Lasting, At


\* A new state goes to the browser whose cookie holds it.
LEMMA LoginKeeps ==
    ASSUME NEW b \in Browsers, NEW h \in Hosts, NEW n \in Nonces, IInv,
           Login(b, h, n)
    PROVE  IInv'
<1>1. TypeOK'
    BY DEF IInv, TypeOK, Login, Give, rows, requests, grants
<1>2. RowsLinked'
    BY NoneAssumption DEF IInv, TypeOK, RowsLinked, Login, Fresh, Give, rows, grants
<1>4. Lasting /\ UNCHANGED <<cookie, secrets>>
    BY DEF IInv, TypeOK, Lasting, Login, Fresh, Give, grants
<1>3. RequestsLinked'
    <2> SUFFICES ASSUME NEW q \in Handlers, pc'[q] # "idle"
                 PROVE  RequestLinked(q)'
        BY DEF RequestsLinked, At
    <2>1. pc[q] # "idle" /\ SameRequest(q)
        BY DEF Login, SameRequest, requests
    <2> QED BY <1>4, <2>1, RequestLasts
<1>5. CookieCameHere' /\ HostSecretHasOrigin'
    BY <1>4, CookiesLast
<1> QED BY <1>1, <1>2, <1>3, <1>5 DEF IInv

\* Only a state cookie is cleared.
LEMMA CallbackRefusedKeeps ==
    ASSUME NEW b \in Browsers, NEW h \in Hosts, NEW n \in Nonces, IInv,
           CallbackRefused(b, h, n)
    PROVE  IInv'
<1>1. TypeOK'
    BY DEF IInv, TypeOK, CallbackRefused, rows, requests, history, grants
<1>2. RowsLinked'
    BY DEF IInv, RowsLinked, CallbackRefused, rows, history, grants
<1>3. RequestsLinked'
    BY DEF IInv, RequestsLinked, CallbackRefused, requests, history, RequestLinked, CameTo, At, grants
<1>4. CookieCameHere'
    BY DEF IInv, CameTo, CookieCameHere, CallbackRefused, history, grants
<1>5. HostSecretHasOrigin'
    BY DEF IInv, HostSecretHasOrigin, CallbackRefused, grants, history
<1> QED BY <1>1, <1>2, <1>3, <1>4, <1>5 DEF IInv

\* The state compared is one given to this browser.
LEMMA CallbackKeeps ==
    ASSUME NEW p \in Handlers, NEW b \in Browsers, NEW h \in Hosts, NEW n \in Nonces,
           NEW a \in Accounts, IInv, Callback(p, b, h, n, a)
    PROVE  IInv'
<1>1. TypeOK'
    BY HostAssumption DEF IInv, TypeOK, Steps, Callback, Serve, Holding, rows, cookies,
       history, grants
<1>2. RowsLinked'
    BY DEF IInv, RowsLinked, Callback, rows, cookies, history, grants
<1>3. RequestsLinked'
    BY NoneAssumption, HostAssumption DEF IInv, TypeOK, RowsLinked, RequestsLinked,
       RequestLinked, CameTo, Callback, At, Serve, Holding, StateMatches, history, grants
<1>4. CookieCameHere'
    BY DEF IInv, CameTo, CookieCameHere, Callback, cookies, history, grants
<1>5. HostSecretHasOrigin'
    BY DEF IInv, HostSecretHasOrigin, Callback, grants, history
<1> QED BY <1>1, <1>2, <1>3, <1>4, <1>5 DEF IInv

\* The new session begins in the browser its state was given to; no cookie,
\* grant or other request knows it yet.
LEMMA CreateSessionKeeps ==
    ASSUME NEW p \in Handlers, NEW s \in Sessions, IInv, CreateSession(p, s)
    PROVE  IInv'
<1>1. TypeOK'
    <2>1. who[p] \in Accounts /\ from[p] \in Browsers /\ host[p] \in Hosts
          /\ nonce[p] \in Nonces
        BY DEF IInv, TypeOK, RequestsLinked, RequestLinked, CameTo, CreateSession, At
    <2>2. clock \in Nat /\ ComputeExpiry(clock, clock) \in Nat
        BY TimeAssumption DEF IInv, TypeOK, ComputeExpiry
    <2> QED BY <2>1, <2>2 DEF IInv, TypeOK, Steps, CreateSession, Serve, Holding, cookies,
       grants
<1>2. RowsLinked'
    BY DEF IInv, TypeOK, RowsLinked, RequestsLinked, RequestLinked, CameTo, CreateSession, At, Serve,
       ComputeExpiry, cookies, grants
<1>3. Lasting /\ UNCHANGED <<cookie, secrets>>
    BY DEF IInv, TypeOK, RowsLinked, Lasting, CreateSession, cookies, grants
<1>4. RequestsLinked'
    <2> SUFFICES ASSUME NEW q \in Handlers, pc'[q] # "idle"
                 PROVE  RequestLinked(q)'
        BY DEF RequestsLinked, At
    <2>1. /\ nonce[p] # None /\ givenTo[nonce[p]] = from[p] /\ from[p] # None /\ host[p] # None
        BY DEF IInv, RequestsLinked, RequestLinked, CreateSession, At
    <2>2. CASE q = p
        <3>1. /\ pc'[q] = "mint" /\ from'[q] = from[p] /\ sess'[q] = s /\ host'[q] = host[p]
              /\ begunIn'[s] = from[p] /\ begunAt'[s] = host[p]
            BY <2>1, <2>2 DEF IInv, TypeOK, CreateSession, Serve
        <3> QED BY <2>1, <3>1, NoneAssumption DEF RequestLinked, CameTo, At
    <2>3. CASE q # p
        <3>1. pc[q] # "idle" /\ SameRequest(q)
            BY <2>3 DEF IInv, TypeOK, CreateSession, Serve, Holding, SameRequest
        <3> QED BY <1>3, <3>1, RequestLasts
    <2> QED BY <2>2, <2>3
<1>5. CookieCameHere' /\ HostSecretHasOrigin'
    BY <1>3, CookiesLast
<1> QED BY <1>1, <1>2, <1>4, <1>5 DEF IInv

\* A new nonce goes to the browser whose cookie holds it.
LEMMA OpenPageKeeps ==
    ASSUME NEW b \in Browsers, NEW h \in Hosts, NEW n \in Nonces, IInv, OpenPage(b, h, n)
    PROVE  IInv'
<1>1. TypeOK'
    BY DEF IInv, TypeOK, OpenPage, Give, rows, requests, grants
<1>2. RowsLinked'
    BY NoneAssumption DEF IInv, TypeOK, RowsLinked, OpenPage, Fresh, Give, rows, grants
<1>4. Lasting /\ UNCHANGED <<cookie, secrets>>
    BY DEF IInv, TypeOK, Lasting, OpenPage, Fresh, Give, grants
<1>3. RequestsLinked'
    <2> SUFFICES ASSUME NEW q \in Handlers, pc'[q] # "idle"
                 PROVE  RequestLinked(q)'
        BY DEF RequestsLinked, At
    <2>1. pc[q] # "idle" /\ SameRequest(q)
        BY DEF OpenPage, SameRequest, requests
    <2> QED BY <1>4, <2>1, RequestLasts
<1>5. CookieCameHere' /\ HostSecretHasOrigin'
    BY <1>4, CookiesLast
<1> QED BY <1>1, <1>2, <1>3, <1>5 DEF IInv

\* The cookie read here names a session of this browser.
LEMMA ContinueAtIdentityKeeps ==
    ASSUME NEW p \in Handlers, NEW b \in Browsers, NEW h \in Hosts, NEW n \in Nonces, NEW s \in
        Sessions, IInv, ContinueAtIdentity(p, b, h, n, s)
    PROVE  IInv'
<1>1. TypeOK'
    BY DEF IInv, TypeOK, Steps, ContinueAtIdentity, Serve, Holding, rows, cookies, history,
       grants
<1>2. RowsLinked'
    BY DEF IInv, RowsLinked, ContinueAtIdentity, rows, cookies, history, grants
<1>3. Lasting /\ UNCHANGED <<cookie, secrets>>
    BY DEF Lasting, ContinueAtIdentity, cookies, history, grants
<1>4. RequestsLinked'
    <2> SUFFICES ASSUME NEW q \in Handlers, pc'[q] # "idle"
                 PROVE  RequestLinked(q)'
        BY DEF RequestsLinked, At
    <2>1. begunIn[s] = b /\ begunAt[s] = IdentityHost
        <3>1. CameTo(b, IdentityHost, s)
            BY HostAssumption, NoneAssumption DEF IInv, CookieCameHere, ContinueAtIdentity, SessionOf
        <3>2. \A g \in Grants : grantOf[g] = s => target[g] # IdentityHost
            BY NoneAssumption DEF IInv, RowsLinked
        <3> QED BY <3>1, <3>2 DEF CameTo
    <2>2. CASE q = p
        <3>1. /\ pc'[q] = "write_grant" /\ from'[q] = b /\ sess'[q] = s /\ host'[q] = h
              /\ nonce'[q] = n /\ givenTo'[n] # None /\ h # IdentityHost
              /\ begunIn' = begunIn /\ begunAt' = begunAt
            BY <2>2 DEF IInv, TypeOK, ContinueAtIdentity, Serve, Holding, Fresh, history
        <3> QED BY <2>1, <3>1, NoneAssumption DEF RequestLinked, At
    <2>3. CASE q # p
        <3>1. pc[q] # "idle" /\ SameRequest(q)
            BY <2>3 DEF IInv, TypeOK, ContinueAtIdentity, Serve, Holding, SameRequest
        <3> QED BY <1>3, <3>1, RequestLasts
    <2> QED BY <2>2, <2>3
<1>5. CookieCameHere' /\ HostSecretHasOrigin'
    BY <1>3, CookiesLast
<1> QED BY <1>1, <1>2, <1>4, <1>5 DEF IInv

\* The grant ties the request's nonce to its session, both of one browser.
LEMMA WriteGrantKeeps ==
    ASSUME NEW p \in Handlers, NEW g \in Grants, IInv, WriteGrant(p, g)
    PROVE  IInv'
<1>1. TypeOK'
    BY TimeAssumption DEF IInv, TypeOK, Steps, WriteGrant, Serve, Holding, Respond, rows,
       cookies, history
<1>2. RowsLinked'
    BY DEF IInv, TypeOK, RowsLinked, RequestsLinked, RequestLinked, CameTo, WriteGrant, At, Serve,
       Respond, rows, cookies, history
<1>3. Lasting /\ UNCHANGED <<cookie, secrets>>
    BY DEF IInv, TypeOK, Lasting, WriteGrant, cookies
<1>4. RequestsLinked'
    <2> SUFFICES ASSUME NEW q \in Handlers, pc'[q] # "idle"
                 PROVE  RequestLinked(q)'
        BY DEF RequestsLinked, At
    <2>1. pc[q] # "idle" /\ SameRequest(q)
        BY DEF IInv, TypeOK, WriteGrant, Respond, Serve, Holding, SameRequest
    <2> QED BY <1>3, <2>1, RequestLasts
<1>5. CookieCameHere' /\ HostSecretHasOrigin'
    BY <1>3, CookiesLast
<1> QED BY <1>1, <1>2, <1>4, <1>5 DEF IInv

\* The nonce cookie leads from this browser to the session of the grant.
LEMMA ContinueAtHostKeeps ==
    ASSUME NEW p \in Handlers, NEW b \in Browsers, NEW h \in Hosts, NEW g \in Grants, IInv,
        ContinueAtHost(p, b, h, g)
    PROVE  IInv'
<1>1. TypeOK'
    BY DEF IInv, TypeOK, Steps, ContinueAtHost, Serve, rows, cookies
<1>2. RowsLinked'
    BY DEF IInv, TypeOK, RowsLinked, ContinueAtHost, Serve, GrantMatches, rows, cookies
<1>3. Lasting /\ UNCHANGED <<cookie, secrets>>
    BY DEF IInv, TypeOK, Lasting, ContinueAtHost, cookies
<1>4. RequestsLinked'
    <2> SUFFICES ASSUME NEW q \in Handlers, pc'[q] # "idle"
                 PROVE  RequestLinked(q)'
        BY DEF RequestsLinked, At
    <2>1. /\ grantOf[g] \in Sessions /\ target[g] = h /\ givenTo[bound[g]] = b
          /\ writtenBy[g] = begunIn[grantOf[g]]
        BY DEF IInv, TypeOK, RowsLinked, ContinueAtHost, GrantMatches
    <2>2. CASE q = p
        <3>1. pc'[q] = "mint" /\ from'[q] = b /\ sess'[q] = grantOf[g] /\ host'[q] = h
            BY <2>2 DEF IInv, TypeOK, ContinueAtHost, Serve
        <3>2. used'[g] /\ UNCHANGED <<grantOf, target, bound, givenTo, writtenBy, begunIn>>
            BY DEF IInv, TypeOK, ContinueAtHost
        <3>3. CameTo(b, h, grantOf[g])'
            BY <2>1, <3>2 DEF CameTo
        <3>4. CameTo(from[q], host[q], sess[q])'
            BY <3>1, <3>2, <3>3 DEF CameTo
        <3> QED BY <2>1, <3>1, <3>4, NoneAssumption DEF RequestLinked, At
    <2>3. CASE q # p
        <3>1. pc[q] # "idle" /\ SameRequest(q)
            BY <2>3 DEF IInv, TypeOK, ContinueAtHost, Serve, SameRequest
        <3> QED BY <1>3, <3>1, RequestLasts
    <2> QED BY <2>2, <2>3
<1>5. CookieCameHere' /\ HostSecretHasOrigin'
    BY <1>3, CookiesLast
<1> QED BY <1>1, <1>2, <1>4, <1>5 DEF IInv

\* A new secret is for a session and host a grant was redeemed for.
LEMMA MintHostSecretKeeps ==
    ASSUME NEW p \in Handlers, IInv, MintHostSecret(p)
    PROVE  IInv'
<1>1. TypeOK'
    <2>1. from[p] \in Browsers /\ sess[p] \in Sessions /\ host[p] \in Hosts
        BY DEF IInv, TypeOK, RequestsLinked, RequestLinked, CameTo, MintHostSecret, At
    <2>2. secrets' \subseteq Sessions \X Hosts
        BY <2>1 DEF IInv, TypeOK, MintHostSecret
    <2>3. CASE <<sess[p], host[p]>> \in secrets
        BY <2>2, <2>3 DEF IInv, TypeOK, Steps, MintHostSecret, Serve, Holding, Respond, rows,
           cookies, history, grants
    <2>4. CASE <<sess[p], host[p]>> \notin secrets
        <3>1. /\ pc' = [pc EXCEPT ![p] = "set_cookie"]
              /\ from' = from /\ sess' = sess /\ host' = host
              /\ UNCHANGED <<nonce, who, where>>
            BY <2>4 DEF IInv, TypeOK, MintHostSecret, Serve
        <3> QED BY <2>2, <3>1 DEF IInv, TypeOK, Steps, MintHostSecret, rows, cookies, history,
           grants
    <2> QED BY <2>3, <2>4
<1>2. RowsLinked'
    BY DEF IInv, RowsLinked, MintHostSecret, rows, cookies, history, grants
<1>3. RequestsLinked'
    <2> SUFFICES ASSUME NEW q \in Handlers, pc'[q] # "idle"
                 PROVE  RequestLinked(q)'
        BY DEF RequestsLinked, At
    <2>1. /\ RequestLinked(q)
          /\ pc[q] # "idle"
          /\ UNCHANGED <<from[q], sess[q], host[q], nonce[q], where[q], who[q]>>
        BY DEF IInv, TypeOK, RequestsLinked, MintHostSecret, At, Serve, Holding, Respond
    <2>2. pc'[q] = pc[q] \/ (pc[q] = "mint" /\ pc'[q] = "set_cookie")
        BY DEF IInv, TypeOK, MintHostSecret, At, Serve, Respond
    <2> QED BY <2>1, <2>2 DEF RequestLinked, CameTo, MintHostSecret, At, history, grants
<1>4. CookieCameHere'
    BY DEF IInv, CameTo, CookieCameHere, MintHostSecret, cookies, history, grants
<1>5. HostSecretHasOrigin'
    <2>1. \/ secrets' = secrets
          \/ secrets' = secrets \cup {<<sess[p], host[p]>>}
        BY DEF MintHostSecret
    <2>2. sess[p] # None /\ CameTo(from[p], host[p], sess[p])
        BY DEF IInv, RequestsLinked, RequestLinked, MintHostSecret, At
    <2>3. \/ begunAt[sess[p]] = host[p]
          \/ /\ begunAt[sess[p]] = IdentityHost
             /\ \E g \in Grants : grantOf[g] = sess[p] /\ target[g] = host[p] /\ used[g]
        BY <2>2 DEF IInv, RowsLinked, CameTo
    <2>4. UNCHANGED <<begunAt, grantOf, target, used>>
        BY DEF MintHostSecret, grants, history
    <2> QED BY <2>1, <2>3, <2>4 DEF IInv, HostSecretHasOrigin
<1> QED BY <1>1, <1>2, <1>3, <1>4, <1>5 DEF IInv

\* The cookie set is of a session begun in the browser that gets it.
LEMMA SetCookieKeeps ==
    ASSUME NEW p \in Handlers, IInv, SetCookie(p)
    PROVE  IInv'
<1>1. TypeOK'
    <2>1. from[p] \in Browsers /\ sess[p] \in Sessions /\ host[p] \in Hosts
        BY DEF IInv, TypeOK, RequestsLinked, RequestLinked, CameTo, SetCookie, At
    <2>2. cookie' \in [Browsers -> [Hosts -> Sessions \cup {None}]]
        BY <2>1 DEF IInv, TypeOK, SetCookie
    <2>3. /\ oauthState' \in [Browsers -> [Hosts -> Nonces \cup {None}]]
          /\ continue' \in [Browsers -> [Hosts -> Nonces \cup {None}]]
        <3>1. /\ continue \in [Browsers -> [Hosts -> Nonces \cup {None}]]
              /\ oauthState \in [Browsers -> [Hosts -> Nonces \cup {None}]]
            BY DEF IInv, TypeOK
        <3>2. \/ /\ oauthState' = [oauthState EXCEPT ![from[p]][host[p]] = None]
                 /\ UNCHANGED continue
              \/ /\ continue' = [continue EXCEPT ![from[p]][host[p]] = None]
                 /\ UNCHANGED oauthState
            BY DEF SetCookie
        <3>3. ASSUME NEW f \in [Browsers -> [Hosts -> Nonces \cup {None}]]
              PROVE  [f EXCEPT ![from[p]][host[p]] = None]
                        \in [Browsers -> [Hosts -> Nonces \cup {None}]]
            BY <2>1
        <3> QED BY <3>1, <3>2, <3>3
    <2> QED BY <2>2, <2>3 DEF IInv, TypeOK, Steps, SetCookie, Respond, Serve, Holding, rows,
       history, grants
<1>2. RowsLinked'
    <2>1. \A b \in Browsers, h \in Hosts :
            /\ oauthState'[b][h] \in {oauthState[b][h], None}
            /\ continue'[b][h] \in {continue[b][h], None}
        <3>1. /\ continue \in [Browsers -> [Hosts -> Nonces \cup {None}]]
              /\ oauthState \in [Browsers -> [Hosts -> Nonces \cup {None}]]
            BY DEF IInv, TypeOK
        <3>2. \/ /\ oauthState' = [oauthState EXCEPT ![from[p]][host[p]] = None]
                 /\ UNCHANGED continue
              \/ /\ continue' = [continue EXCEPT ![from[p]][host[p]] = None]
                 /\ UNCHANGED oauthState
            BY DEF SetCookie
        <3> QED BY <3>1, <3>2
    <2> QED BY <2>1 DEF IInv, RowsLinked, SetCookie, rows, history, grants
<1>3. RequestsLinked'
    BY DEF IInv, TypeOK, RequestsLinked, RequestLinked, CameTo, SetCookie, At, Serve, Holding,
       Respond, history, grants
<1>4. CookieCameHere'
    BY DEF IInv, RequestsLinked, RequestLinked, CameTo, CookieCameHere, SetCookie, At, Serve,
       Respond, history, grants
<1>5. HostSecretHasOrigin'
    BY DEF IInv, HostSecretHasOrigin, SetCookie, grants, history
<1> QED BY <1>1, <1>2, <1>3, <1>4, <1>5 DEF IInv

\* Only this request moves.
LEMMA LogoutKeeps ==
    ASSUME NEW p \in Handlers, NEW b \in Browsers, NEW h \in Hosts, NEW s \in Sessions, IInv,
        Logout(p, b, h, s)
    PROVE  IInv'
<1>1. TypeOK'
    BY DEF IInv, TypeOK, Steps, Logout, Serve, rows, cookies, history, grants
<1>2. RowsLinked'
    BY DEF IInv, RowsLinked, Logout, rows, cookies, history, grants
<1>3. RequestsLinked'
    BY NoneAssumption DEF IInv, TypeOK, RequestsLinked, RequestLinked, CameTo, CookieCameHere,
       Logout, At, Serve, SessionOf, history, grants
<1>4. CookieCameHere'
    BY DEF IInv, CameTo, CookieCameHere, Logout, cookies, history, grants
<1>5. HostSecretHasOrigin'
    BY DEF IInv, HostSecretHasOrigin, Logout, grants, history
<1> QED BY <1>1, <1>2, <1>3, <1>4, <1>5 DEF IInv

\* Only a cookie is cleared.
LEMMA LogoutStaleKeeps ==
    ASSUME NEW b \in Browsers, NEW h \in Hosts, IInv, LogoutStale(b, h)
    PROVE  IInv'
<1>1. TypeOK'
    BY DEF IInv, TypeOK, LogoutStale, rows, requests, history, grants
<1>2. RowsLinked'
    BY DEF IInv, RowsLinked, LogoutStale, rows, history, grants
<1>3. RequestsLinked'
    BY DEF IInv, RequestsLinked, LogoutStale, requests, history, RequestLinked, CameTo, At, grants
<1>4. CookieCameHere'
    BY DEF IInv, CameTo, CookieCameHere, LogoutStale, history, grants
<1>5. HostSecretHasOrigin'
    BY DEF IInv, HostSecretHasOrigin, LogoutStale, grants, history
<1> QED BY <1>1, <1>2, <1>3, <1>4, <1>5 DEF IInv

\* A row is revoked; the request keeps its browser, session and host.
LEMMA RevokeKeeps ==
    ASSUME NEW p \in Handlers, IInv, Revoke(p)
    PROVE  IInv'
<1>1. TypeOK'
    BY DEF IInv, TypeOK, Steps, Revoke, Serve, cookies, history, grants
<1>2. RowsLinked'
    BY DEF IInv, RowsLinked, Revoke, cookies, history, grants
<1>3. RequestsLinked'
    BY DEF IInv, TypeOK, RequestsLinked, RequestLinked, CameTo, Revoke, At, Serve, history, grants
<1>4. CookieCameHere'
    BY DEF IInv, CameTo, CookieCameHere, Revoke, cookies, history, grants
<1>5. HostSecretHasOrigin'
    BY DEF IInv, HostSecretHasOrigin, Revoke, grants, history
<1> QED BY <1>1, <1>2, <1>3, <1>4, <1>5 DEF IInv

\* A cookie is cleared and the request ends.
LEMMA ClearCookieKeeps ==
    ASSUME NEW p \in Handlers, IInv, ClearCookie(p)
    PROVE  IInv'
<1>1. TypeOK'
    BY DEF IInv, TypeOK, Steps, ClearCookie, Serve, Holding, Respond, rows, history, grants
<1>2. RowsLinked'
    BY DEF IInv, RowsLinked, ClearCookie, rows, history, grants
<1>3. RequestsLinked'
    BY DEF IInv, TypeOK, RequestsLinked, RequestLinked, CameTo, ClearCookie, At, Serve, Holding,
       Respond, history, grants
<1>4. CookieCameHere'
    BY DEF IInv, CameTo, CookieCameHere, ClearCookie, Serve, Respond, history, grants
<1>5. HostSecretHasOrigin'
    BY DEF IInv, HostSecretHasOrigin, ClearCookie, grants, history
<1> QED BY <1>1, <1>2, <1>3, <1>4, <1>5 DEF IInv

\* Only this request moves.
LEMMA SessionWorkspaceKeeps ==
    ASSUME NEW p \in Handlers, NEW b \in Browsers, NEW h \in Hosts, NEW s \in Sessions, NEW w
        \in Workspaces, IInv, SessionWorkspace(p, b, h, s, w)
    PROVE  IInv'
<1>1. TypeOK'
    BY DEF IInv, TypeOK, Steps, SessionWorkspace, Serve, Holding, rows, cookies, history, grants
<1>2. RowsLinked'
    BY DEF IInv, RowsLinked, SessionWorkspace, rows, cookies, history, grants
<1>3. RequestsLinked'
    BY NoneAssumption DEF IInv, TypeOK, RequestsLinked, RequestLinked, CameTo, CookieCameHere,
       SessionWorkspace, At, Serve, Holding, SessionOf, history, grants
<1>4. CookieCameHere'
    BY DEF IInv, CameTo, CookieCameHere, SessionWorkspace, cookies, history, grants
<1>5. HostSecretHasOrigin'
    BY DEF IInv, HostSecretHasOrigin, SessionWorkspace, grants, history
<1> QED BY <1>1, <1>2, <1>3, <1>4, <1>5 DEF IInv

\* Only the active workspace of a session changes.
LEMMA SwitchWorkspaceKeeps ==
    ASSUME NEW p \in Handlers, IInv, SwitchWorkspace(p)
    PROVE  IInv'
<1>1. TypeOK'
    BY DEF IInv, TypeOK, Steps, SwitchWorkspace, Serve, Holding, Respond, cookies, history,
       grants
<1>2. RowsLinked'
    BY DEF IInv, RowsLinked, SwitchWorkspace, cookies, history, grants
<1>3. RequestsLinked'
    BY DEF IInv, TypeOK, RequestsLinked, RequestLinked, CameTo, SwitchWorkspace, At, Serve, Holding,
       Respond, history, grants
<1>4. CookieCameHere'
    BY DEF IInv, CameTo, CookieCameHere, SwitchWorkspace, cookies, history, grants
<1>5. HostSecretHasOrigin'
    BY DEF IInv, HostSecretHasOrigin, SwitchWorkspace, grants, history
<1> QED BY <1>1, <1>2, <1>3, <1>4, <1>5 DEF IInv

\* Only this request moves.
LEMMA ContextFromSessionKeeps ==
    ASSUME NEW p \in Handlers, NEW b \in Browsers, NEW h \in Hosts, NEW s \in Sessions, IInv,
        ContextFromSession(p, b, h, s)
    PROVE  IInv'
<1>1. TypeOK'
    BY DEF IInv, TypeOK, Steps, ContextFromSession, Serve, rows, cookies, grants, history
<1>2. RowsLinked'
    BY DEF IInv, RowsLinked, ContextFromSession, rows, cookies, grants, history
<1>3. Lasting /\ UNCHANGED <<cookie, secrets>>
    BY DEF Lasting, ContextFromSession, cookies, history, grants
<1>4. RequestsLinked'
    <2> SUFFICES ASSUME NEW q \in Handlers, pc'[q] # "idle"
                 PROVE  RequestLinked(q)'
        BY DEF RequestsLinked, At
    <2>1. CameTo(b, h, s)
        BY NoneAssumption DEF IInv, CookieCameHere, ContextFromSession, SessionOf
    <2>2. CASE q = p
        <3>1. pc'[q] = "context" /\ from'[q] = b /\ sess'[q] = s /\ host'[q] = h
            BY <2>2 DEF IInv, TypeOK, ContextFromSession, Serve
        <3>2. CameTo(from[q], host[q], sess[q])'
            BY <2>1, <3>1 DEF CameTo, ContextFromSession, history, grants
        <3> QED BY <3>1, <3>2, NoneAssumption DEF RequestLinked, At
    <2>3. CASE q # p
        <3>1. pc[q] # "idle" /\ SameRequest(q)
            BY <2>3 DEF IInv, TypeOK, ContextFromSession, Serve, SameRequest
        <3> QED BY <1>3, <3>1, RequestLasts
    <2> QED BY <2>2, <2>3
<1>5. CookieCameHere' /\ HostSecretHasOrigin'
    BY <1>3, CookiesLast
<1> QED BY <1>1, <1>2, <1>4, <1>5 DEF IInv

\* Only this request moves.
LEMMA EndRequestKeeps ==
    ASSUME NEW p \in Handlers, IInv, EndRequest(p)
    PROVE  IInv'
<1>1. TypeOK'
    BY DEF IInv, TypeOK, Steps, EndRequest, Serve, Holding, Respond, rows, cookies, history,
       grants
<1>2. RowsLinked'
    BY DEF IInv, RowsLinked, EndRequest, rows, cookies, history, grants
<1>3. RequestsLinked'
    BY DEF IInv, TypeOK, RequestsLinked, RequestLinked, CameTo, EndRequest, At, Serve, Holding,
       Respond, history, grants
<1>4. CookieCameHere'
    BY DEF IInv, CameTo, CookieCameHere, EndRequest, cookies, history, grants
<1>5. HostSecretHasOrigin'
    BY DEF IInv, HostSecretHasOrigin, EndRequest, grants, history
<1> QED BY <1>1, <1>2, <1>3, <1>4, <1>5 DEF IInv

\* Only this request moves.
LEMMA LoseRequestKeeps ==
    ASSUME NEW p \in Handlers, IInv, LoseRequest(p)
    PROVE  IInv'
<1>1. TypeOK'
    BY DEF IInv, TypeOK, Steps, LoseRequest, Serve, Holding, Respond, rows, cookies, history,
       grants
<1>2. RowsLinked'
    BY DEF IInv, RowsLinked, LoseRequest, rows, cookies, history, grants
<1>3. RequestsLinked'
    BY DEF IInv, TypeOK, RequestsLinked, RequestLinked, CameTo, LoseRequest, At, Serve, Holding,
       Respond, history, grants
<1>4. CookieCameHere'
    BY DEF IInv, CameTo, CookieCameHere, LoseRequest, cookies, history, grants
<1>5. HostSecretHasOrigin'
    BY DEF IInv, HostSecretHasOrigin, LoseRequest, grants, history
<1> QED BY <1>1, <1>2, <1>3, <1>4, <1>5 DEF IInv

\* Only cookies are cleared.
LEMMA DropCookiesKeeps ==
    ASSUME NEW b \in Browsers, NEW h \in Hosts, IInv, DropCookies(b, h)
    PROVE  IInv'
<1>1. TypeOK'
    BY DEF IInv, TypeOK, DropCookies, rows, requests, history, grants
<1>2. RowsLinked'
    BY DEF IInv, RowsLinked, DropCookies, rows, history, grants
<1>3. RequestsLinked'
    BY DEF IInv, RequestsLinked, DropCookies, requests, history, RequestLinked, CameTo, At, grants
<1>4. CookieCameHere'
    BY DEF IInv, CameTo, CookieCameHere, DropCookies, history, grants
<1>5. HostSecretHasOrigin'
    BY DEF IInv, HostSecretHasOrigin, DropCookies, grants, history
<1> QED BY <1>1, <1>2, <1>3, <1>4, <1>5 DEF IInv

\* Only the clock moves.
LEMMA TickKeeps ==
    ASSUME IInv, Tick
    PROVE  IInv'
<1>1. TypeOK'
    BY TimeAssumption DEF IInv, TypeOK, Tick, rows, cookies, requests, history, grants
<1>2. RowsLinked'
    BY DEF IInv, RowsLinked, Tick, rows, cookies, history, grants
<1>3. RequestsLinked'
    BY DEF IInv, RequestsLinked, Tick, requests, history, RequestLinked, CameTo, At, grants
<1>4. CookieCameHere'
    BY DEF IInv, CameTo, CookieCameHere, Tick, cookies, history, grants
<1>5. HostSecretHasOrigin'
    BY DEF IInv, HostSecretHasOrigin, Tick, grants, history
<1> QED BY <1>1, <1>2, <1>3, <1>4, <1>5 DEF IInv

\* The empty control plane and empty browsers satisfy IInv.
LEMMA InitHolds == Init => IInv
<1> SUFFICES ASSUME Init PROVE IInv
    OBVIOUS
<1>1. TypeOK
    BY TimeAssumption DEF Init, TypeOK, Steps
<1>2. RowsLinked /\ RequestsLinked
    BY DEF Init, RowsLinked, RequestsLinked, At
<1>3. CookieCameHere /\ HostSecretHasOrigin
    BY DEF Init, CookieCameHere, HostSecretHasOrigin
<1> QED BY <1>1, <1>2, <1>3 DEF IInv

\* Every step of a request, a browser or the clock keeps IInv.
LEMMA NextKeeps == IInv /\ [Next]_vars => IInv'
<1> SUFFICES ASSUME IInv, [Next]_vars PROVE IInv'
    OBVIOUS
<1>1. ASSUME NEW b \in Browsers, NEW h \in Hosts, NEW n \in Nonces,
             Login(b, h, n) \/ CallbackRefused(b, h, n) \/ OpenPage(b, h, n)
      PROVE  IInv'
    BY <1>1, LoginKeeps, CallbackRefusedKeeps, OpenPageKeeps
<1>2. ASSUME NEW b \in Browsers, NEW h \in Hosts, LogoutStale(b, h) \/ DropCookies(b, h)
      PROVE  IInv'
    BY <1>2, LogoutStaleKeeps, DropCookiesKeeps
<1>3. ASSUME NEW p \in Handlers, NEW b \in Browsers, NEW h \in Hosts,
             NEW n \in Nonces, NEW a \in Accounts, Callback(p, b, h, n, a)
      PROVE  IInv'
    BY <1>3, CallbackKeeps
<1>4. ASSUME NEW p \in Handlers, NEW b \in Browsers, NEW h \in Hosts,
             \/ \E g \in Grants : ContinueAtHost(p, b, h, g)
             \/ \E s \in Sessions :
                   \/ \E n \in Nonces : ContinueAtIdentity(p, b, h, n, s)
                   \/ Logout(p, b, h, s)
                   \/ \E w \in Workspaces : SessionWorkspace(p, b, h, s, w)
                   \/ ContextFromSession(p, b, h, s)
      PROVE  IInv'
    BY <1>4, ContinueAtHostKeeps, ContinueAtIdentityKeeps, LogoutKeeps, SessionWorkspaceKeeps,
       ContextFromSessionKeeps
<1>5. ASSUME NEW p \in Handlers,
             \/ \E s \in Sessions : CreateSession(p, s)
             \/ \E g \in Grants : WriteGrant(p, g)
             \/ MintHostSecret(p) \/ SetCookie(p) \/ Revoke(p) \/ ClearCookie(p)
             \/ SwitchWorkspace(p) \/ EndRequest(p) \/ LoseRequest(p)
      PROVE  IInv'
    BY <1>5, CreateSessionKeeps, WriteGrantKeeps, MintHostSecretKeeps, SetCookieKeeps,
       RevokeKeeps, ClearCookieKeeps, SwitchWorkspaceKeeps, EndRequestKeeps, LoseRequestKeeps
<1>6. CASE UNCHANGED vars
    <2>1. Lasting /\ UNCHANGED <<cookie, secrets>>
        BY <1>6 DEF Lasting, vars, grants, cookies, history
    <2>2. TypeOK' /\ RowsLinked'
        BY <1>6 DEF IInv, TypeOK, RowsLinked, vars, rows, grants, cookies, requests, history
    <2>3. RequestsLinked'
        BY <1>6 DEF IInv, RequestsLinked, RequestLinked, CameTo, At, vars, grants, requests, history
    <2> QED BY <2>1, <2>2, <2>3, CookiesLast DEF IInv
<1> QED BY <1>1, <1>2, <1>3, <1>4, <1>5, <1>6, TickKeeps DEF Next

-----------------------------------------------------------------------------

\* IInv holds in every reachable state.
THEOREM Invariance == Spec => []IInv
<1> QED BY InitHolds, NextKeeps, PTL DEF Spec

\* Rows, cookies and requests always hold values of their columns.
THEOREM TypeCorrect == Spec => []TypeOK
<1>1. IInv => TypeOK
    BY DEF IInv
<1> QED BY <1>1, Invariance, PTL

\* Across any number of hosts and browsers, whatever URLs are opened where, a
\* browser holds only cookies of sessions it began there or that the browser which
\* began them handed, by a grant, to a nonce of its own.
THEOREM CookiesAccountedFor == Spec => []CookieCameHere
<1>1. IInv => CookieCameHere
    BY DEF IInv
<1> QED BY <1>1, Invariance, PTL

\* However many requests present a code, one of them redeems it.
THEOREM GrantsAreSingleUse == Spec => []GrantRedeemedOnce
<1>1. IInv => GrantRedeemedOnce
    BY DEF IInv, RowsLinked, GrantRedeemedOnce
<1> QED BY <1>1, Invariance, PTL

\* A session leaves the host of its callback only if that is the identity host, and
\* only through a redeemed grant for that session and the other host.
THEOREM SecretsHaveOrigin == Spec => []HostSecretHasOrigin
<1>1. IInv => HostSecretHasOrigin
    BY DEF IInv
<1> QED BY <1>1, Invariance, PTL
=============================================================================

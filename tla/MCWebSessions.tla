--------------------------- MODULE MCWebSessions ---------------------------
(* Model-checking instances of WebSessions. *)
EXTENDS WebSessions, TLC

CONSTANTS a1, w1
Membership == {<<a1, w1>>}

\* Browsers, application hosts, requests and ids still to be drawn differ only
\* in their names.
Interchangeable ==
    Permutations(Browsers) \cup Permutations(Hosts \ {IdentityHost})
        \cup Permutations(Handlers) \cup Permutations(Sessions)
        \cup Permutations(Grants) \cup Permutations(Nonces)
=============================================================================

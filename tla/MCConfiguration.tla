--------------------------- MODULE MCConfiguration ---------------------------
(***************************************************************************)
(* Model-checking instances of Settings and of Routing with Secrets.       *)
(*                                                                         *)
(* The two machines touch only in the resolved routing settings. Those     *)
(* have deployment scope, so no row reaches them, and Routing changes them *)
(* at any time; interleaving the two would show nothing further. A         *)
(* behaviour is therefore one of the settings or one of the routing.       *)
(***************************************************************************)
EXTENDS Settings, Routing, TLC

VARIABLE part

vars == <<part, settingsVars, routingVars>>

\* The declarations of this repository, and those the module contract allows
\* beside them: each kind of floor, rows at provisioning, each scope, the
\* harness's own; the last one is refused by KeySpec.
Versions ==
    StorageKeys \cup IdentityKeys \cup
    { KeySpec("int", "member", "min", FALSE, IntOf(1), {}, "core"),
      KeySpec("int", "workspace", None, TRUE, IntOf(1), {}, "core"),
      KeySpec("bool", "workspace", "and", FALSE, BoolOf(TRUE), {}, "core"),
      KeySpec("list[str]", "workspace", "union", TRUE, ListOf(<<"a">>), {}, "core"),
      KeySpec("list[str]", "workspace", "subset", FALSE, ListOf(<<"a", "b">>), {}, "core"),
      KeySpec("str", "member", None, FALSE, StrOf(<<"a">>), {StrOf(<<"a">>), StrOf(<<"b">>)}, "core"),
      KeySpec("str", "workspace", None, TRUE, StrOf(<<"z">>), {}, "test_harness"),
      KeySpec("str", "workspace", "min", FALSE, StrOf(<<"z">>), {}, "core") }

Offered ==
    { IntOf(1), IntOf(2), BoolOf(TRUE), BoolOf(FALSE), ListOf(<<"a">>), ListOf(<<"a,b">>),
      ListOf(<<"a", "b">>), StrOf(<<"b">>), StrOf(<<"z">>) }

AnyString == STRING
Digits == ("0" :> 0) @@ ("1" :> 1) @@ ("2" :> 2)

Found == { <<"0">>, <<" a", "b">>, <<"">> }

-----------------------------------------------------------------------------
\* What an operator changes of the defaults.
Topology(mode, scheme, port, profile, provider, ref) ==
    [RoutingDefaults EXCEPT !.mode = mode, !.scheme = scheme, !.base_host = [name |-> "example.test", port |-> port]]
        @@ [profile |-> profile, provider |-> provider, secretRef |-> ref]

InEnv == <<Scheme, "env", Slash, "RHEO_INTERNAL_SECRET">>
OldInEnv == InEnv \o <<"_OLD">>

RefTexts ==
    { <<>>, InEnv, OldInEnv, <<Scheme, "env", Slash, "RHEO_CLUSTER_DSN">>, <<Scheme, "env">>,
      <<Scheme, "file", Slash, "internal">>,
      <<Scheme, "file", Slash, "internal", Slash, "web">>,
      <<Scheme, "file", Slash, "internal", Slash, Slash, "web">>,
      <<Scheme, "file", Slash, "internal", "-old", Slash, "web">>,
      <<Scheme, "file", Slash, "storage", Slash, "dsn">> }

Directory ==
    [id \in { <<"internal", "-old", Slash, "web">>, <<"storage", Slash, "dsn">>, <<"internal", Slash, "web">> }
        |-> [kind |-> "regular", shared |-> id[1] = "storage", content |-> "f"]]

Operated ==
    { Topology("path", "https", "", "production", TRUE, InEnv),
      Topology("subdomain", "https", "", "production", TRUE, InEnv),
      Topology("path", "http", "", "development", TRUE, InEnv),
      Topology("subdomain", "http", "", "development", FALSE, OldInEnv) }

Environs == { (<<"RHEO_INTERNAL_SECRET">> :> "s"),
              (<<"RHEO_INTERNAL_SECRET", "_OLD">> :> "s") }

LinkPaths == { <<>>, <<"/">>, <<"/", "auth">>, <<"v1", "/", "ops">> }

-----------------------------------------------------------------------------
Init ==
    /\ part \in {"settings", "routing"}
    /\ SettingsInit
    /\ RoutingInit
    /\ part = "settings" => /\ deployed = Topology("path", "https", "", "production", TRUE, InEnv)
                            /\ DOMAIN environ = {<<"RHEO_INTERNAL_SECRET">>}

InSettings(A) == part = "settings" /\ A /\ UNCHANGED <<part, routingVars>>
InRouting(A) == part = "routing" /\ A /\ UNCHANGED <<part, settingsVars>>

\* SettingsNext and RoutingNext, action by action.
Next ==
    \/ \E s \in Specs, p \in Profiles : InSettings(Register(s, p))
    \/ \E e \in Texts \cup {None}, u \in Variants : InSettings(Restart(e, u))
    \/ \E v \in Natives \cup {None} : InSettings(EditToml(v))
    \/ \E scope \in RowScopes, v \in Natives : InSettings(SettingsSet(scope, v))
    \/ InSettings(WriteDefaultSetting)
    \/ \E scope \in RowScopes, text \in Texts \cup {None} : InSettings(RowFromElsewhere(scope, text))
    \/ \E reached \in BOOLEAN : InRouting(Middleware(reached))
    \/ \E passed, reached \in BOOLEAN : InRouting(RenderPage(passed, reached))
    \/ InRouting(CoreUnreachable)
    \/ InRouting(ContinueRefused)
    \/ InRouting(ContinueAtIdentity)
    \/ InRouting(ContinueWithoutGrant)
    \/ InRouting(ContinueAtHost)
    \/ InRouting(Login)
    \/ \E approved \in BOOLEAN : InRouting(ProviderAnswers(approved))
    \/ InRouting(CallbackRefused)
    \/ InRouting(CallbackWithoutProvider)
    \/ InRouting(Callback)
    \/ \E host \in Hosts, path \in Pages : InRouting(Visit(host, path))
    \/ InRouting(FollowSignIn)
    \/ InRouting(Logout)
    \/ InRouting(SelectWorkspace)
    \/ \E d \in Deployments : InRouting(Edit(d))
    \/ \E env \in Environments : InRouting(RestartCore(env))
    \/ InRouting(RestartWeb)
    \/ \E n \in Ids : InRouting(SessionExpires(n))

\* The browser follows redirects, the servers answer, the provider's page is
\* answered or given up.
Spec == Init /\ [][Next]_vars /\ WF_vars(InRouting(NavigationStep))
=============================================================================

------------------------------ MODULE Settings ------------------------------
(***************************************************************************)
(* One settings key, from its declaration to the value a request reads.    *)
(*                                                                         *)
(*  - settings/schema.py: the declaration, the registry, and what a value  *)
(*    of each type looks like natively and as text;                        *)
(*  - settings/deployment.py: deployment.toml and the environment;         *)
(*  - settings/resolver.py: override rows and floors;                      *)
(*  - settings/write_path.py with the two core.settings operations.        *)
(*                                                                         *)
(* The file and the environment belong to the operator, the rows to the    *)
(* workspace, and each outlives the declaration it was written under: a    *)
(* restart brings another version of the code, and a restored database     *)
(* brings rows nobody validated.                                           *)
(*                                                                         *)
(* A text is a sequence of comma-separated fields; a value carries its     *)
(* type, so that a mistyped value is a value too. Reading a setting has no *)
(* action: it is the state function Resolved.                              *)
(***************************************************************************)
EXTENDS Integers, Sequences, FiniteSets, SequencesExt

CONSTANTS
    Specs,      \* the declarations (KeySpec) this or another version may make
    Natives,    \* the values deployment.toml and a writer may offer
    Texts,      \* the texts an environment variable or a row may hold
    Fields,     \* what texts and lists are sequences of
    Numeral,    \* the number of each field that is one
    None        \* nothing set

VARIABLES
    spec,           \* REGISTRY's entry for the key, None while it is undeclared
    toml,           \* the key's value in deployment.toml
    exact,          \* the variable RHEO__<key>
    upper,          \* its upper-case variant
    rows            \* the override row of each scope

settingsVars == <<spec, toml, exact, upper, rows>>

RowScopes == {"workspace", "member"}
Profiles == {"production", "development", "test"}
Variants == {None, <<"x">>}    \* what the upper-case variable may hold

-----------------------------------------------------------------------------
(* Values *)

IntOf(n) == [type |-> "int", number |-> n, words |-> <<>>]
BoolOf(b) == [type |-> "bool", number |-> IF b THEN 1 ELSE 0, words |-> <<>>]
StrOf(text) == [type |-> "str", number |-> 0, words |-> text]
ListOf(items) == [type |-> "list[str]", number |-> 0, words |-> items]
\* What decode_text raises SettingTypeMismatch for.
Mismatch == [type |-> "mismatch", number |-> 0, words |-> <<>>]

Types == {"int", "bool", "str", "list[str]"}
ScopeNames == {"deployment"} \cup RowScopes
Floors == {"min", "union", "subset", "and"}

IsValue(v) ==
    /\ v \in [type : Types, number : Int, words : Seq(Fields)]
    /\ v.type \in {"int", "bool"} => v.words = <<>>
    /\ v.type = "int" => \E w \in DOMAIN Numeral : Numeral[w] = v.number
    /\ v.type = "bool" => v.number \in {0, 1}
    /\ v.type \in {"str", "list[str]"} => v.number = 0

ASSUME FieldsAssumption == {"", "a", "b", "x", "true", "false"} \subseteq Fields
ASSUME NumeralAssumption ==
    /\ DOMAIN Numeral \subseteq Fields \ {" ", " a"}
    /\ \A w \in DOMAIN Numeral : Numeral[w] \in Int
ASSUME NativesAssumption == \A v \in Natives : IsValue(v)
ASSUME TextsAssumption == Texts \subseteq Seq(Fields) /\ None \notin Seq(Fields)
ASSUME SpecsAssumption ==
    \A s \in Specs : s.type \in Types /\ s.scope \in ScopeNames /\ s.floor \in Floors \cup {None} /\ IsValue(s.default)

MatchesType(s, value) == value.type = s.type

KeySpec(type, scope, floor, explicit, default, choices, origin) ==
    [type |-> type, scope |-> scope, floor |-> floor, explicit |-> explicit,
     default |-> default, choices |-> choices, origin |-> origin]

DeploymentKey(type, default) == KeySpec(type, "deployment", None, FALSE, default, {}, "core")

\* The kinds of declaration among the storage keys, the profile and the token
\* lifetimes, and among the identity and internal keys: the key and the default
\* itself tell nothing more apart. (Routing has the routing keys.)
StorageKeys ==
    { DeploymentKey("str", StrOf(<<"a">>)),
      DeploymentKey("int", IntOf(2)),
      KeySpec("str", "deployment", None, FALSE, StrOf(<<"development">>),
              {StrOf(<<p>>) : p \in Profiles}, "core"),
      KeySpec("int", "workspace", "min", FALSE, IntOf(2), {}, "core") }
IdentityKeys ==
    { DeploymentKey("bool", BoolOf(FALSE)), DeploymentKey("int", IntOf(2)), DeploymentKey("str", StrOf(<<"">>)) }

FloorType == [min |-> "int", union |-> "list[str]", subset |-> "list[str]", and |-> "bool"]

\* KeySpec.__post_init__.
Declarable(s) ==
    /\ MatchesType(s, s.default)
    /\ s.floor # None => FloorType[s.floor] = s.type
    /\ s.choices # {} => s.type = "str" /\ s.default \in s.choices

CheckValue(s, value) ==
    IF MatchesType(s, value) /\ (s.choices # {} => value \in s.choices) THEN value ELSE Mismatch

\* str.strip and str.lower on the fields that occur.
Strip(field) == CASE field = " " -> "" [] field = " a" -> "a" [] OTHER -> field
Lower(field) == IF field = "TRUE" THEN "true" ELSE field

TrueWords == {"1", "true", "yes", "on"}
FalseWords == {"0", "false", "no", "off"}

\* The items that are in T, in their order: a list comprehension with a condition.
ThoseIn(items, T) ==
    LET at == {i \in DOMAIN items : items[i] \in T}
        upto(i) == {j \in at : j <= i}
    IN  [k \in 1 .. Cardinality(at) |-> items[CHOOSE i \in at : Cardinality(upto(i)) = k]]

DecodeList(text) ==
    LET items == [i \in DOMAIN text |-> Strip(text[i])]
    IN  ListOf(ThoseIn(items, ToSet(items) \ {""}))

\* The text by its declared type alone.
Coerced(s, text) ==
    LET word == Strip(text[1])
        single == Len(text) = 1
    IN  CASE s.type = "str" -> StrOf(text)
          [] s.type = "int" -> IF single /\ word \in DOMAIN Numeral THEN IntOf(Numeral[word]) ELSE Mismatch
          [] s.type = "bool" -> IF single /\ Lower(word) \in TrueWords THEN BoolOf(TRUE)
                                ELSE IF single /\ Lower(word) \in FalseWords THEN BoolOf(FALSE)
                                ELSE Mismatch
          [] s.type = "list[str]" -> DecodeList(text)

\* Mutant: a text is not held to the choices.
DecodeUnchecked(s, text) == Coerced(s, text)

DecodeText(s, text) == CheckValue(s, Coerced(s, text))

\* The comma-separated fields of one list item: an item may hold a comma.
Pieces(item) == IF item = "a,b" THEN <<"a", "b">> ELSE <<item>>

EncodeText(s, value) ==
    CASE s.type = "str" -> value.words
      [] s.type = "int" -> <<CHOOSE w \in DOMAIN Numeral : Numeral[w] = value.number>>
      [] s.type = "bool" -> IF value.number = 1 THEN <<"true">> ELSE <<"false">>
      [] s.type = "list[str]" ->
            IF value.words = <<>> THEN <<"">>
            ELSE FlattenSeq([i \in DOMAIN value.words |-> Pieces(value.words[i])])

-----------------------------------------------------------------------------
(* The deployment layer: deployment.toml, then the environment *)

LoadDeploymentToml(s) == IF toml = None THEN None ELSE CheckValue(s, toml)

\* The exact name wins; the variant that is not chosen is not read at all.
LoadEnvironment(s) ==
    IF exact # None THEN DecodeText(s, exact)
    ELSE IF upper # None THEN DecodeText(s, upper)
    ELSE None

\* deployment_layer raises: a file or a variable names a key nobody declares, or
\* holds a value of another type. It is read on every resolve.
LayerRaises ==
    IF spec = None THEN toml # None \/ exact # None \/ upper # None
    ELSE Mismatch \in {LoadDeploymentToml(spec), LoadEnvironment(spec)}

\* resolve() with no rows: package default, file, environment.
Deployment ==
    IF LoadEnvironment(spec) # None THEN LoadEnvironment(spec)
    ELSE IF toml # None THEN LoadDeploymentToml(spec)
    ELSE spec.default

-----------------------------------------------------------------------------
(* Floors *)

ApplyFloor(floor, deployment, override) ==
    CASE floor = "min" -> IF override.number < deployment.number THEN override ELSE deployment
      [] floor = "union" ->
            ListOf(deployment.words \o ThoseIn(override.words, ToSet(override.words) \ ToSet(deployment.words)))
      [] floor = "subset" ->
            ListOf(ThoseIn(deployment.words, ToSet(override.words)))
      [] floor = "and" -> BoolOf(deployment.number = 1 /\ override.number = 1)

\* Mutant: an equal number counts as looser.
IsLooserOrEqual(floor, deployment, candidate) ==
    CASE floor = "min" -> candidate.number >= deployment.number
      [] floor = "union" -> ~(ToSet(deployment.words) \subseteq ToSet(candidate.words))
      [] floor = "subset" -> ~(ToSet(candidate.words) \subseteq ToSet(deployment.words))
      [] floor = "and" -> candidate.number = 1 /\ deployment.number = 0

IsLooser(floor, deployment, candidate) ==
    CASE floor = "min" -> candidate.number > deployment.number
      [] floor = "union" -> ~(ToSet(deployment.words) \subseteq ToSet(candidate.words))
      [] floor = "subset" -> ~(ToSet(candidate.words) \subseteq ToSet(deployment.words))
      [] floor = "and" -> candidate.number = 1 /\ deployment.number = 0

\* Mutant: the floor is not applied when a row is read.
ApplyRowUnfloored(s, value, scope, text) ==
    IF text = None \/ s.scope # scope \/ DecodeText(s, text) = Mismatch THEN value
    ELSE DecodeText(s, text)

\* One layer of _apply_rows: a row of another scope or of a wrong type is
\* logged and ignored, never an error.
ApplyRow(s, value, scope, text) ==
    IF text = None \/ s.scope # scope \/ DecodeText(s, text) = Mismatch THEN value
    ELSE IF s.floor # None THEN ApplyFloor(s.floor, value, DecodeText(s, text))
    ELSE DecodeText(s, text)

ApplyRows(r) == ApplyRow(spec, ApplyRow(spec, Deployment, "workspace", r["workspace"]), "member", r["member"])

\* What a request of a member of the workspace reads.
Resolved == ApplyRows(rows)

\* The write path's verdict on a value offered for a row of a scope.
Accepts(scope, value) ==
    /\ spec # None
    /\ spec.scope = scope
    /\ CheckValue(spec, value) # Mismatch
    /\ spec.floor # None => ~IsLooser(spec.floor, Deployment, value)

-----------------------------------------------------------------------------
SettingsInit ==
    /\ spec = None
    /\ toml = None /\ exact = None /\ upper = None
    /\ rows = [scope \in RowScopes |-> None]

\* register, in a process of profile p: the harness may declare keys only under
\* profile test, and asks for it through the deployment layer, which must be
\* readable.
Register(s, p) ==
    /\ Declarable(s)
    /\ s.origin = "test_harness" => p = "test" /\ ~LayerRaises
    /\ spec = None
    /\ spec' = s
    /\ UNCHANGED <<toml, exact, upper, rows>>

\* Another process, of the same or of another version of the code, with
\* another environment. Nothing is declared in it yet.
Restart(e, u) ==
    /\ spec # None
    /\ spec' = None
    /\ exact' = e
    /\ upper' = u
    /\ UNCHANGED <<toml, rows>>

EditToml(v) ==
    /\ toml' = v
    /\ UNCHANGED <<spec, exact, upper, rows>>

\* core.settings.set and core.settings.set_member: validated against the
\* deployment value of this moment, then upserted. Refused while the layer
\* cannot be read.
SettingsSet(scope, v) ==
    /\ ~LayerRaises
    /\ Accepts(scope, v)
    /\ rows' = [rows EXCEPT ![scope] = EncodeText(spec, v)]
    /\ UNCHANGED <<spec, toml, exact, upper>>

\* Provisioning's step 4 for an explicit_per_workspace key: the package
\* default, whatever the deployment says, unless the row exists.
WriteDefaultSetting ==
    /\ spec # None /\ spec.explicit
    /\ rows["workspace"] = None
    /\ rows' = [rows EXCEPT !["workspace"] = EncodeText(spec, spec.default)]
    /\ UNCHANGED <<spec, toml, exact, upper>>

\* A row that this version did not write: a restored database, a row written
\* by another version, a hand at psql.
RowFromElsewhere(scope, text) ==
    /\ rows' = [rows EXCEPT ![scope] = text]
    /\ UNCHANGED <<spec, toml, exact, upper>>

SettingsNext ==
    \/ \E s \in Specs, p \in Profiles : Register(s, p)
    \/ \E e \in Texts \cup {None}, u \in Variants : Restart(e, u)
    \/ \E v \in Natives \cup {None} : EditToml(v)
    \/ \E scope \in RowScopes, v \in Natives : SettingsSet(scope, v)
    \/ WriteDefaultSetting
    \/ \E scope \in RowScopes, text \in Texts \cup {None} : RowFromElsewhere(scope, text)

SettingsSpec == SettingsInit /\ [][SettingsNext]_settingsVars

-----------------------------------------------------------------------------
Readable == spec # None /\ ~LayerRaises

NotLooser(floor, value, deployment) ==
    CASE floor = "min" -> value.number <= deployment.number
      [] floor = "and" -> value.number = 1 => deployment.number = 1
      [] floor = "union" -> \A x \in ToSet(deployment.words) : x \in ToSet(value.words)
      [] floor = "subset" -> \A x \in ToSet(value.words) : x \in ToSet(deployment.words)

\* Whatever the rows hold, whoever wrote them and under whichever deployment
\* value they were accepted, a request never reads a value looser than the
\* deployment value of now: apply_floor is applied on every read.
NeverLooser == Readable /\ spec.floor # None => NotLooser(spec.floor, Resolved, Deployment)

\* A row can never make a setting unreadable or give it a value its declaration
\* does not allow: _apply_rows drops what does not decode, and what the floor
\* combines keeps the declared type and choices.
RowsNeverBreakReading == Readable => CheckValue(spec, Resolved) = Resolved

\* A list item that survives being joined by commas and split again.
Clean(v) == \A i \in DOMAIN v.words : v.type = "list[str]" => Pieces(v.words[i]) = <<Strip(v.words[i])>> /\ v.words[i] # ""

SameSetting(v, w) == v.type = w.type /\ v.number = w.number
                     /\ IF v.type = "list[str]" THEN ToSet(v.words) = ToSet(w.words) ELSE v.words = w.words

\* The write path and the read path agree: a value is accepted for a scope
\* exactly when storing it makes every later request, under the same
\* deployment, read that very value (a floored list up to its order).
WriteMatchesRead ==
    Readable => \A scope \in RowScopes : \A v \in {n \in Natives : n.type = spec.type /\ Clean(n)} :
        spec.scope = scope =>
            (Accepts(scope, v) <=>
                SameSetting(ApplyRows([rows EXCEPT ![scope] = EncodeText(spec, v)]), v))
=============================================================================

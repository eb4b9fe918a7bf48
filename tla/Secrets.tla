------------------------------- MODULE Secrets -------------------------------
(***************************************************************************)
(* The secret store, as functions of a reference, a scope and what the     *)
(* environment and the secrets directory hold.                             *)
(*                                                                         *)
(*  - secrets/refs.py: what parses as a reference;                         *)
(*  - secrets/scope.py: which references a component may resolve;          *)
(*  - secrets/backends.py, secrets/store.py: resolving one, and the check  *)
(*    of the environment at startup.                                       *)
(*                                                                         *)
(* A text is a sequence of pieces no one of which begins another; "/" is a *)
(* piece of its own, so RHEO_CLUSTER_DSN_ADMIN, written with the pieces    *)
(* "RHEO_CLUSTER_DSN" and "_ADMIN", begins with RHEO_CLUSTER_DSN.          *)
(***************************************************************************)
EXTENDS Naturals, Sequences, SequencesExt

Slash == "/"
Scheme == "secret://"

\* The pieces of a file id: slugs, joined by "-" (a piece such as "-old") or "/".
Slugs == {"internal", "storage", "web", "dsn"}
SlugTails == {"-old"}
\* The pieces of the name of a variable.
Names == {"RHEO_INTERNAL_SECRET", "RHEO_CLUSTER_DSN"}
NameTails == {"_OLD", "_ADMIN"}

IsSecretReference(text) == text # <<>> /\ Head(text) = Scheme

\* is_slug_path: segments that are not empty and are slugs.
IsSlugPath(id) ==
    /\ id # <<>>
    /\ \A i \in DOMAIN id : \/ id[i] \in Slugs /\ (i = 1 \/ id[i - 1] = Slash)
                            \/ id[i] \in SlugTails /\ i > 1 /\ id[i - 1] # Slash
                            \/ id[i] = Slash /\ i > 1 /\ i < Len(id) /\ id[i - 1] # Slash

IsEnvName(id) ==
    id # <<>> /\ id[1] \in Names /\ \A i \in 2..Len(id) : id[i] \in NameTails

\* SecretRef.parse: scheme, backend, "/", and an id the backend can read.
Parses(text) ==
    /\ IsSecretReference(text)
    /\ Len(text) >= 3 /\ text[3] = Slash
    /\ LET id == SubSeq(text, 4, Len(text))
       IN  \/ text[2] = "file" /\ IsSlugPath(id)
           \/ text[2] = "env" /\ IsEnvName(id)

IdOf(text) == SubSeq(text, 4, Len(text))

\* Mutant: a prefix covers whatever begins with its characters.
PermitsByCharacters(prefixes, text) ==
    \E prefix \in prefixes : IsPrefix(prefix, text)

Permits(prefixes, text) ==
    \E prefix \in prefixes :
        \/ text = prefix
        \/ IsPrefix(IF Last(prefix) = Slash THEN prefix ELSE Append(prefix, Slash), text)

\* The two backends. environ gives variables their values; files gives each file
\* what stat and a read of it find.
FileRead(id, files) ==
    IF id \notin DOMAIN files \/ files[id].kind # "regular" THEN "secret_missing"
    ELSE IF files[id].shared THEN "secret_permissions"
    ELSE files[id].content

EnvRead(id, environ) == IF id \in DOMAIN environ THEN environ[id] ELSE "secret_missing"

\* SecretRef.parse and SecretStore.resolve: the secret, or the state the
\* reference is refused with.
Resolve(text, prefixes, environ, files) ==
    IF ~Parses(text) THEN "secret_ref_malformed"
    ELSE IF ~Permits(prefixes, text) THEN "secret_scope_denied"
    ELSE IF text[2] = "env" THEN EnvRead(IdOf(text), environ)
    ELSE FileRead(IdOf(text), files)

Refusals == {"secret_ref_malformed", "secret_scope_denied", "secret_missing", "secret_permissions"}

\* check_env_references: every setting that carries the scheme parses, and
\* every variable such a setting names is set.
CheckEnvReferences(texts, environ) ==
    \A text \in texts : IsSecretReference(text) =>
        Parses(text) /\ (text[2] = "env" => IdOf(text) \in DOMAIN environ)

\* What a scope is meant to cover: the reference a prefix names and the paths
\* beneath it, in whole segments.
Covers(prefix, text) ==
    LET stem == IF Last(prefix) = Slash THEN Front(prefix) ELSE prefix
    IN  /\ Len(stem) <= Len(text) /\ SubSeq(text, 1, Len(stem)) = stem
        /\ \/ Len(text) = Len(stem) /\ stem = prefix
           \/ Len(text) > Len(stem) /\ text[Len(stem) + 1] = Slash
=============================================================================

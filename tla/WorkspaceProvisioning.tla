----------------------- MODULE WorkspaceProvisioning -----------------------
(***************************************************************************)
(* The life of a workspace: the registry row in the control plane, the     *)
(* workspace database, and the processes that write them.                  *)
(*                                                                         *)
(*  - storage/provisioning.py: provision and repair, both a walk over the  *)
(*    five steps of PROVISION_STEPS;                                       *)
(*  - migrations/orchestrator.py: run_chain under the advisory lock, and   *)
(*    migrate_active_workspaces, run by rheo migrate and by every core     *)
(*    process when it starts;                                              *)
(*  - storage/routing.py with UnitOfWork: a core process serves a request  *)
(*    of an active workspace.                                              *)
(*                                                                         *)
(* A process runs operator commands or is a core replica. Each action is   *)
(* one transaction or one autocommit statement, so a process may be        *)
(* overtaken, or die, between any two of them. Processes run different     *)
(* versions of the code: a process's head is the newest revision of the    *)
(* core chain it knows.                                                    *)
(*                                                                         *)
(* A refusal that changes nothing and ends the command (slug_taken,        *)
(* account_missing, workspace_exists at step 1, workspace_missing, repair  *)
(* of an active workspace) is a stuttering step and has no action.         *)
(* The registry states migrating and restoring are written by no code.     *)
(***************************************************************************)
EXTENDS Naturals

CONSTANTS
    Workspaces,     \* workspace ids a command may name
    Accounts,       \* account ids a command may name
    KnownAccounts,  \* those with a row in control.account
    Slugs,          \* slugs a caller may ask for
    Operators,      \* processes an operator runs rheo commands in
    Replicas,       \* core processes
    Heads           \* newest core revision known to some deployed version

ASSUME KnownAccountsAssumption == KnownAccounts \subseteq Accounts
ASSUME ProcessesAssumption == Operators \cap Replicas = {}
ASSUME HeadsAssumption == Heads \subseteq Nat \ {0}

VARIABLES
    \* control.workspace and control.membership
    state, detail, slug, role,
    \* the workspace databases: created, core revision, workspace_composition's
    \* core version, the explicit_per_workspace settings row
    exists, revision, composition, settings,
    \* the processes: where each stands, what it runs and has read so far
    pc,        \* the next transaction of a process
    job,       \* the command it runs
    ws,        \* the workspace it works on
    head,      \* its code version
    seen,      \* the revision run_chain read under the lock
    note,      \* the state_detail its next registry write records
    todo,      \* the listed workspaces it has still to migrate
    \* history: the accounts provisioning made owner, and how the last chain
    \* run of the orchestrator ended
    provisionedFor, lastChain

registry == <<state, detail, slug>>
databases == <<exists, revision, composition, settings>>
processes == <<pc, job, ws, head, seen, note, todo>>
history == <<provisionedFor, lastChain>>
vars == <<registry, role, databases, processes, history>>

-----------------------------------------------------------------------------
(* The steps by name, and the values of the state *)

\* Mutant: the settings are forgotten after a migration.
StepAfterForgetsSettings(step) ==
    CASE step = "insert_registry_row" -> "create_database"
      [] step = "create_database" -> "migrate_core"
      [] step \in {"migrate_core", "write_default_settings"} -> "activate"

\* PROVISION_STEPS: the step that follows a completed one.
StepAfter(step) == CASE step = "insert_registry_row" -> "create_database"
                     [] step = "create_database" -> "migrate_core"
                     [] step = "migrate_core" -> "write_default_settings"
                     [] step = "write_default_settings" -> "activate"

Recorded == {"insert_registry_row", "create_database", "migrate_core",
             "write_default_settings"}
States == {"absent", "provisioning", "active", "unavailable"}
Details == Recorded \cup {"none", "activate", "schema_ahead", "error"}
PCs == {"idle", "create_database", "recheck_database", "migrate_core",
        "upgrade", "write_default_settings", "activate", "record",
        "next_workspace", "mark_unavailable", "serving", "unit_of_work"}
Jobs == {"none", "walk", "migrate", "startup"}
Revisions == {0} \cup Heads

Processes == Operators \cup Replicas

NoSlug == "no slug"
NoWorkspace == "no workspace"

Exists(w) == state[w] # "absent"

Init ==
    /\ state = [w \in Workspaces |-> "absent"]
    /\ detail = [w \in Workspaces |-> "none"]
    /\ slug = [w \in Workspaces |-> NoSlug]
    /\ role = [w \in Workspaces |-> [a \in Accounts |-> "none"]]
    /\ exists = [w \in Workspaces |-> FALSE]
    /\ revision = [w \in Workspaces |-> 0]
    /\ composition = [w \in Workspaces |-> 0]
    /\ settings = [w \in Workspaces |-> "absent"]
    /\ pc = [p \in Processes |-> "idle"]
    /\ job = [p \in Processes |-> "none"]
    /\ ws = [p \in Processes |-> NoWorkspace]
    /\ head = [p \in Processes |-> 0]
    /\ seen = [p \in Processes |-> 0]
    /\ note = [p \in Processes |-> "none"]
    /\ todo = [p \in Processes |-> {}]
    /\ provisionedFor = [w \in Workspaces |-> {}]
    /\ lastChain = [w \in Workspaces |-> "ok"]

-----------------------------------------------------------------------------
(* Moves of a process *)

At(p, where) == pc[p] = where

Become(p, where, j, w, h, list) ==
    /\ pc' = [pc EXCEPT ![p] = where]
    /\ job' = [job EXCEPT ![p] = j]
    /\ ws' = [ws EXCEPT ![p] = w]
    /\ head' = [head EXCEPT ![p] = h]
    /\ seen' = [seen EXCEPT ![p] = 0]
    /\ note' = [note EXCEPT ![p] = "none"]
    /\ todo' = [todo EXCEPT ![p] = list]

\* _walk from step on; the end of a command, by success, refusal or exception.
StartWalk(p, w, h, step) == Become(p, step, "walk", w, h, {})
End(p) == Become(p, "idle", "none", NoWorkspace, 0, {})

Goto(p, where) ==
    /\ pc' = [pc EXCEPT ![p] = where]
    /\ UNCHANGED <<job, ws, head, seen, note, todo>>

\* Go on to a registry write that records d.
GotoWrite(p, where, d) ==
    /\ pc' = [pc EXCEPT ![p] = where]
    /\ note' = [note EXCEPT ![p] = d]
    /\ seen' = [seen EXCEPT ![p] = 0]
    /\ UNCHANGED <<job, ws, head, todo>>

\* Done with the workspace at hand.
Leave(p, where) ==
    /\ pc' = [pc EXCEPT ![p] = where]
    /\ ws' = [ws EXCEPT ![p] = NoWorkspace]
    /\ seen' = [seen EXCEPT ![p] = 0]
    /\ note' = [note EXCEPT ![p] = "none"]
    /\ UNCHANGED <<job, head, todo>>

-----------------------------------------------------------------------------
(* provision, step 1, and repair *)

\* One control-plane transaction: the row and its owner are inserted together.
InsertRegistryRow(p, w, a, s, h) ==
    /\ At(p, "idle")
    /\ state[w] = "absent"
    /\ \A v \in Workspaces : slug[v] # s
    /\ a \in KnownAccounts
    /\ state' = [state EXCEPT ![w] = "provisioning"]
    /\ detail' = [detail EXCEPT ![w] = "insert_registry_row"]
    /\ slug' = [slug EXCEPT ![w] = s]
    /\ role' = [role EXCEPT ![w][a] = "owner"]
    /\ provisionedFor' = [provisionedFor EXCEPT ![w] = @ \cup {a}]
    /\ StartWalk(p, w, h, "create_database")
    /\ UNCHANGED <<databases, lastChain>>

\* Mutant: a retry inserts the membership of whoever calls.
RetryAddsOwner(p, w, a, h) ==
    /\ At(p, "idle")
    /\ state[w] = "provisioning"
    /\ a \in KnownAccounts
    /\ role' = [role EXCEPT ![w][a] = "owner"]
    /\ provisionedFor' = [provisionedFor EXCEPT ![w] = @ \cup {a}]
    /\ StartWalk(p, w, h, "create_database")
    /\ UNCHANGED <<registry, databases, lastChain>>

\* A retry finds the row and goes on only for its owner.
RetryRegistryRow(p, w, a, h) ==
    /\ At(p, "idle")
    /\ state[w] = "provisioning"
    /\ role[w][a] = "owner"
    /\ StartWalk(p, w, h, "create_database")
    /\ UNCHANGED <<registry, role, databases, history>>

\* Mutants: the slice starts at the recorded step, or two steps after it.
RemainingFrom(d) == d
RemainingTwoAfter(d) == IF d = "create_database" THEN "write_default_settings" ELSE StepAfter(d)

\* repair reads the row once and resumes after the recorded step; an
\* unavailable workspace is walked from migrate_core.
RemainingAfter(d) == IF d \in Recorded THEN StepAfter(d) ELSE "create_database"

\* Mutant: repair knows only provisioning workspaces.
RepairOnlyProvisioning(p, w, h) ==
    /\ At(p, "idle")
    /\ state[w] = "provisioning"
    /\ StartWalk(p, w, h, RemainingAfter(detail[w]))
    /\ UNCHANGED <<registry, role, databases, history>>

Repair(p, w, h) ==
    /\ At(p, "idle")
    /\ \/ /\ state[w] = "provisioning"
          /\ StartWalk(p, w, h, RemainingAfter(detail[w]))
       \/ /\ state[w] = "unavailable"
          /\ StartWalk(p, w, h, "migrate_core")
    /\ UNCHANGED <<registry, role, databases, history>>

-----------------------------------------------------------------------------
(* The walk: steps 2 to 5 *)

\* CREATE DATABASE; an existing database sends the walk back to the registry.
CreateDatabase(p) ==
    /\ At(p, "create_database")
    /\ \/ /\ ~exists[ws[p]]
          /\ exists' = [exists EXCEPT ![ws[p]] = TRUE]
          /\ GotoWrite(p, "record", "create_database")
       \/ /\ exists[ws[p]]
          /\ Goto(p, "recheck_database")
          /\ UNCHANGED exists
    /\ UNCHANGED <<registry, role, revision, composition, settings, history>>

RecheckDatabase(p) ==
    /\ At(p, "recheck_database")
    /\ IF state[ws[p]] = "provisioning"
       THEN GotoWrite(p, "record", "create_database")
       ELSE End(p)
    /\ UNCHANGED <<registry, role, databases, history>>

SetWorkspaceState(w, st, d) ==
    /\ state' = [state EXCEPT ![w] = st]
    /\ detail' = [detail EXCEPT ![w] = d]
    /\ UNCHANGED slug

\* Mutant: the write of issue #23, without expected states.
RecordAnyState == States

\* _record_step: compare-and-set; a refused walk ends.
RecordExpectedStates == {"provisioning", "unavailable"}

RecordStep(p) ==
    /\ At(p, "record")
    /\ IF state[ws[p]] \in RecordExpectedStates
       THEN /\ SetWorkspaceState(ws[p], "provisioning", note[p])
            /\ GotoWrite(p, StepAfter(note[p]), "none")
       ELSE End(p) /\ UNCHANGED registry
    /\ UNCHANGED <<role, databases, history>>

\* Mutant: an upsert.
OverwriteSetting(row) == "default"

\* insert_workspace_setting_if_absent for the explicit_per_workspace keys.
InsertSettingIfAbsent(row) == IF row = "absent" THEN "default" ELSE row

WriteDefaultSettings(p) ==
    /\ At(p, "write_default_settings")
    /\ settings' = [settings EXCEPT ![ws[p]] = InsertSettingIfAbsent(@)]
    /\ GotoWrite(p, "record", "write_default_settings")
    /\ UNCHANGED <<registry, role, exists, revision, composition, history>>

ActivateExpectedStates == {"provisioning"}

Activate(p) ==
    /\ At(p, "activate")
    /\ IF state[ws[p]] \in ActivateExpectedStates
       THEN SetWorkspaceState(ws[p], "active", "activate")
       ELSE UNCHANGED registry
    /\ End(p)
    /\ UNCHANGED <<role, databases, history>>

-----------------------------------------------------------------------------
(* run_chain: one transaction on the workspace database *)

\* Mutant: no advisory lock.
NoLock(w) == TRUE

\* pg_advisory_xact_lock: held from run_chain to the end of the transaction.
AdvisoryLockFree(w) == \A q \in Processes : ~(At(q, "upgrade") /\ ws[q] = w)

\* The lock first, then the revision the database records.
BeginChain(p) ==
    /\ At(p, "migrate_core")
    /\ exists[ws[p]]
    /\ AdvisoryLockFree(ws[p])
    /\ pc' = [pc EXCEPT ![p] = "upgrade"]
    /\ seen' = [seen EXCEPT ![p] = revision[ws[p]]]
    /\ UNCHANGED <<registry, role, databases, job, ws, head, note, todo, history>>

SchemaAhead(p) == seen[p] > head[p]

\* A walk also writes workspace_composition in the same transaction.
UpgradeToHead(p) ==
    /\ At(p, "upgrade")
    /\ ~SchemaAhead(p)
    /\ revision' = [revision EXCEPT ![ws[p]] = head[p]]
    /\ IF job[p] = "walk"
       THEN /\ composition' = [composition EXCEPT ![ws[p]] = head[p]]
            /\ GotoWrite(p, "record", "migrate_core")
       ELSE /\ Leave(p, "next_workspace")
            /\ UNCHANGED composition
    /\ lastChain' = [lastChain EXCEPT ![ws[p]] = "ok"]
    /\ UNCHANGED <<registry, role, exists, settings, provisionedFor>>

\* A failed chain rolls back. A walk raises; migrate_workspace goes on to
\* mark the row.
FailChain(p, d) ==
    /\ IF job[p] = "walk"
       THEN End(p) /\ UNCHANGED lastChain
       ELSE /\ GotoWrite(p, "mark_unavailable", d)
            /\ lastChain' = [lastChain EXCEPT ![ws[p]] = "failed"]
    /\ UNCHANGED <<registry, role, databases, provisionedFor>>

RefuseSchemaAhead(p) ==
    At(p, "upgrade") /\ SchemaAhead(p) /\ FailChain(p, "schema_ahead")

ChainError(p) ==
    pc[p] \in {"migrate_core", "upgrade"} /\ FailChain(p, "error")

-----------------------------------------------------------------------------
(* migrate_active_workspaces: rheo migrate, and the startup of a replica *)

ListActive(p, h, j) ==
    /\ At(p, "idle")
    /\ Become(p, "next_workspace", j, NoWorkspace, h,
              {w \in Workspaces : state[w] = "active"})
    /\ UNCHANGED <<registry, role, databases, history>>

\* Mutant: the workspace stays on the list.
NextWorkspaceAgain(p) ==
    /\ At(p, "next_workspace")
    /\ \E w \in todo[p] : /\ pc' = [pc EXCEPT ![p] = "migrate_core"]
                          /\ ws' = [ws EXCEPT ![p] = w]
    /\ UNCHANGED <<registry, role, databases, job, head, seen, note, todo, history>>

NextWorkspace(p) ==
    /\ At(p, "next_workspace")
    /\ \E w \in todo[p] :
          /\ pc' = [pc EXCEPT ![p] = "migrate_core"]
          /\ ws' = [ws EXCEPT ![p] = w]
          /\ todo' = [todo EXCEPT ![p] = @ \ {w}]
    /\ UNCHANGED <<registry, role, databases, job, head, seen, note, history>>

EndMigration(p) ==
    /\ At(p, "next_workspace")
    /\ todo[p] = {}
    /\ IF job[p] = "startup" THEN Goto(p, "serving") ELSE End(p)
    /\ UNCHANGED <<registry, role, databases, history>>

\* The one registry write without expected states.
MarkUnavailable(p) ==
    /\ At(p, "mark_unavailable")
    /\ SetWorkspaceState(ws[p], "unavailable", note[p])
    /\ Leave(p, "next_workspace")
    /\ lastChain' = [lastChain EXCEPT ![ws[p]] =
                        IF @ = "failed" THEN "refused" ELSE @]
    /\ UNCHANGED <<role, databases, provisionedFor>>

-----------------------------------------------------------------------------
(* A core replica serves; the operator adds a member; a process dies *)

\* open_unit_of_work: the registry row is read on every call.
OpenUnitOfWork(p, w) ==
    /\ At(p, "serving")
    /\ state[w] = "active"
    /\ pc' = [pc EXCEPT ![p] = "unit_of_work"]
    /\ ws' = [ws EXCEPT ![p] = w]
    /\ UNCHANGED <<registry, role, databases, job, head, seen, note, todo, history>>

\* core.settings.set replaces the row of an explicit_per_workspace key.
CommitSetting(p) ==
    /\ At(p, "unit_of_work")
    /\ settings' = [settings EXCEPT ![ws[p]] = "chosen"]
    /\ Leave(p, "serving")
    /\ UNCHANGED <<registry, role, exists, revision, composition, history>>

RollbackUnitOfWork(p) ==
    /\ At(p, "unit_of_work")
    /\ Leave(p, "serving")
    /\ UNCHANGED <<registry, role, databases, history>>

\* rheo member add: insert_membership_if_absent.
AddMember(w, a, r) ==
    /\ Exists(w)
    /\ a \in KnownAccounts
    /\ role[w][a] = "none"
    /\ role' = [role EXCEPT ![w][a] = r]
    /\ UNCHANGED <<registry, databases, processes, history>>

\* The process is killed, or any statement raises: open transactions roll
\* back and the advisory lock is released.
Crash(p) ==
    /\ ~At(p, "idle")
    /\ End(p)
    /\ UNCHANGED <<registry, role, databases, history>>

-----------------------------------------------------------------------------

\* rheo workspace create, rheo workspace repair, rheo migrate.
RunCommand(p) ==
    \E w \in Workspaces, h \in Heads :
       \/ \E a \in Accounts : \/ \E s \in Slugs : InsertRegistryRow(p, w, a, s, h)
                              \/ RetryRegistryRow(p, w, a, h)
       \/ Repair(p, w, h)
       \/ ListActive(p, h, "migrate")

\* The steps a running process takes by itself, failures left out.
Progress(p) ==
    \/ CreateDatabase(p) \/ RecheckDatabase(p) \/ RecordStep(p)
    \/ BeginChain(p) \/ UpgradeToHead(p) \/ RefuseSchemaAhead(p)
    \/ WriteDefaultSettings(p) \/ Activate(p)
    \/ NextWorkspace(p) \/ EndMigration(p) \/ MarkUnavailable(p)
    \/ CommitSetting(p) \/ RollbackUnitOfWork(p)

Fault(p) == ChainError(p) \/ Crash(p)

Next ==
    \/ \E p \in Operators : RunCommand(p)
    \/ \E p \in Replicas, h \in Heads : ListActive(p, h, "startup")
    \/ \E p \in Replicas, w \in Workspaces : OpenUnitOfWork(p, w)
    \/ \E p \in Processes : Progress(p) \/ Fault(p)
    \/ \E w \in Workspaces, a \in Accounts, r \in {"owner", "member"} :
          AddMember(w, a, r)

Spec == Init /\ [][Next]_vars

-----------------------------------------------------------------------------
(* Properties *)

RegistryTypeOK ==
    /\ state \in [Workspaces -> States]
    /\ detail \in [Workspaces -> Details]
    /\ slug \in [Workspaces -> Slugs \cup {NoSlug}]
    /\ role \in [Workspaces -> [Accounts -> {"none", "owner", "member"}]]

DatabaseTypeOK ==
    /\ exists \in [Workspaces -> BOOLEAN]
    /\ revision \in [Workspaces -> Revisions]
    /\ composition \in [Workspaces -> Revisions]
    /\ settings \in [Workspaces -> {"absent", "default", "chosen"}]

ProcessTypeOK ==
    /\ pc \in [Processes -> PCs]
    /\ job \in [Processes -> Jobs]
    /\ ws \in [Processes -> Workspaces \cup {NoWorkspace}]
    /\ head \in [Processes -> Revisions]
    /\ seen \in [Processes -> Revisions]
    /\ note \in [Processes -> Details]
    /\ todo \in [Processes -> SUBSET Workspaces]

HistoryTypeOK ==
    /\ provisionedFor \in [Workspaces -> SUBSET Accounts]
    /\ lastChain \in [Workspaces -> {"ok", "failed", "refused"}]

\* The registry, the databases and the processes hold values of their types.
TypeOK == RegistryTypeOK /\ DatabaseTypeOK /\ ProcessTypeOK /\ HistoryTypeOK

\* The effects of every provisioning step up to and including step are there.
DoneThrough(w, step) ==
    /\ step # "insert_registry_row" => exists[w]
    /\ step \notin {"insert_registry_row", "create_database"}
          => revision[w] > 0 /\ composition[w] > 0
    /\ step \in {"write_default_settings", "activate"}
          => settings[w] # "absent"

\* A workspace that is served (routing.active_workspace) has its database, a
\* migrated core schema, its composition row and its explicit settings rows,
\* whichever processes provisioned, repaired and migrated it, in any order.
ActiveIsReady ==
    \A w \in Workspaces : state[w] = "active" => DoneThrough(w, "activate")

\* The steps repair does not run again for the row it reads have taken effect:
\* state_detail never runs ahead of the database, and an unavailable workspace
\* has the database that a walk from migrate_core needs.
RepairSkipsOnlyDoneSteps ==
    \A w \in Workspaces :
       /\ state[w] = "provisioning" => DoneThrough(w, detail[w])
       /\ state[w] = "unavailable" => DoneThrough(w, "create_database")

\* Provisioning makes exactly one account owner of a workspace, in the
\* transaction that creates the row; no retry, by whichever account, adds one.
OneProvisionedOwner ==
    \A w \in Workspaces :
       /\ Exists(w) => \E a \in provisionedFor[w] : role[w][a] = "owner"
       /\ \A a, b \in provisionedFor[w] : a = b

\* No walk takes an active workspace out of service (issue #23 of
\* _record_step): active is left only for unavailable.
ActiveLeftOnlyForUnavailable ==
    [][\A w \in Workspaces : state[w] = "active"
          => state'[w] \in {"active", "unavailable"}]_vars

\* Chains of different code versions never interleave on one database: the
\* recorded revision does not go back.
SchemaNeverGoesBack ==
    [][\A w \in Workspaces : revision'[w] >= revision[w]]_vars

\* Step 4 never overwrites a value a workspace has since set, however late
\* the walk that runs it (insert_workspace_setting_if_absent).
ChosenSettingKept ==
    [][\A w \in Workspaces : settings[w] = "chosen"
          => settings'[w] = "chosen"]_vars

\* The orchestrator's documented refusal: a workspace whose chain failed is
\* served again only after a chain run succeeded on it.
FailedChainRefusedUntilRerun ==
    \A w \in Workspaces : state[w] = "active" => lastChain[w] # "refused"

\* The documented ahead-of-code rule: no core process works on a workspace
\* whose recorded revision is newer than the code it runs.
NeverServedAheadOfCode ==
    \A p \in Processes :
       At(p, "unit_of_work") => revision[ws[p]] <= head[p]

-----------------------------------------------------------------------------
(* The inductive invariant behind these properties *)

\* What a process may rely on where it stands, although others rewrite the
\* registry row at any time: the steps before its own have taken effect, and a
\* process holding the advisory lock has read the revision that is there.
StandsOnDone(p) ==
    LET w == ws[p]
        pending == pc[p]
    IN  /\ pending \in {"create_database", "recheck_database", "migrate_core", "upgrade",
                        "write_default_settings", "activate", "record",
                        "mark_unavailable", "unit_of_work"}
              => w \in Workspaces /\ Exists(w)
        /\ pending = "recheck_database" => DoneThrough(w, "create_database")
        /\ pending \in {"migrate_core", "upgrade"}
              => /\ DoneThrough(w, "create_database")
                 /\ job[p] # "walk" => DoneThrough(w, "activate")
        /\ pending = "upgrade" => seen[p] = revision[w]
        /\ pending = "write_default_settings" => DoneThrough(w, "migrate_core")
        /\ pending \in {"activate", "mark_unavailable", "unit_of_work"}
              => DoneThrough(w, "activate")
        /\ pending = "record" => /\ note[p] \in Recorded \ {"insert_registry_row"}
                                 /\ DoneThrough(w, note[p])
        /\ pending # "idle" => head[p] \in Heads
        /\ pending \in {"create_database", "recheck_database", "write_default_settings",
                        "activate", "record"} => job[p] = "walk"
        /\ pending \in {"next_workspace", "mark_unavailable"} => job[p] # "walk"
        /\ \A v \in todo[p] : Exists(v) /\ DoneThrough(v, "activate")

\* Every process stands on the effects it relies on (provisioning._walk,
\* orchestrator.migrate_workspace), whatever the others have done meanwhile.
EveryProcessStandsOnDone == \A p \in Processes : StandsOnDone(p)

\* At most one transaction runs the core chain of a database at a time.
OneChainPerDatabase ==
    \A p, q \in Processes :
       At(p, "upgrade") /\ At(q, "upgrade") /\ ws[p] = ws[q] => p = q

\* What the state of a registry row says about its database and its owner.
RowTellsTruth(w) ==
    /\ state[w] = "provisioning"
          => detail[w] \in Recorded /\ DoneThrough(w, detail[w])
    /\ state[w] \in {"active", "unavailable"} => DoneThrough(w, "activate")
    /\ state[w] = "absent" <=> provisionedFor[w] = {}
    /\ \A a \in provisionedFor[w] : role[w][a] = "owner"
    /\ \A a, b \in provisionedFor[w] : a = b

IInv ==
    /\ TypeOK
    /\ \A w \in Workspaces : RowTellsTruth(w)
    /\ EveryProcessStandsOnDone
    /\ OneChainPerDatabase

-----------------------------------------------------------------------------
(* Refinement *)

Lifecycle == INSTANCE WorkspaceLifecycle WITH
    status <- [w \in Workspaces |-> state[w]],
    complete <- [w \in Workspaces |-> DoneThrough(w, "activate")],
    owner <- provisionedFor

\* The processes, steps, locks and crashes implement the workspace lifecycle
\* the boundary relies on.
ImplementsLifecycle == Lifecycle!LifecycleSpec

-----------------------------------------------------------------------------
(* Liveness *)

\* Every running process gets to take its next step, and Postgres grants the
\* advisory lock in the order it is asked for.
ProcessFairness == \A p \in Processes : WF_vars(Progress(p)) /\ SF_vars(BeginChain(p))

RunningSpec == Spec /\ ProcessFairness

\* The operator repeats rheo workspace repair, with current code, as long as a
\* workspace is not active.
Current(h) == \A k \in Heads : k <= h

RepairFairness ==
    \A w \in Workspaces :
       SF_vars(\E p \in Operators, h \in Heads : Current(h) /\ Repair(p, w, h))

RepairedSpec == RunningSpec /\ RepairFairness

\* A step that is not a crash or the failure of a chain, and starts no process
\* of an old version.
CalmStep ==
    \/ \E p \in Operators : RunCommand(p) /\ Current(head'[p])
    \/ \E p \in Replicas, h \in Heads : Current(h) /\ ListActive(p, h, "startup")
    \/ \E p \in Replicas, w \in Workspaces : OpenUnitOfWork(p, w)
    \/ \E p \in Processes : Progress(p)
    \/ \E w \in Workspaces, a \in Accounts, r \in {"owner", "member"} :
          AddMember(w, a, r)

\* A workspace with a registry row, wherever crashes, failed chains and rival
\* walks left it, becomes active for good once only calm steps remain and the
\* operator repairs: no state of the registry is a dead end.
RepairedForGood ==
    <>[][CalmStep]_vars
       => \A w \in Workspaces : [](Exists(w) => <>[](state[w] = "active"))

\* A replica that starts gets to serve, or dies: failing chains, other
\* migrators at the lock and workspaces that change state under the list it
\* has read do not hold it up.
StartupCompletes ==
    \A r \in Replicas : job[r] = "startup" ~> (At(r, "idle") \/ At(r, "serving"))

=============================================================================

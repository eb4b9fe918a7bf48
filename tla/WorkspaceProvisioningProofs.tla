-------------------- MODULE WorkspaceProvisioningProofs --------------------
(***************************************************************************)
(* The safety of WorkspaceProvisioning for any set of workspaces, accounts,*)
(* processes and code versions.                                            *)
(***************************************************************************)
EXTENDS WorkspaceProvisioning, TLAPS

\* The walk goes on with one of the steps 2 to 5.
LEMMA StepAfterType ==
    \A step \in Recorded :
       StepAfter(step) \in {"create_database", "migrate_core",
                            "write_default_settings", "activate"}
BY DEF Recorded, StepAfter

\* The moves of a process keep its fields well typed.
LEMMA MoveTypes ==
    ASSUME ProcessTypeOK, NEW p \in Processes
    PROVE  /\ \A where \in PCs, j \in Jobs, w \in Workspaces \cup {NoWorkspace},
                 h \in Revisions, list \in SUBSET Workspaces :
                 Become(p, where, j, w, h, list) => ProcessTypeOK'
           /\ \A w \in Workspaces, h \in Heads, step \in PCs :
                 StartWalk(p, w, h, step) => ProcessTypeOK'
           /\ End(p) => ProcessTypeOK'
           /\ \A where \in PCs : Goto(p, where) \/ Leave(p, where) => ProcessTypeOK'
           /\ \A where \in PCs, d \in Details : GotoWrite(p, where, d) => ProcessTypeOK'
<1> USE DEF ProcessTypeOK
<1>z. 0 \in Revisions /\ "none" \in Details
  BY DEF Revisions, Details
<1>1. ASSUME NEW where \in PCs, NEW j \in Jobs, NEW w \in Workspaces \cup {NoWorkspace},
             NEW h \in Revisions, NEW list \in SUBSET Workspaces,
             Become(p, where, j, w, h, list)
      PROVE  ProcessTypeOK'
  BY <1>1, <1>z DEF Become
<1>2. End(p) => ProcessTypeOK'
  <2>1. /\ "idle" \in PCs /\ "none" \in Jobs
        /\ NoWorkspace \in Workspaces \cup {NoWorkspace}
        /\ {} \in SUBSET Workspaces
    BY DEF PCs, Jobs
  <2>2. Become(p, "idle", "none", NoWorkspace, 0, {}) => ProcessTypeOK'
    BY <1>z, <2>1 DEF Become
  <2> QED BY <2>2 DEF End
<1>6. ASSUME NEW w \in Workspaces, NEW h \in Heads, NEW step \in PCs,
             StartWalk(p, w, h, step)
      PROVE  ProcessTypeOK'
  <2>1. /\ "walk" \in Jobs /\ h \in Revisions /\ {} \in SUBSET Workspaces
        /\ w \in Workspaces \cup {NoWorkspace}
    BY DEF Jobs, Revisions
  <2> QED BY <1>1, <1>6, <2>1 DEF StartWalk
<1>3. ASSUME NEW where \in PCs, Goto(p, where) PROVE ProcessTypeOK'
  BY <1>3 DEF Goto
<1>4. ASSUME NEW where \in PCs, Leave(p, where) PROVE ProcessTypeOK'
  BY <1>4, <1>z DEF Leave
<1>5. ASSUME NEW where \in PCs, NEW d \in Details, GotoWrite(p, where, d)
      PROVE  ProcessTypeOK'
  BY <1>5, <1>z DEF GotoWrite
<1> QED BY <1>1, <1>2, <1>3, <1>4, <1>5, <1>6

\* The names the moves use.
LEMMA Names ==
    /\ {"idle", "create_database", "recheck_database", "migrate_core",
        "upgrade", "write_default_settings", "activate", "record",
        "next_workspace", "mark_unavailable", "serving", "unit_of_work"} = PCs
    /\ {"none", "walk", "migrate", "startup"} = Jobs
    /\ Heads \subseteq Revisions
    /\ 0 \in Revisions
    /\ Recorded \subseteq Details
    /\ {"none", "activate", "schema_ahead", "error"} \subseteq Details
    /\ {"insert_registry_row", "create_database", "migrate_core",
        "write_default_settings"} = Recorded
    /\ {"absent", "provisioning", "active", "unavailable"} = States
BY DEF PCs, Jobs, Revisions, Details, Recorded, States

\* Every step keeps the registry, the databases and the processes well typed.
LEMMA TypeStep == TypeOK /\ EveryProcessStandsOnDone /\ [Next]_vars => TypeOK'
<1> SUFFICES ASSUME TypeOK, EveryProcessStandsOnDone, [Next]_vars PROVE TypeOK'
  OBVIOUS
<1> USE Names DEF TypeOK
<1>a. ASSUME NEW p \in Operators, NEW w \in Workspaces, NEW h \in Heads,
             NEW a \in Accounts, NEW s \in Slugs, InsertRegistryRow(p, w, a, s, h)
      PROVE  TypeOK'
  <2>1. ProcessTypeOK'
    BY <1>a, MoveTypes DEF InsertRegistryRow, Processes
  <2>2. "provisioning" \in States /\ "insert_registry_row" \in Details
    OBVIOUS
  <2>3. role' \in [Workspaces -> [Accounts -> {"none", "owner", "member"}]]
    BY <1>a DEF InsertRegistryRow, RegistryTypeOK
  <2>4. RegistryTypeOK'
    BY <1>a, <2>2, <2>3 DEF InsertRegistryRow, RegistryTypeOK
  <2>a. provisionedFor[w] \cup {a} \in SUBSET Accounts
    BY DEF HistoryTypeOK
  <2>b. provisionedFor' \in [Workspaces -> SUBSET Accounts]
    BY <1>a, <2>a DEF InsertRegistryRow, HistoryTypeOK
  <2>5. HistoryTypeOK'
    BY <1>a, <2>b DEF InsertRegistryRow, HistoryTypeOK
  <2> QED
    BY <1>a, <2>1, <2>4, <2>5 DEF InsertRegistryRow, databases, DatabaseTypeOK
<1>b. ASSUME NEW p \in Operators, NEW w \in Workspaces, NEW h \in Heads,
             NEW a \in Accounts, RetryRegistryRow(p, w, a, h)
      PROVE  TypeOK'
  <2>1. ProcessTypeOK'
    BY <1>b, MoveTypes DEF RetryRegistryRow, Processes
  <2> QED
    BY <1>b, <2>1 DEF RetryRegistryRow, registry, databases, history,
                      RegistryTypeOK, DatabaseTypeOK, HistoryTypeOK
<1>c. ASSUME NEW p \in Operators, NEW w \in Workspaces, NEW h \in Heads, Repair(p, w, h)
      PROVE  TypeOK'
  <2>1. RemainingAfter(detail[w]) \in PCs
    BY StepAfterType DEF RemainingAfter
  <2>2. ProcessTypeOK'
    BY <1>c, <2>1, MoveTypes DEF Repair, Processes
  <2> QED
    BY <1>c, <2>2 DEF Repair, registry, databases, history,
                      RegistryTypeOK, DatabaseTypeOK, HistoryTypeOK
<1>d. ASSUME NEW p \in Processes, NEW h \in Heads, NEW j \in {"migrate", "startup"},
             ListActive(p, h, j)
      PROVE  TypeOK'
  <2>1. {w \in Workspaces : state[w] = "active"} \in SUBSET Workspaces
    OBVIOUS
  <2>2. ProcessTypeOK'
    BY <1>d, <2>1, MoveTypes DEF ListActive
  <2> QED
    BY <1>d, <2>2 DEF ListActive, registry, databases, history,
                      RegistryTypeOK, DatabaseTypeOK, HistoryTypeOK
<1>e. ASSUME NEW p \in Replicas, NEW w \in Workspaces, OpenUnitOfWork(p, w)
      PROVE  TypeOK'
  BY <1>e DEF OpenUnitOfWork, Processes, registry, databases, history,
              RegistryTypeOK, DatabaseTypeOK, ProcessTypeOK, HistoryTypeOK
<1>f. ASSUME NEW p \in Processes, CreateDatabase(p) PROVE TypeOK'
  <2>1. ProcessTypeOK'
    BY <1>f, MoveTypes DEF CreateDatabase
  <2>2. DatabaseTypeOK'
    BY <1>f DEF CreateDatabase, DatabaseTypeOK
  <2> QED
    BY <1>f, <2>1, <2>2 DEF CreateDatabase, registry, history, RegistryTypeOK,
                            HistoryTypeOK
<1>g. ASSUME NEW p \in Processes, RecheckDatabase(p) PROVE TypeOK'
  <2>1. ProcessTypeOK'
    BY <1>g, MoveTypes DEF RecheckDatabase
  <2> QED
    BY <1>g, <2>1 DEF RecheckDatabase, registry, databases, history,
                      RegistryTypeOK, DatabaseTypeOK, HistoryTypeOK
<1>h. ASSUME NEW p \in Processes, RecordStep(p) PROVE TypeOK'
  <2>1. note[p] \in Recorded
    BY <1>h DEF EveryProcessStandsOnDone, StandsOnDone, RecordStep, At
  <2>2. ProcessTypeOK'
    BY <1>h, <2>1, StepAfterType, MoveTypes DEF RecordStep
  <2>3. RegistryTypeOK'
    BY <1>h, <2>1 DEF RecordStep, SetWorkspaceState, registry, RegistryTypeOK
  <2> QED
    BY <1>h, <2>2, <2>3 DEF RecordStep, databases, history, DatabaseTypeOK,
                            HistoryTypeOK
<1>i. ASSUME NEW p \in Processes, WriteDefaultSettings(p) PROVE TypeOK'
  <2>1. ProcessTypeOK'
    BY <1>i, MoveTypes DEF WriteDefaultSettings
  <2>2. DatabaseTypeOK'
    BY <1>i DEF WriteDefaultSettings, InsertSettingIfAbsent, DatabaseTypeOK
  <2> QED
    BY <1>i, <2>1, <2>2 DEF WriteDefaultSettings, registry, history,
                            RegistryTypeOK, HistoryTypeOK
<1>j. ASSUME NEW p \in Processes, Activate(p) PROVE TypeOK'
  <2>1. ProcessTypeOK'
    BY <1>j, MoveTypes DEF Activate
  <2>2. RegistryTypeOK'
    BY <1>j DEF Activate, SetWorkspaceState, registry, RegistryTypeOK
  <2> QED
    BY <1>j, <2>1, <2>2 DEF Activate, databases, history, DatabaseTypeOK,
                            HistoryTypeOK
<1>k. ASSUME NEW p \in Processes, BeginChain(p) PROVE TypeOK'
  <2>1. ws[p] \in Workspaces
    BY <1>k DEF EveryProcessStandsOnDone, StandsOnDone, BeginChain, At
  <2> QED
    BY <1>k, <2>1 DEF BeginChain, registry, databases, history,
              RegistryTypeOK, DatabaseTypeOK, ProcessTypeOK, HistoryTypeOK
<1>l. ASSUME NEW p \in Processes, UpgradeToHead(p) PROVE TypeOK'
  <2>1. ProcessTypeOK'
    BY <1>l, MoveTypes DEF UpgradeToHead
  <2>2. DatabaseTypeOK' /\ HistoryTypeOK'
    BY <1>l DEF UpgradeToHead, DatabaseTypeOK, ProcessTypeOK, HistoryTypeOK
  <2> QED
    BY <1>l, <2>1, <2>2 DEF UpgradeToHead, registry, RegistryTypeOK
<1>m. ASSUME NEW p \in Processes, NEW d \in {"schema_ahead", "error"}, FailChain(p, d)
      PROVE  TypeOK'
  <2>1. ProcessTypeOK'
    BY <1>m, MoveTypes DEF FailChain
  <2>2. HistoryTypeOK'
    BY <1>m DEF FailChain, HistoryTypeOK
  <2> QED
    BY <1>m, <2>1, <2>2 DEF FailChain, registry, databases, RegistryTypeOK,
                            DatabaseTypeOK
<1>n. ASSUME NEW p \in Processes, NextWorkspace(p) PROVE TypeOK'
  BY <1>n DEF NextWorkspace, registry, databases, history,
              RegistryTypeOK, DatabaseTypeOK, ProcessTypeOK, HistoryTypeOK
<1>o. ASSUME NEW p \in Processes, EndMigration(p) PROVE TypeOK'
  <2>1. ProcessTypeOK'
    BY <1>o, MoveTypes DEF EndMigration
  <2> QED
    BY <1>o, <2>1 DEF EndMigration, registry, databases, history,
                      RegistryTypeOK, DatabaseTypeOK, HistoryTypeOK
<1>q. ASSUME NEW p \in Processes, MarkUnavailable(p) PROVE TypeOK'
  <2>1. ProcessTypeOK'
    BY <1>q, MoveTypes DEF MarkUnavailable
  <2>2. RegistryTypeOK' /\ HistoryTypeOK'
    BY <1>q DEF MarkUnavailable, SetWorkspaceState, RegistryTypeOK, ProcessTypeOK,
                HistoryTypeOK
  <2> QED
    BY <1>q, <2>1, <2>2 DEF MarkUnavailable, databases, DatabaseTypeOK
<1>r. ASSUME NEW p \in Processes, CommitSetting(p) \/ RollbackUnitOfWork(p)
      PROVE  TypeOK'
  <2>1. ProcessTypeOK'
    BY <1>r, MoveTypes DEF CommitSetting, RollbackUnitOfWork
  <2>2. DatabaseTypeOK'
    BY <1>r DEF CommitSetting, RollbackUnitOfWork, databases, DatabaseTypeOK
  <2> QED
    BY <1>r, <2>1, <2>2 DEF CommitSetting, RollbackUnitOfWork, registry, history,
                            RegistryTypeOK, HistoryTypeOK
<1>s. ASSUME NEW w \in Workspaces, NEW a \in Accounts, NEW r \in {"owner", "member"},
             AddMember(w, a, r)
      PROVE  TypeOK'
  BY <1>s DEF AddMember, registry, databases, processes, history,
              RegistryTypeOK, DatabaseTypeOK, ProcessTypeOK, HistoryTypeOK
<1>t. ASSUME NEW p \in Processes, Crash(p) PROVE TypeOK'
  <2>1. ProcessTypeOK'
    BY <1>t, MoveTypes DEF Crash
  <2> QED
    BY <1>t, <2>1 DEF Crash, registry, databases, history,
                      RegistryTypeOK, DatabaseTypeOK, HistoryTypeOK
<1>u. CASE UNCHANGED vars
  BY <1>u DEF vars, registry, databases, processes, history,
              RegistryTypeOK, DatabaseTypeOK, ProcessTypeOK, HistoryTypeOK
<1> QED
  BY <1>a, <1>b, <1>c, <1>d, <1>e, <1>f, <1>g, <1>h, <1>i, <1>j, <1>k, <1>l, <1>m,
     <1>n, <1>o, <1>q, <1>r, <1>s, <1>t, <1>u
     DEF Next, RunCommand, Progress, Fault, RefuseSchemaAhead, ChainError, Processes

-----------------------------------------------------------------------------
(* How one process's step looks to the others *)

\* Nothing of process q changes.
Untouched(q) ==
    /\ pc'[q] = pc[q] /\ job'[q] = job[q] /\ ws'[q] = ws[q] /\ head'[q] = head[q]
    /\ seen'[q] = seen[q] /\ note'[q] = note[q] /\ todo'[q] = todo[q]

\* Rows are not deleted and no effect of a step is undone.
NothingUndone ==
    \A w \in Workspaces :
       /\ Exists(w) => Exists(w)'
       /\ exists[w] => exists'[w]
       /\ revision[w] > 0 => revision'[w] > 0
       /\ composition[w] > 0 => composition'[w] > 0
       /\ settings[w] # "absent" => settings'[w] # "absent"

\* A process writes revisions, and enters a chain, only under the lock.
LocksKept(p) ==
    /\ \A w \in Workspaces : revision'[w] = revision[w] \/ (At(p, "upgrade") /\ ws[p] = w)
    /\ pc'[p] = "upgrade" => AdvisoryLockFree(ws'[p])

\* Every step of p leaves the other processes alone.
LEMMA MovesLeaveOthers ==
    ASSUME ProcessTypeOK, NEW p \in Processes, NEW q \in Processes, q # p
    PROVE  /\ \A where, j, w, h, list : Become(p, where, j, w, h, list) => Untouched(q)
           /\ \A w, h, step : StartWalk(p, w, h, step) => Untouched(q)
           /\ End(p) => Untouched(q)
           /\ \A where : Goto(p, where) \/ Leave(p, where) => Untouched(q)
           /\ \A where, d : GotoWrite(p, where, d) => Untouched(q)
<1> USE DEF ProcessTypeOK, Untouched
<1>1. ASSUME NEW where, NEW j, NEW w, NEW h, NEW list, Become(p, where, j, w, h, list)
      PROVE  Untouched(q)
  BY <1>1 DEF Become
<1>2. ASSUME NEW where, Goto(p, where) \/ Leave(p, where) PROVE Untouched(q)
  BY <1>2 DEF Goto, Leave
<1>3. ASSUME NEW where, NEW d, GotoWrite(p, where, d) PROVE Untouched(q)
  BY <1>3 DEF GotoWrite
<1> QED BY <1>1, <1>2, <1>3 DEF StartWalk, End

\* Effects that are there stay there.
LEMMA DoneStays ==
    ASSUME NothingUndone, NEW w \in Workspaces, NEW step
    PROVE  DoneThrough(w, step) => DoneThrough(w, step)'
BY DEF NothingUndone, DoneThrough

\* A process that is not touched still stands on what it relied on.
LEMMA UntouchedStands ==
    ASSUME TypeOK, NEW q \in Processes, StandsOnDone(q), Untouched(q), NothingUndone,
           At(q, "upgrade") => revision'[ws[q]] = revision[ws[q]]
    PROVE  StandsOnDone(q)'
<1>1. todo[q] \subseteq Workspaces
  BY DEF TypeOK, ProcessTypeOK
<1>2. \A v \in todo'[q] : Exists(v)' /\ DoneThrough(v, "activate")'
  BY <1>1, DoneStays DEF StandsOnDone, Untouched, NothingUndone
<1>3. ASSUME ws[q] \in Workspaces
      PROVE  /\ Exists(ws[q]) => Exists(ws[q])'
             /\ \A step : DoneThrough(ws[q], step) => DoneThrough(ws[q], step)'
  BY <1>3, DoneStays DEF Untouched, NothingUndone
<1>4. CASE ws[q] \in Workspaces
  BY <1>2, <1>3, <1>4 DEF StandsOnDone, Untouched, At
<1>5. CASE ws[q] \notin Workspaces
  BY <1>2, <1>5 DEF StandsOnDone, Untouched, At
<1> QED BY <1>4, <1>5

\* Rows that are not written still tell the truth.
LEMMA UnwrittenRowsTellTruth ==
    ASSUME NothingUndone, \A w \in Workspaces : RowTellsTruth(w),
           UNCHANGED <<state, detail, role, provisionedFor>>
    PROVE  \A w \in Workspaces : RowTellsTruth(w)'
BY DoneStays DEF RowTellsTruth

\* What the step of a process p owes to the invariant.
Sound(p) ==
    /\ \A q \in Processes : q # p => Untouched(q)
    /\ NothingUndone
    /\ LocksKept(p)
    /\ StandsOnDone(p)'
    /\ \A w \in Workspaces : RowTellsTruth(w)'

\* A sound step keeps the invariant for all processes.
LEMMA SoundStep ==
    ASSUME IInv, TypeOK', NEW p \in Processes, Sound(p)
    PROVE  IInv'
<1>1. ASSUME NEW q \in Processes, q # p PROVE StandsOnDone(q)'
  <2>1. At(q, "upgrade") => revision'[ws[q]] = revision[ws[q]]
    BY <1>1 DEF IInv, Sound, LocksKept, OneChainPerDatabase,
                EveryProcessStandsOnDone, StandsOnDone, At
  <2> QED
    BY <1>1, <2>1, UntouchedStands DEF IInv, Sound, EveryProcessStandsOnDone
<1>2. EveryProcessStandsOnDone'
  BY <1>1 DEF EveryProcessStandsOnDone, Sound
<1>3. OneChainPerDatabase'
  <2> SUFFICES ASSUME NEW q \in Processes, NEW r \in Processes, q # r,
                      pc'[q] = "upgrade", pc'[r] = "upgrade", ws'[q] = ws'[r]
               PROVE  FALSE
    BY DEF OneChainPerDatabase, At
  <2>1. CASE q # p /\ r # p
    BY <2>1 DEF IInv, Sound, Untouched, OneChainPerDatabase, At
  <2>2. CASE q = p
    BY <2>2 DEF Sound, Untouched, LocksKept, AdvisoryLockFree, At
  <2>3. CASE r = p
    BY <2>3 DEF Sound, Untouched, LocksKept, AdvisoryLockFree, At
  <2> QED BY <2>1, <2>2, <2>3
<1> QED BY <1>2, <1>3 DEF IInv, Sound

-----------------------------------------------------------------------------
(* Each action is sound *)

\* Starting a walk, by provision or by repair, is sound.
LEMMA CommandsSound ==
    ASSUME IInv, NEW p \in Processes, NEW w \in Workspaces, NEW h \in Heads
    PROVE  /\ \A a \in Accounts, s \in Slugs : InsertRegistryRow(p, w, a, s, h) => Sound(p)
           /\ \A a \in Accounts : RetryRegistryRow(p, w, a, h) => Sound(p)
           /\ Repair(p, w, h) => Sound(p)
<1>t. ProcessTypeOK /\ RegistryTypeOK /\ DatabaseTypeOK /\ HistoryTypeOK
  BY DEF IInv, TypeOK
<1>r. RowTellsTruth(w)
  BY DEF IInv
<1>1. ASSUME NEW a \in Accounts, NEW s \in Slugs, InsertRegistryRow(p, w, a, s, h)
      PROVE  Sound(p)
  <2>1. \A q \in Processes : q # p => Untouched(q)
    BY <1>1, <1>t, MovesLeaveOthers DEF InsertRegistryRow
  <2>2. NothingUndone /\ state'[w] = "provisioning" /\ detail'[w] = "insert_registry_row"
    BY <1>1, <1>t DEF InsertRegistryRow, NothingUndone, databases, Exists, RegistryTypeOK
  <2>3. LocksKept(p)
    BY <1>1, <1>t DEF InsertRegistryRow, LocksKept, databases, StartWalk, Become, ProcessTypeOK
  <2>4. StandsOnDone(p)'
    BY <1>1, <1>t, <2>2 DEF InsertRegistryRow, StandsOnDone, StartWalk, Become,
                            ProcessTypeOK, Exists
  <2>5. provisionedFor[w] = {} /\ provisionedFor'[w] = {a} /\ role'[w][a] = "owner"
    BY <1>1, <1>t, <1>r DEF InsertRegistryRow, RowTellsTruth, HistoryTypeOK, RegistryTypeOK
  <2>6. RowTellsTruth(w)'
    BY <2>2, <2>5 DEF RowTellsTruth, DoneThrough, Recorded
  <2>7. ASSUME NEW v \in Workspaces, v # w PROVE RowTellsTruth(v)'
    <3>1. /\ state'[v] = state[v] /\ detail'[v] = detail[v] /\ role'[v] = role[v]
          /\ provisionedFor'[v] = provisionedFor[v]
      BY <1>1, <1>t, <2>7 DEF InsertRegistryRow, RegistryTypeOK, HistoryTypeOK
    <3> QED
      BY <2>2, <3>1, DoneStays DEF IInv, RowTellsTruth
  <2> QED BY <2>1, <2>2, <2>3, <2>4, <2>6, <2>7 DEF Sound
<1>2. ASSUME NEW a \in Accounts, RetryRegistryRow(p, w, a, h) PROVE Sound(p)
  <2>1. \A q \in Processes : q # p => Untouched(q)
    BY <1>2, <1>t, MovesLeaveOthers DEF RetryRegistryRow
  <2>2. NothingUndone
    BY <1>2 DEF RetryRegistryRow, NothingUndone, databases, registry, Exists
  <2>3. LocksKept(p)
    BY <1>2, <1>t DEF RetryRegistryRow, LocksKept, databases, StartWalk, Become, ProcessTypeOK
  <2>4. StandsOnDone(p)'
    BY <1>2, <1>t DEF RetryRegistryRow, registry, StandsOnDone, StartWalk, Become,
                      ProcessTypeOK, Exists
  <2>5. \A v \in Workspaces : RowTellsTruth(v)'
    BY <1>2, <2>2, UnwrittenRowsTellTruth DEF IInv, RetryRegistryRow, registry, history
  <2> QED BY <2>1, <2>2, <2>3, <2>4, <2>5 DEF Sound
<1>3. ASSUME Repair(p, w, h) PROVE Sound(p)
  <2>0. PICK step \in PCs :
              /\ StartWalk(p, w, h, step)
              /\ state[w] \in {"provisioning", "unavailable"}
              /\ \/ step = "create_database"
                 \/ step = "migrate_core" /\ DoneThrough(w, "create_database")
                 \/ step = "write_default_settings" /\ DoneThrough(w, "migrate_core")
                 \/ step = "activate" /\ DoneThrough(w, "write_default_settings")
    <3>1. CASE state[w] = "unavailable"
      BY <1>3, <1>r, <3>1 DEF Repair, RowTellsTruth, DoneThrough, PCs
    <3>2. CASE state[w] = "provisioning"
      <4>1. StartWalk(p, w, h, RemainingAfter(detail[w]))
        BY <1>3, <3>2 DEF Repair
      <4>2. detail[w] \in Recorded /\ DoneThrough(w, detail[w])
        BY <1>r, <3>2 DEF RowTellsTruth
      <4>3. RemainingAfter(detail[w]) = StepAfter(detail[w])
        BY <4>2 DEF RemainingAfter
      <4>4. RemainingAfter(detail[w]) \in PCs
        BY <4>2, <4>3, StepAfterType, Names
      <4>5. \/ RemainingAfter(detail[w]) = "create_database"
            \/ RemainingAfter(detail[w]) = "migrate_core" /\ DoneThrough(w, "create_database")
            \/ RemainingAfter(detail[w]) = "write_default_settings"
               /\ DoneThrough(w, "migrate_core")
            \/ RemainingAfter(detail[w]) = "activate"
               /\ DoneThrough(w, "write_default_settings")
        BY <4>2, <4>3 DEF StepAfter, Recorded
      <4> WITNESS RemainingAfter(detail[w]) \in PCs
      <4> QED BY <3>2, <4>1, <4>5
    <3> QED BY <1>3, <3>1, <3>2 DEF Repair
  <2>1. \A q \in Processes : q # p => Untouched(q)
    BY <2>0, <1>t, MovesLeaveOthers
  <2>2. NothingUndone
    BY <1>3 DEF Repair, NothingUndone, databases, registry, Exists
  <2>3. LocksKept(p)
    BY <1>3, <1>t, <2>0 DEF Repair, LocksKept, databases, StartWalk, Become, ProcessTypeOK
  <2>4. /\ pc'[p] = step /\ ws'[p] = w /\ head'[p] = h /\ job'[p] = "walk" /\ todo'[p] = {}
        /\ Exists(w)' /\ \A d : DoneThrough(w, d) => DoneThrough(w, d)'
    BY <1>3, <1>t, <2>0, <2>2, DoneStays DEF Repair, registry, StartWalk, Become,
                                        ProcessTypeOK, Exists
  <2>5. StandsOnDone(p)'
    BY <2>0, <2>4 DEF StandsOnDone, DoneThrough
  <2>6. \A v \in Workspaces : RowTellsTruth(v)'
    BY <1>3, <2>2, UnwrittenRowsTellTruth DEF IInv, Repair, registry, history
  <2> QED BY <2>1, <2>2, <2>3, <2>5, <2>6 DEF Sound
<1> QED BY <1>1, <1>2, <1>3

\* A step that writes no row and no database is sound if its process stands.
LEMMA QuietStep ==
    ASSUME IInv, NEW p \in Processes, \A q \in Processes : q # p => Untouched(q),
           UNCHANGED <<state, detail, role, provisionedFor, exists, revision,
                       composition, settings>>,
           StandsOnDone(p)', pc'[p] = "upgrade" => AdvisoryLockFree(ws'[p])
    PROVE  Sound(p)
<1>1. NothingUndone
  BY DEF NothingUndone, Exists
<1>2. \A w \in Workspaces : RowTellsTruth(w)'
  BY <1>1, UnwrittenRowsTellTruth DEF IInv
<1> QED BY <1>1, <1>2 DEF Sound, LocksKept

\* The end of a command, and the end of the work on one workspace, rely on
\* nothing but the listed workspaces that are left.
LEMMA RestStands ==
    ASSUME IInv, NEW p \in Processes, NothingUndone
    PROVE  /\ End(p) => StandsOnDone(p)' /\ pc'[p] # "upgrade"
           /\ head[p] \in Heads /\ Leave(p, "serving")
                 => StandsOnDone(p)' /\ pc'[p] # "upgrade"
           /\ job[p] # "walk" /\ head[p] \in Heads /\ Leave(p, "next_workspace")
                 => StandsOnDone(p)' /\ pc'[p] # "upgrade"
<1>t. ProcessTypeOK /\ StandsOnDone(p)
  BY DEF IInv, TypeOK, EveryProcessStandsOnDone
<1>1. End(p) => StandsOnDone(p)' /\ pc'[p] # "upgrade"
  BY <1>t DEF End, Become, StandsOnDone, ProcessTypeOK
<1>2. \A v \in todo[p] : Exists(v)' /\ DoneThrough(v, "activate")'
  <2>1. todo[p] \subseteq Workspaces
    BY <1>t DEF ProcessTypeOK
  <2> QED BY <1>t, <2>1, DoneStays DEF StandsOnDone, NothingUndone
<1>3. head[p] \in Heads /\ Leave(p, "serving") => StandsOnDone(p)' /\ pc'[p] # "upgrade"
  BY <1>t, <1>2 DEF Leave, StandsOnDone, ProcessTypeOK
<1>4. job[p] # "walk" /\ head[p] \in Heads /\ Leave(p, "next_workspace")
                 => StandsOnDone(p)' /\ pc'[p] # "upgrade"
  BY <1>t, <1>2 DEF Leave, StandsOnDone, ProcessTypeOK
<1> QED BY <1>1, <1>3, <1>4

\* Steps 2 and 4 of the walk add their effect before they record it.
LEMMA EffectsSound ==
    ASSUME IInv, NEW p \in Processes
    PROVE  /\ CreateDatabase(p) => Sound(p)
           /\ RecheckDatabase(p) => Sound(p)
           /\ WriteDefaultSettings(p) => Sound(p)
<1>t. /\ ProcessTypeOK /\ DatabaseTypeOK /\ StandsOnDone(p)
      /\ \A w \in Workspaces : RowTellsTruth(w)
  BY DEF IInv, TypeOK, EveryProcessStandsOnDone
<1>d. todo[p] \subseteq Workspaces
  BY <1>t DEF ProcessTypeOK
<1>1. ASSUME CreateDatabase(p) PROVE Sound(p)
  <2>1. \A q \in Processes : q # p => Untouched(q)
    BY <1>1, <1>t, MovesLeaveOthers DEF CreateDatabase
  <2>2. ws[p] \in Workspaces /\ Exists(ws[p]) /\ job[p] = "walk" /\ head[p] \in Heads
    BY <1>1, <1>t DEF CreateDatabase, StandsOnDone, At
  <2>3. NothingUndone
    BY <1>1, <1>t, <2>2 DEF CreateDatabase, NothingUndone, registry, Exists, DatabaseTypeOK
  <2>4. LocksKept(p)
    BY <1>1, <1>t DEF CreateDatabase, LocksKept, Goto, GotoWrite, ProcessTypeOK
  <2>5. \A v \in todo[p] : Exists(v)' /\ DoneThrough(v, "activate")'
    BY <1>t, <1>d, <2>3, DoneStays DEF StandsOnDone, NothingUndone
  <2>6. DoneThrough(ws[p], "create_database")' /\ Exists(ws[p])'
    BY <1>1, <1>t, <2>2 DEF CreateDatabase, Goto, GotoWrite, DoneThrough, registry, Exists,
                            DatabaseTypeOK
  <2>7. StandsOnDone(p)'
    BY <1>1, <1>t, <2>2, <2>5, <2>6 DEF CreateDatabase, Goto, GotoWrite, StandsOnDone,
                                        ProcessTypeOK, Recorded
  <2>8. \A v \in Workspaces : RowTellsTruth(v)'
    BY <1>1, <1>t, <2>3, UnwrittenRowsTellTruth DEF CreateDatabase, registry, history
  <2> QED BY <2>1, <2>3, <2>4, <2>7, <2>8 DEF Sound
<1>2. ASSUME RecheckDatabase(p) PROVE Sound(p)
  <2>1. \A q \in Processes : q # p => Untouched(q)
    BY <1>2, <1>t, MovesLeaveOthers DEF RecheckDatabase
  <2>2. /\ UNCHANGED <<state, detail, role, provisionedFor, exists, revision,
                       composition, settings>>
        /\ NothingUndone
    BY <1>2 DEF RecheckDatabase, registry, databases, history, NothingUndone, Exists
  <2>3. CASE End(p)
    BY <2>1, <2>2, <2>3, RestStands, QuietStep
  <2>4. CASE GotoWrite(p, "record", "create_database")
    <3>1. /\ ws[p] \in Workspaces /\ Exists(ws[p]) /\ DoneThrough(ws[p], "create_database")
          /\ job[p] = "walk" /\ head[p] \in Heads
      BY <1>2, <1>t DEF RecheckDatabase, StandsOnDone, At
    <3>2. \A v \in todo[p] : Exists(v)' /\ DoneThrough(v, "activate")'
      BY <1>t, <1>d, <2>2, DoneStays DEF StandsOnDone, NothingUndone
    <3>3. DoneThrough(ws[p], "create_database")' /\ Exists(ws[p])'
      BY <2>2, <2>4, <3>1 DEF GotoWrite, DoneThrough, Exists
    <3>4. StandsOnDone(p)' /\ pc'[p] # "upgrade"
      BY <1>t, <2>4, <3>1, <3>2, <3>3 DEF GotoWrite, StandsOnDone, ProcessTypeOK, Recorded
    <3> QED BY <2>1, <2>2, <3>4, QuietStep
  <2> QED BY <1>2, <2>3, <2>4 DEF RecheckDatabase
<1>3. ASSUME WriteDefaultSettings(p) PROVE Sound(p)
  <2>1. \A q \in Processes : q # p => Untouched(q)
    BY <1>3, <1>t, MovesLeaveOthers DEF WriteDefaultSettings
  <2>2. /\ ws[p] \in Workspaces /\ Exists(ws[p]) /\ DoneThrough(ws[p], "migrate_core")
        /\ job[p] = "walk" /\ head[p] \in Heads
    BY <1>3, <1>t DEF WriteDefaultSettings, StandsOnDone, At
  <2>3. NothingUndone /\ settings'[ws[p]] # "absent"
    BY <1>3, <1>t, <2>2 DEF WriteDefaultSettings, InsertSettingIfAbsent, NothingUndone,
                            registry, Exists, DatabaseTypeOK
  <2>4. LocksKept(p)
    BY <1>3, <1>t DEF WriteDefaultSettings, LocksKept, GotoWrite, ProcessTypeOK
  <2>5. \A v \in todo[p] : Exists(v)' /\ DoneThrough(v, "activate")'
    BY <1>t, <1>d, <2>3, DoneStays DEF StandsOnDone, NothingUndone
  <2>6. DoneThrough(ws[p], "write_default_settings")' /\ Exists(ws[p])'
    BY <1>3, <2>2, <2>3 DEF WriteDefaultSettings, GotoWrite, DoneThrough, registry, Exists
  <2>7. StandsOnDone(p)'
    BY <1>3, <1>t, <2>2, <2>5, <2>6 DEF WriteDefaultSettings, GotoWrite, StandsOnDone,
                                        ProcessTypeOK, Recorded
  <2>8. \A v \in Workspaces : RowTellsTruth(v)'
    BY <1>3, <1>t, <2>3, UnwrittenRowsTellTruth DEF WriteDefaultSettings, registry, history
  <2> QED BY <2>1, <2>3, <2>4, <2>7, <2>8 DEF Sound
<1> QED BY <1>1, <1>2, <1>3

\* A registry write that tells the truth about its workspace is sound.
LEMMA WrittenRowTellsTruth ==
    ASSUME IInv, NEW w \in Workspaces, NEW st \in States \ {"absent"}, NEW d \in Details,
           Exists(w), SetWorkspaceState(w, st, d), UNCHANGED <<role, databases, provisionedFor>>,
           st = "provisioning" => d \in Recorded /\ DoneThrough(w, d),
           st \in {"active", "unavailable"} => DoneThrough(w, "activate")
    PROVE  NothingUndone /\ \A v \in Workspaces : RowTellsTruth(v)'
<1>t. RegistryTypeOK /\ \A v \in Workspaces : RowTellsTruth(v)
  BY DEF IInv, TypeOK
<1>1. NothingUndone
  BY <1>t DEF NothingUndone, SetWorkspaceState, databases, Exists, RegistryTypeOK
<1>2. /\ state'[w] = st /\ detail'[w] = d
      /\ \A v \in Workspaces : v # w => state'[v] = state[v] /\ detail'[v] = detail[v]
  BY <1>t DEF SetWorkspaceState, RegistryTypeOK
<1>3. RowTellsTruth(w)'
  BY <1>1, <1>2, <1>t, DoneStays DEF RowTellsTruth, Exists, States
<1>4. ASSUME NEW v \in Workspaces, v # w PROVE RowTellsTruth(v)'
  BY <1>1, <1>2, <1>4, <1>t, DoneStays DEF RowTellsTruth
<1> QED BY <1>1, <1>3, <1>4

\* The registry writes of a walk and of the orchestrator are sound.
LEMMA RegistryWritesSound ==
    ASSUME IInv, NEW p \in Processes
    PROVE  /\ RecordStep(p) => Sound(p)
           /\ Activate(p) => Sound(p)
           /\ MarkUnavailable(p) => Sound(p)
<1>t. ProcessTypeOK /\ RegistryTypeOK /\ StandsOnDone(p)
  BY DEF IInv, TypeOK, EveryProcessStandsOnDone
<1>d. todo[p] \subseteq Workspaces
  BY <1>t DEF ProcessTypeOK
<1>1. ASSUME RecordStep(p) PROVE Sound(p)
  <2>1. \A q \in Processes : q # p => Untouched(q)
    BY <1>1, <1>t, MovesLeaveOthers DEF RecordStep
  <2>2. /\ ws[p] \in Workspaces /\ Exists(ws[p])
        /\ note[p] \in Recorded \ {"insert_registry_row"} /\ DoneThrough(ws[p], note[p])
    BY <1>1, <1>t DEF RecordStep, StandsOnDone, At
  <2>3. CASE End(p) /\ UNCHANGED registry
    <3>1. /\ UNCHANGED <<state, detail, role, provisionedFor, exists, revision,
                         composition, settings>>
          /\ NothingUndone
      BY <1>1, <2>3 DEF RecordStep, registry, databases, history, NothingUndone, Exists
    <3> QED BY <2>1, <2>3, <3>1, RestStands, QuietStep
  <2>4. CASE /\ SetWorkspaceState(ws[p], "provisioning", note[p])
             /\ GotoWrite(p, StepAfter(note[p]), "none")
    <3>1. NothingUndone /\ \A v \in Workspaces : RowTellsTruth(v)'
      BY <1>1, <2>2, <2>4, Names, WrittenRowTellsTruth DEF RecordStep, history
    <3>2. \A v \in todo[p] : Exists(v)' /\ DoneThrough(v, "activate")'
      BY <1>t, <1>d, <3>1, DoneStays DEF StandsOnDone, NothingUndone
    <3>3. /\ ws'[p] = ws[p] /\ pc'[p] = StepAfter(note[p]) /\ job'[p] = job[p]
          /\ head'[p] = head[p] /\ todo'[p] = todo[p]
      BY <2>4, <1>t DEF GotoWrite, ProcessTypeOK
    <3>4. Exists(ws[p])' /\ \A d : d = note[p] => DoneThrough(ws[p], d)'
      BY <2>2, <3>1, <3>3, DoneStays DEF NothingUndone
    <3>5. job[p] = "walk" /\ head[p] \in Heads
      BY <1>1, <1>t DEF RecordStep, StandsOnDone, At
    <3>6. StandsOnDone(p)' /\ pc'[p] # "upgrade"
      BY <2>2, <3>2, <3>3, <3>4, <3>5 DEF StandsOnDone, StepAfter, Recorded, DoneThrough
    <3>7. LocksKept(p)
      BY <1>1, <3>6 DEF RecordStep, databases, LocksKept
    <3> QED BY <2>1, <3>1, <3>6, <3>7 DEF Sound
  <2> QED BY <1>1, <2>3, <2>4 DEF RecordStep
<1>2. ASSUME Activate(p) PROVE Sound(p)
  <2>1. \A q \in Processes : q # p => Untouched(q)
    BY <1>2, <1>t, MovesLeaveOthers DEF Activate
  <2>2. /\ ws[p] \in Workspaces /\ Exists(ws[p]) /\ DoneThrough(ws[p], "activate")
    BY <1>2, <1>t DEF Activate, StandsOnDone, At
  <2>3. NothingUndone /\ \A v \in Workspaces : RowTellsTruth(v)'
    <3>1. CASE SetWorkspaceState(ws[p], "active", "activate")
      BY <1>2, <2>2, <3>1, Names, WrittenRowTellsTruth DEF Activate, history
    <3>2. CASE UNCHANGED registry
      <4>1. NothingUndone
        BY <1>2, <3>2 DEF Activate, NothingUndone, databases, registry, Exists
      <4> QED
        BY <1>2, <3>2, <4>1, UnwrittenRowsTellTruth DEF IInv, Activate, registry, history
    <3> QED BY <1>2, <3>1, <3>2 DEF Activate
  <2>4. StandsOnDone(p)' /\ pc'[p] # "upgrade"
    BY <1>2, <2>3, RestStands DEF Activate
  <2>5. LocksKept(p)
    BY <1>2, <2>4 DEF Activate, databases, LocksKept
  <2> QED BY <2>1, <2>3, <2>4, <2>5 DEF Sound
<1>3. ASSUME MarkUnavailable(p) PROVE Sound(p)
  <2>1. \A q \in Processes : q # p => Untouched(q)
    BY <1>3, <1>t, MovesLeaveOthers DEF MarkUnavailable
  <2>2. /\ ws[p] \in Workspaces /\ Exists(ws[p]) /\ DoneThrough(ws[p], "activate")
        /\ job[p] # "walk" /\ head[p] \in Heads /\ note[p] \in Details
    BY <1>3, <1>t DEF MarkUnavailable, StandsOnDone, At, ProcessTypeOK
  <2>3. NothingUndone /\ \A v \in Workspaces : RowTellsTruth(v)'
    BY <1>3, <2>2, Names, WrittenRowTellsTruth DEF MarkUnavailable
  <2>4. StandsOnDone(p)' /\ pc'[p] # "upgrade"
    BY <1>3, <2>2, <2>3, RestStands DEF MarkUnavailable
  <2>5. LocksKept(p)
    BY <1>3, <2>4 DEF MarkUnavailable, databases, LocksKept
  <2> QED BY <2>1, <2>3, <2>4, <2>5 DEF Sound
<1> QED BY <1>1, <1>2, <1>3

\* The transaction of run_chain, from the lock to its commit or rollback, is
\* sound.
LEMMA ChainSound ==
    ASSUME IInv, NEW p \in Processes
    PROVE  /\ BeginChain(p) => Sound(p)
           /\ UpgradeToHead(p) => Sound(p)
           /\ \A d \in {"schema_ahead", "error"} :
                 pc[p] \in {"migrate_core", "upgrade"} /\ FailChain(p, d) => Sound(p)
<1>t. /\ ProcessTypeOK /\ DatabaseTypeOK /\ StandsOnDone(p)
      /\ \A w \in Workspaces : RowTellsTruth(w)
  BY DEF IInv, TypeOK, EveryProcessStandsOnDone
<1>d. todo[p] \subseteq Workspaces
  BY <1>t DEF ProcessTypeOK
<1>w. ASSUME pc[p] \in {"migrate_core", "upgrade"}
      PROVE  /\ ws[p] \in Workspaces /\ Exists(ws[p]) /\ head[p] \in Heads
             /\ DoneThrough(ws[p], "create_database")
             /\ job[p] # "walk" => DoneThrough(ws[p], "activate")
  BY <1>w, <1>t DEF StandsOnDone
<1>1. ASSUME BeginChain(p) PROVE Sound(p)
  <2>1. /\ pc'[p] = "upgrade" /\ ws'[p] = ws[p] /\ job'[p] = job[p] /\ head'[p] = head[p]
        /\ todo'[p] = todo[p] /\ seen'[p] = revision[ws[p]]
        /\ \A q \in Processes : q # p => Untouched(q)
    BY <1>1, <1>t DEF BeginChain, Untouched, ProcessTypeOK
  <2>2. /\ UNCHANGED <<state, detail, role, provisionedFor, exists, revision,
                       composition, settings>>
        /\ NothingUndone /\ AdvisoryLockFree(ws[p])
    BY <1>1 DEF BeginChain, registry, databases, history, NothingUndone, Exists
  <2>3. \A v \in todo[p] : Exists(v)' /\ DoneThrough(v, "activate")'
    BY <1>t, <1>d, <2>2, DoneStays DEF StandsOnDone, NothingUndone
  <2>4. StandsOnDone(p)'
    BY <1>1, <1>w, <2>1, <2>2, <2>3 DEF BeginChain, At, StandsOnDone, DoneThrough, Exists
  <2> QED BY <2>1, <2>2, <2>4, QuietStep
<1>2. ASSUME UpgradeToHead(p) PROVE Sound(p)
  <2>1. \A q \in Processes : q # p => Untouched(q)
    BY <1>2, <1>t, MovesLeaveOthers DEF UpgradeToHead
  <2>a. /\ ws[p] \in Workspaces /\ Exists(ws[p]) /\ head[p] \in Heads
        /\ DoneThrough(ws[p], "create_database")
        /\ job[p] # "walk" => DoneThrough(ws[p], "activate")
    BY <1>2, <1>w DEF UpgradeToHead, At
  <2>b. head[p] > 0
    <3>1. head[p] \in Nat \ {0}
      BY <2>a, HeadsAssumption
    <3> QED BY <3>1
  <2>2. /\ ws[p] \in Workspaces /\ Exists(ws[p]) /\ head[p] \in Heads /\ head[p] > 0
        /\ DoneThrough(ws[p], "create_database")
        /\ job[p] # "walk" => DoneThrough(ws[p], "activate")
    BY <2>a, <2>b
  <2>3. NothingUndone
    BY <1>2, <1>t, <2>2, HeadsAssumption
       DEF UpgradeToHead, NothingUndone, registry, Exists, DatabaseTypeOK, Revisions
  <2>4. LocksKept(p)
    BY <1>2, <1>t, <2>2 DEF UpgradeToHead, LocksKept, GotoWrite, Leave, ProcessTypeOK,
                            DatabaseTypeOK
  <2>5. \A v \in todo[p] : Exists(v)' /\ DoneThrough(v, "activate")'
    BY <1>t, <1>d, <2>3, DoneStays DEF StandsOnDone, NothingUndone
  <2>6. \A v \in Workspaces : RowTellsTruth(v)'
    BY <1>2, <1>t, <2>3, UnwrittenRowsTellTruth DEF UpgradeToHead, registry
  <2>7. CASE job[p] = "walk"
    <3>1. /\ pc'[p] = "record" /\ ws'[p] = ws[p] /\ job'[p] = job[p] /\ head'[p] = head[p]
          /\ todo'[p] = todo[p] /\ note'[p] = "migrate_core"
      BY <1>2, <1>t, <2>7 DEF UpgradeToHead, GotoWrite, ProcessTypeOK
    <3>2. DoneThrough(ws[p], "migrate_core")' /\ Exists(ws[p])'
      BY <1>2, <1>t, <2>2, <2>7, <3>1 DEF UpgradeToHead, DoneThrough, registry, Exists,
                                         DatabaseTypeOK
    <3>3. StandsOnDone(p)'
      BY <2>2, <2>5, <2>7, <3>1, <3>2 DEF StandsOnDone, Recorded
    <3> QED BY <2>1, <2>3, <2>4, <2>6, <3>3 DEF Sound
  <2>8. CASE job[p] # "walk"
    <3>1. StandsOnDone(p)'
      BY <1>2, <2>2, <2>3, <2>8, RestStands DEF UpgradeToHead
    <3> QED BY <2>1, <2>3, <2>4, <2>6, <3>1 DEF Sound
  <2> QED BY <2>7, <2>8
<1>3. ASSUME NEW d \in {"schema_ahead", "error"}, pc[p] \in {"migrate_core", "upgrade"},
             FailChain(p, d)
      PROVE  Sound(p)
  <2>1. \A q \in Processes : q # p => Untouched(q)
    BY <1>3, <1>t, MovesLeaveOthers DEF FailChain
  <2>2. /\ UNCHANGED <<state, detail, role, provisionedFor, exists, revision,
                       composition, settings>>
        /\ NothingUndone
    BY <1>3 DEF FailChain, registry, databases, NothingUndone, Exists
  <2>3. CASE job[p] = "walk"
    <3>1. StandsOnDone(p)' /\ pc'[p] # "upgrade"
      BY <1>3, <2>2, <2>3, RestStands DEF FailChain
    <3> QED BY <2>1, <2>2, <3>1, QuietStep
  <2>4. CASE job[p] # "walk"
    <3>1. /\ pc'[p] = "mark_unavailable" /\ ws'[p] = ws[p] /\ job'[p] = job[p]
          /\ head'[p] = head[p] /\ todo'[p] = todo[p]
      BY <1>3, <1>t, <2>4 DEF FailChain, GotoWrite, ProcessTypeOK
    <3>2. \A v \in todo[p] : Exists(v)' /\ DoneThrough(v, "activate")'
      BY <1>t, <1>d, <2>2, DoneStays DEF StandsOnDone, NothingUndone
    <3>3. StandsOnDone(p)'
      BY <1>3, <1>w, <2>2, <2>4, <3>1, <3>2 DEF StandsOnDone, DoneThrough, Exists
    <3> QED BY <2>1, <2>2, <3>1, <3>3, QuietStep
  <2> QED BY <2>3, <2>4
<1> QED BY <1>1, <1>2, <1>3

\* Listing, picking and finishing workspaces, and serving them, is sound.
LEMMA MigrationAndServingSound ==
    ASSUME IInv, NEW p \in Processes
    PROVE  /\ \A h \in Heads, j \in {"migrate", "startup"} : ListActive(p, h, j) => Sound(p)
           /\ NextWorkspace(p) => Sound(p)
           /\ EndMigration(p) => Sound(p)
           /\ \A w \in Workspaces : OpenUnitOfWork(p, w) => Sound(p)
           /\ RollbackUnitOfWork(p) => Sound(p)
           /\ CommitSetting(p) => Sound(p)
           /\ Crash(p) => Sound(p)
<1>t. /\ ProcessTypeOK /\ DatabaseTypeOK /\ StandsOnDone(p)
      /\ \A w \in Workspaces : RowTellsTruth(w)
  BY DEF IInv, TypeOK, EveryProcessStandsOnDone
<1>d. todo[p] \subseteq Workspaces
  BY <1>t DEF ProcessTypeOK
<1>q. ASSUME UNCHANGED <<registry, role, databases, history>>
      PROVE  /\ UNCHANGED <<state, detail, role, provisionedFor, exists, revision,
                           composition, settings>>
             /\ NothingUndone
  BY <1>q DEF registry, databases, history, NothingUndone, Exists
<1>1. ASSUME NEW h \in Heads, NEW j \in {"migrate", "startup"}, ListActive(p, h, j)
      PROVE  Sound(p)
  <2>1. \A q \in Processes : q # p => Untouched(q)
    BY <1>1, <1>t, MovesLeaveOthers DEF ListActive
  <2>2. /\ pc'[p] = "next_workspace" /\ job'[p] = j /\ head'[p] = h
        /\ todo'[p] = {w \in Workspaces : state[w] = "active"}
    BY <1>1, <1>t DEF ListActive, Become, ProcessTypeOK
  <2>3. \A v \in todo'[p] : Exists(v) /\ DoneThrough(v, "activate")
    BY <1>t, <2>2 DEF RowTellsTruth, Exists
  <2>4. \A v \in todo'[p] : Exists(v)' /\ DoneThrough(v, "activate")'
    BY <1>1, <1>q, <2>3 DEF ListActive, Exists, DoneThrough
  <2>5. StandsOnDone(p)'
    BY <2>2, <2>4 DEF StandsOnDone
  <2> QED BY <1>1, <1>q, <2>1, <2>2, <2>5, QuietStep DEF ListActive
<1>2. ASSUME NextWorkspace(p) PROVE Sound(p)
  <2>1. PICK w \in todo[p] : /\ pc' = [pc EXCEPT ![p] = "migrate_core"]
                             /\ ws' = [ws EXCEPT ![p] = w]
                             /\ todo' = [todo EXCEPT ![p] = @ \ {w}]
    BY <1>2 DEF NextWorkspace
  <2>2. /\ pc'[p] = "migrate_core" /\ ws'[p] = w /\ job'[p] = job[p] /\ head'[p] = head[p]
        /\ todo'[p] \subseteq todo[p] /\ w \in Workspaces
        /\ \A q \in Processes : q # p => Untouched(q)
    BY <1>2, <1>d, <1>t, <2>1 DEF NextWorkspace, Untouched, ProcessTypeOK
  <2>3. \A v \in todo[p] : Exists(v)' /\ DoneThrough(v, "activate")'
    BY <1>2, <1>t, <1>d, <1>q, DoneStays DEF NextWorkspace, StandsOnDone, NothingUndone
  <2>4. head[p] \in Heads /\ job[p] # "walk"
    BY <1>2, <1>t DEF NextWorkspace, StandsOnDone, At
  <2>5. StandsOnDone(p)'
    BY <2>1, <2>2, <2>3, <2>4 DEF StandsOnDone, DoneThrough
  <2>6. UNCHANGED <<registry, role, databases, history>>
    BY <1>2 DEF NextWorkspace
  <2> QED BY <1>q, <2>2, <2>5, <2>6, QuietStep
<1>3. ASSUME EndMigration(p) PROVE Sound(p)
  <2>1. \A q \in Processes : q # p => Untouched(q)
    BY <1>3, <1>t, MovesLeaveOthers DEF EndMigration
  <2>2. StandsOnDone(p)' /\ pc'[p] # "upgrade"
    <3>1. CASE End(p)
      BY <1>3, <1>q, <3>1, RestStands DEF EndMigration
    <3>2. CASE Goto(p, "serving")
      BY <1>3, <1>t, <3>2 DEF EndMigration, At, Goto, StandsOnDone, ProcessTypeOK
    <3> QED BY <1>3, <3>1, <3>2 DEF EndMigration
  <2> QED BY <1>3, <1>q, <2>1, <2>2, QuietStep DEF EndMigration
<1>4. ASSUME NEW w \in Workspaces, OpenUnitOfWork(p, w) PROVE Sound(p)
  <2>1. /\ pc'[p] = "unit_of_work" /\ ws'[p] = w /\ head'[p] = head[p]
        /\ todo'[p] = todo[p] /\ \A q \in Processes : q # p => Untouched(q)
        /\ UNCHANGED <<registry, role, databases, history>>
    BY <1>4, <1>t DEF OpenUnitOfWork, Untouched, ProcessTypeOK
  <2>2. \A v \in todo[p] : Exists(v)' /\ DoneThrough(v, "activate")'
    BY <1>t, <1>d, <1>q, <2>1, DoneStays DEF StandsOnDone, NothingUndone
  <2>3. head[p] \in Heads /\ Exists(w) /\ DoneThrough(w, "activate")
    BY <1>4, <1>t DEF OpenUnitOfWork, At, StandsOnDone, RowTellsTruth, Exists
  <2>4. Exists(w)' /\ DoneThrough(w, "activate")'
    BY <1>q, <2>1, <2>3, DoneStays DEF NothingUndone
  <2>5. StandsOnDone(p)'
    BY <2>1, <2>2, <2>3, <2>4 DEF StandsOnDone
  <2> QED BY <1>q, <2>1, <2>5, QuietStep
<1>5. ASSUME RollbackUnitOfWork(p) PROVE Sound(p)
  <2>1. \A q \in Processes : q # p => Untouched(q)
    BY <1>5, <1>t, MovesLeaveOthers DEF RollbackUnitOfWork
  <2>2. head[p] \in Heads
    BY <1>5, <1>t DEF RollbackUnitOfWork, At, StandsOnDone
  <2>3. StandsOnDone(p)' /\ pc'[p] # "upgrade"
    BY <1>5, <1>q, <2>2, RestStands DEF RollbackUnitOfWork
  <2> QED BY <1>5, <1>q, <2>1, <2>3, QuietStep DEF RollbackUnitOfWork
<1>6. ASSUME CommitSetting(p) PROVE Sound(p)
  <2>1. \A q \in Processes : q # p => Untouched(q)
    BY <1>6, <1>t, MovesLeaveOthers DEF CommitSetting
  <2>2. head[p] \in Heads /\ ws[p] \in Workspaces
    BY <1>6, <1>t DEF CommitSetting, At, StandsOnDone
  <2>3. NothingUndone
    BY <1>6, <1>t, <2>2 DEF CommitSetting, NothingUndone, registry, Exists, DatabaseTypeOK
  <2>4. StandsOnDone(p)' /\ pc'[p] # "upgrade"
    BY <1>6, <2>2, <2>3, RestStands DEF CommitSetting
  <2>5. LocksKept(p)
    BY <1>6, <2>4 DEF CommitSetting, LocksKept
  <2>6. \A v \in Workspaces : RowTellsTruth(v)'
    BY <1>6, <1>t, <2>3, UnwrittenRowsTellTruth DEF CommitSetting, registry, history
  <2> QED BY <2>1, <2>3, <2>4, <2>5, <2>6 DEF Sound
<1>7. ASSUME Crash(p) PROVE Sound(p)
  <2>1. \A q \in Processes : q # p => Untouched(q)
    BY <1>7, <1>t, MovesLeaveOthers DEF Crash
  <2>2. StandsOnDone(p)' /\ pc'[p] # "upgrade"
    BY <1>7, <1>q, RestStands DEF Crash
  <2> QED BY <1>7, <1>q, <2>1, <2>2, QuietStep DEF Crash
<1> QED BY <1>1, <1>2, <1>3, <1>4, <1>5, <1>6, <1>7

-----------------------------------------------------------------------------
(* The invariant and what follows from it *)

\* Adding a member, the one step of no process, keeps the invariant.
LEMMA AddMemberKeepsInvariant ==
    ASSUME IInv, TypeOK', NEW w \in Workspaces, NEW a \in Accounts,
           NEW r \in {"owner", "member"}, AddMember(w, a, r)
    PROVE  IInv'
<1>1. UNCHANGED <<state, detail, slug, exists, revision, composition, settings, pc, job, ws,
                  head, seen, note, todo, provisionedFor>>
  BY DEF AddMember, registry, databases, processes, history
<1>2. EveryProcessStandsOnDone' /\ OneChainPerDatabase'
  BY <1>1 DEF IInv, EveryProcessStandsOnDone, StandsOnDone, OneChainPerDatabase, DoneThrough,
              Exists, At
<1>3. a \notin provisionedFor[w]
  BY DEF IInv, RowTellsTruth, AddMember
<1>4. ASSUME NEW v \in Workspaces PROVE RowTellsTruth(v)'
  <2>1. \A b \in provisionedFor[v] : role'[v][b] = role[v][b]
    BY <1>3 DEF AddMember, IInv, TypeOK, RegistryTypeOK, HistoryTypeOK
  <2> QED BY <1>1, <2>1 DEF IInv, RowTellsTruth, DoneThrough
<1> QED BY <1>2, <1>4 DEF IInv

\* IInv holds initially: no row, no database, every process idle.
LEMMA InitInvariant == Init => IInv
<1> SUFFICES ASSUME Init PROVE IInv
  OBVIOUS
<1>1. TypeOK
  BY Names DEF Init, TypeOK, RegistryTypeOK, DatabaseTypeOK, ProcessTypeOK, HistoryTypeOK
<1>2. \A w \in Workspaces : RowTellsTruth(w)
  BY DEF Init, RowTellsTruth
<1>3. EveryProcessStandsOnDone /\ OneChainPerDatabase
  BY DEF Init, EveryProcessStandsOnDone, StandsOnDone, OneChainPerDatabase, At
<1> QED BY <1>1, <1>2, <1>3 DEF IInv

\* Every step is the sound step of one process, or adds a member.
LEMMA EveryStepSound ==
    ASSUME IInv, Next
    PROVE  \/ \E p \in Processes : Sound(p)
           \/ \E w \in Workspaces, a \in Accounts, r \in {"owner", "member"} : AddMember(w, a, r)
<1>1. ASSUME NEW p \in Operators, RunCommand(p) PROVE p \in Processes /\ Sound(p)
  <2>1. p \in Processes
    BY DEF Processes
  <2> QED BY <1>1, <2>1, CommandsSound, MigrationAndServingSound DEF RunCommand
<1>2. ASSUME NEW p \in Replicas, NEW h \in Heads, ListActive(p, h, "startup")
      PROVE  p \in Processes /\ Sound(p)
  <2>1. p \in Processes
    BY DEF Processes
  <2> QED BY <1>2, <2>1, MigrationAndServingSound
<1>3. ASSUME NEW p \in Replicas, NEW w \in Workspaces, OpenUnitOfWork(p, w)
      PROVE  p \in Processes /\ Sound(p)
  <2>1. p \in Processes
    BY DEF Processes
  <2> QED BY <1>3, <2>1, MigrationAndServingSound
<1>4. ASSUME NEW p \in Processes, Progress(p) \/ Fault(p) PROVE Sound(p)
  BY <1>4, EffectsSound, RegistryWritesSound, ChainSound, MigrationAndServingSound
     DEF Progress, Fault, RefuseSchemaAhead, ChainError, At
<1> QED BY <1>1, <1>2, <1>3, <1>4 DEF Next

\* IInv is inductive: every action, by whichever process, keeps it.
LEMMA StepInvariant == IInv /\ [Next]_vars => IInv'
<1> SUFFICES ASSUME IInv, [Next]_vars PROVE IInv'
  OBVIOUS
<1>t. TypeOK'
  BY TypeStep DEF IInv
<1>1. ASSUME NEW p \in Processes, Sound(p) PROVE IInv'
  BY <1>1, <1>t, SoundStep
<1>2. ASSUME NEW w \in Workspaces, NEW a \in Accounts, NEW r \in {"owner", "member"},
             AddMember(w, a, r)
      PROVE  IInv'
  BY <1>2, <1>t, AddMemberKeepsInvariant
<1>3. CASE UNCHANGED vars
  BY <1>3, <1>t DEF vars, registry, databases, processes, history, IInv, RowTellsTruth,
     EveryProcessStandsOnDone, StandsOnDone, OneChainPerDatabase, DoneThrough, Exists, At
<1> QED BY <1>1, <1>2, <1>3, EveryStepSound

\* The inductive invariant holds in every reachable state: provision, repair,
\* rheo migrate, startup and serving never step on each other's effects.
THEOREM Invariance == Spec => []IInv
BY InitInvariant, StepInvariant, PTL DEF Spec

\* The registry, the databases and the processes stay well typed.
THEOREM TypeCorrect == Spec => []TypeOK
<1>1. IInv => TypeOK
  BY DEF IInv
<1> QED BY Invariance, <1>1, PTL

\* A workspace that routing.active_workspace serves has everything the five
\* steps build.
THEOREM ServedIsReady == Spec => []ActiveIsReady
<1>1. IInv => ActiveIsReady
  BY DEF IInv, RowTellsTruth, ActiveIsReady
<1> QED BY Invariance, <1>1, PTL

\* repair never skips a step whose effect is missing.
THEOREM RepairIsSound == Spec => []RepairSkipsOnlyDoneSteps
<1>1. IInv => RepairSkipsOnlyDoneSteps
  BY DEF IInv, RowTellsTruth, RepairSkipsOnlyDoneSteps, DoneThrough
<1> QED BY Invariance, <1>1, PTL

\* Provisioning makes exactly one account owner, whoever retries.
THEOREM OwnerIsUnique == Spec => []OneProvisionedOwner
<1>1. IInv => OneProvisionedOwner
  <2> SUFFICES ASSUME IInv, NEW w \in Workspaces
               PROVE  /\ Exists(w) => \E a \in provisionedFor[w] : role[w][a] = "owner"
                      /\ \A a, b \in provisionedFor[w] : a = b
    BY DEF OneProvisionedOwner
  <2>1. RowTellsTruth(w)
    BY DEF IInv
  <2>2. Exists(w) => provisionedFor[w] # {}
    BY <2>1 DEF RowTellsTruth, Exists
  <2> QED BY <2>1, <2>2 DEF RowTellsTruth
<1> QED BY Invariance, <1>1, PTL

-----------------------------------------------------------------------------
(* What no step may do *)

\* The only writers of the revision, of the settings row and of the state.
LEMMA Writers ==
    [Next]_vars =>
       /\ \/ UNCHANGED databases
          \/ \E p \in Processes : \/ CreateDatabase(p) \/ UpgradeToHead(p)
                                   \/ WriteDefaultSettings(p) \/ CommitSetting(p)
       /\ \/ UNCHANGED revision
          \/ \E p \in Processes : UpgradeToHead(p)
       /\ \/ UNCHANGED settings
          \/ \E p \in Processes : WriteDefaultSettings(p) \/ CommitSetting(p)
       /\ \/ UNCHANGED <<state, provisionedFor>>
          \/ /\ UNCHANGED databases
             /\ \/ \E p \in Processes, w \in Workspaces, a \in Accounts, s \in Slugs, h \in Heads :
                      InsertRegistryRow(p, w, a, s, h)
                \/ \E p \in Processes : \/ RecordStep(p)
                                         \/ Activate(p)
                                         \/ MarkUnavailable(p)
<1> SUFFICES ASSUME [Next]_vars
             PROVE  /\ \/ UNCHANGED databases
                       \/ \E p \in Processes : \/ CreateDatabase(p) \/ UpgradeToHead(p)
                                                \/ WriteDefaultSettings(p) \/ CommitSetting(p)
                    /\ UNCHANGED revision \/ \E p \in Processes : UpgradeToHead(p)
                    /\ \/ UNCHANGED settings
                       \/ \E p \in Processes : WriteDefaultSettings(p) \/ CommitSetting(p)
                    /\ \/ UNCHANGED <<state, provisionedFor>>
                       \/ /\ UNCHANGED databases
                          /\ \/ \E p \in Processes, w \in Workspaces, a \in Accounts,
                                   s \in Slugs, h \in Heads : InsertRegistryRow(p, w, a, s, h)
                             \/ \E p \in Processes : \/ RecordStep(p)
                                                      \/ Activate(p)
                                                      \/ MarkUnavailable(p)
  OBVIOUS
<1>1. CASE \E p \in Operators : RunCommand(p)
  BY <1>1 DEF RunCommand, InsertRegistryRow, RetryRegistryRow, Repair, ListActive, registry,
              databases, history, Processes
<1>2. CASE \E p \in Replicas, h \in Heads : ListActive(p, h, "startup")
  BY <1>2 DEF ListActive, registry, databases, history
<1>3. CASE \E p \in Replicas, w \in Workspaces : OpenUnitOfWork(p, w)
  BY <1>3 DEF OpenUnitOfWork, registry, databases, history
<1>4. ASSUME NEW p \in Processes, Progress(p)
      PROVE  /\ \/ UNCHANGED databases
                \/ CreateDatabase(p) \/ UpgradeToHead(p)
                \/ WriteDefaultSettings(p) \/ CommitSetting(p)
             /\ UNCHANGED revision \/ UpgradeToHead(p)
             /\ UNCHANGED settings \/ WriteDefaultSettings(p) \/ CommitSetting(p)
             /\ \/ UNCHANGED <<state, provisionedFor>>
                \/ /\ UNCHANGED databases
                   /\ RecordStep(p) \/ Activate(p) \/ MarkUnavailable(p)
  BY <1>4 DEF Progress, CreateDatabase, RecheckDatabase, RecordStep, BeginChain, UpgradeToHead,
              RefuseSchemaAhead, FailChain, WriteDefaultSettings, Activate, NextWorkspace,
              EndMigration, MarkUnavailable, CommitSetting, RollbackUnitOfWork, registry,
              databases, history
<1>5. CASE \E p \in Processes : Fault(p)
  BY <1>5 DEF Fault, ChainError, FailChain, Crash, registry, databases, history
<1>6. CASE \E w \in Workspaces, a \in Accounts, r \in {"owner", "member"} : AddMember(w, a, r)
  BY <1>6 DEF AddMember, registry, databases, history
<1>7. CASE UNCHANGED vars
  BY <1>7 DEF vars, registry, databases, history
<1> QED BY <1>1, <1>2, <1>3, <1>4, <1>5, <1>6, <1>7 DEF Next

\* The state of each workspace moves only along the edges of the lifecycle.
LEMMA StateMoves ==
    ASSUME IInv, [Next]_vars, NEW w \in Workspaces
    PROVE  \/ UNCHANGED <<state[w], provisionedFor[w]>>
           \/ /\ state[w] = "absent" /\ state'[w] = "provisioning"
              /\ \E a \in Accounts : provisionedFor'[w] = {a}
           \/ /\ UNCHANGED provisionedFor[w]
              /\ \/ state[w] = "unavailable" /\ state'[w] = "provisioning"
                 \/ /\ state[w] = "provisioning" /\ state'[w] = "active"
                    /\ DoneThrough(w, "activate")
                 \/ /\ state[w] \in {"active", "provisioning"} /\ state'[w] = "unavailable"
                    /\ DoneThrough(w, "activate")
<1>t. RegistryTypeOK /\ HistoryTypeOK /\ RowTellsTruth(w) /\ EveryProcessStandsOnDone
  BY DEF IInv, TypeOK
<1>1. ASSUME NEW p \in Processes, NEW v \in Workspaces, NEW a \in Accounts, NEW s \in Slugs,
             NEW h \in Heads, InsertRegistryRow(p, v, a, s, h)
      PROVE  \/ UNCHANGED <<state[w], provisionedFor[w]>>
             \/ /\ state[w] = "absent" /\ state'[w] = "provisioning"
                /\ provisionedFor'[w] = {a}
  BY <1>1, <1>t DEF InsertRegistryRow, RegistryTypeOK, HistoryTypeOK, RowTellsTruth
<1>2. ASSUME NEW p \in Processes, RecordStep(p)
      PROVE  /\ UNCHANGED provisionedFor[w]
             /\ \/ UNCHANGED state[w]
                \/ state[w] = "unavailable" /\ state'[w] = "provisioning"
  BY <1>2, <1>t DEF RecordStep, RecordExpectedStates, SetWorkspaceState, registry, history,
                    RegistryTypeOK
<1>3. ASSUME NEW p \in Processes, Activate(p)
      PROVE  /\ UNCHANGED provisionedFor[w]
             /\ \/ UNCHANGED state[w]
                \/ /\ state[w] = "provisioning" /\ state'[w] = "active"
                   /\ DoneThrough(w, "activate")
  <2>1. DoneThrough(ws[p], "activate")
    BY <1>3, <1>t DEF Activate, EveryProcessStandsOnDone, StandsOnDone, At
  <2> QED
    BY <1>3, <1>t, <2>1 DEF Activate, ActivateExpectedStates, SetWorkspaceState, registry,
                            history, RegistryTypeOK
<1>4. ASSUME NEW p \in Processes, MarkUnavailable(p)
      PROVE  /\ UNCHANGED provisionedFor[w]
             /\ \/ UNCHANGED state[w]
                \/ /\ state[w] \in {"active", "provisioning"} /\ state'[w] = "unavailable"
                   /\ DoneThrough(w, "activate")
  <2>1. DoneThrough(ws[p], "activate") /\ Exists(ws[p])
    BY <1>4, <1>t DEF MarkUnavailable, EveryProcessStandsOnDone, StandsOnDone, At
  <2>2. state[w] \in States /\ (ws[p] = w => state[w] # "absent")
    BY <1>t, <2>1 DEF RegistryTypeOK, Exists
  <2> QED
    BY <1>4, <1>t, <2>1, <2>2 DEF MarkUnavailable, SetWorkspaceState, RegistryTypeOK, States
<1> QED BY <1>1, <1>2, <1>3, <1>4, Writers

\* No walk takes an active workspace out of service.
THEOREM ActiveIsNotStampedOver == Spec => ActiveLeftOnlyForUnavailable
<1>1. IInv /\ [Next]_vars => [\A w \in Workspaces : state[w] = "active"
                                => state'[w] \in {"active", "unavailable"}]_vars
  BY StateMoves
<1> QED BY Invariance, <1>1, PTL DEF Spec, ActiveLeftOnlyForUnavailable

\* Under the advisory lock no chain of an older version undoes a newer one.
THEOREM SchemaIsMonotone == Spec => SchemaNeverGoesBack
<1>1. IInv /\ [Next]_vars => [\A w \in Workspaces : revision'[w] >= revision[w]]_vars
  <2> SUFFICES ASSUME IInv, [Next]_vars, NEW w \in Workspaces PROVE revision'[w] >= revision[w]
    OBVIOUS
  <2>1. revision[w] \in Nat
    <3>1. revision[w] \in Revisions
      BY DEF IInv, TypeOK, DatabaseTypeOK
    <3>2. Revisions \subseteq Nat
      <4>1. Heads \subseteq Nat
        BY HeadsAssumption
      <4> QED BY <4>1 DEF Revisions
    <3> QED BY <3>1, <3>2
  <2>2. CASE UNCHANGED revision
    BY <2>1, <2>2
  <2>3. ASSUME NEW p \in Processes, UpgradeToHead(p) PROVE revision'[w] >= revision[w]
    <3>1. /\ seen[p] = revision[ws[p]] /\ head[p] \in Heads /\ ~(seen[p] > head[p])
          /\ ws[p] \in Workspaces
      BY <2>3 DEF UpgradeToHead, SchemaAhead, At, IInv, EveryProcessStandsOnDone, StandsOnDone
    <3>2. head[p] \in Nat
      BY <3>1, HeadsAssumption
    <3>3. revision' = [revision EXCEPT ![ws[p]] = head[p]] /\ revision \in [Workspaces -> Revisions]
      BY <2>3 DEF UpgradeToHead, IInv, TypeOK, DatabaseTypeOK
    <3>4. CASE ws[p] = w
      BY <2>1, <3>1, <3>2, <3>3, <3>4
    <3>5. CASE ws[p] # w
      BY <2>1, <3>3, <3>5
    <3> QED BY <3>4, <3>5
  <2> QED BY <2>2, <2>3, Writers
<1> QED BY Invariance, <1>1, PTL DEF Spec, SchemaNeverGoesBack

\* A lagging step 4 keeps the value a workspace has set.
THEOREM SettingIsKept == Spec => ChosenSettingKept
<1>1. IInv /\ [Next]_vars => [\A w \in Workspaces : settings[w] = "chosen"
                                => settings'[w] = "chosen"]_vars
  <2> SUFFICES ASSUME IInv, [Next]_vars, NEW w \in Workspaces, settings[w] = "chosen"
               PROVE  settings'[w] = "chosen"
    OBVIOUS
  <2>1. ASSUME NEW p \in Processes, WriteDefaultSettings(p) \/ CommitSetting(p)
        PROVE  settings'[w] = "chosen"
    BY <2>1 DEF WriteDefaultSettings, InsertSettingIfAbsent, CommitSetting, IInv, TypeOK, DatabaseTypeOK
  <2> QED BY <2>1, Writers
<1> QED BY Invariance, <1>1, PTL DEF Spec, ChosenSettingKept

-----------------------------------------------------------------------------
(* Refinement *)

\* A step writes the row or the database of one workspace, and the database
\* only of a workspace with a row.
LEMMA OneWorkspaceWritten ==
    ASSUME IInv, [Next]_vars
    PROVE  \E v :
              /\ UNCHANGED databases \/ Exists(v)
              /\ \A w \in Workspaces : w # v =>
                    UNCHANGED <<state[w], provisionedFor[w], exists[w], revision[w],
                                composition[w], settings[w]>>
<1>t. RegistryTypeOK /\ DatabaseTypeOK /\ HistoryTypeOK /\ EveryProcessStandsOnDone
  BY DEF IInv, TypeOK
<1>1. CASE UNCHANGED <<state, provisionedFor, databases>>
  BY <1>1 DEF databases
<1>2. ASSUME NEW p \in Processes, NEW v \in Workspaces, NEW a \in Accounts, NEW s \in Slugs,
             NEW h \in Heads, InsertRegistryRow(p, v, a, s, h)
      PROVE  /\ UNCHANGED databases
             /\ \A w \in Workspaces : w # v =>
                   UNCHANGED <<state[w], provisionedFor[w], exists[w], revision[w],
                               composition[w], settings[w]>>
  BY <1>2, <1>t DEF InsertRegistryRow, databases, RegistryTypeOK, HistoryTypeOK
<1>3. ASSUME NEW p \in Processes, RecordStep(p) \/ Activate(p) \/ MarkUnavailable(p)
      PROVE  /\ UNCHANGED databases
             /\ \A w \in Workspaces : w # ws[p] =>
                   UNCHANGED <<state[w], provisionedFor[w], exists[w], revision[w],
                               composition[w], settings[w]>>
  BY <1>3, <1>t DEF RecordStep, Activate, MarkUnavailable, SetWorkspaceState, registry, history,
                    databases, RegistryTypeOK
<1>4. ASSUME NEW p \in Processes, \/ CreateDatabase(p) \/ UpgradeToHead(p)
                                  \/ WriteDefaultSettings(p) \/ CommitSetting(p)
      PROVE  /\ Exists(ws[p])
             /\ \A w \in Workspaces : w # ws[p] =>
                   UNCHANGED <<state[w], provisionedFor[w], exists[w], revision[w],
                               composition[w], settings[w]>>
  <2>1. Exists(ws[p])
    BY <1>4, <1>t DEF CreateDatabase, UpgradeToHead, WriteDefaultSettings, CommitSetting, At,
                      EveryProcessStandsOnDone, StandsOnDone
  <2> QED
    BY <1>4, <1>t, <2>1 DEF CreateDatabase, UpgradeToHead, WriteDefaultSettings, CommitSetting,
                            registry, history, DatabaseTypeOK
<1> QED BY <1>1, <1>2, <1>3, <1>4, Writers

\* The processes implement the workspace lifecycle: what the boundary relies on
\* holds whatever the interleaving of walks, chains and crashes.
THEOREM Refinement == Spec => ImplementsLifecycle
<1>1. Init => Lifecycle!LifecycleInit
  BY DEF Init, Lifecycle!LifecycleInit, DoneThrough
<1>2. IInv /\ [Next]_vars => [Lifecycle!LifecycleNext]_(Lifecycle!lifecycleVars)
  <2> SUFFICES ASSUME IInv, [Next]_vars
               PROVE  [Lifecycle!LifecycleNext]_(Lifecycle!lifecycleVars)
    OBVIOUS
  <2> DEFINE complete == [w \in Workspaces |-> DoneThrough(w, "activate")]
             status == [w \in Workspaces |-> state[w]]
  <2>t. state \in [Workspaces -> States] /\ provisionedFor \in [Workspaces -> SUBSET Accounts]
    BY DEF IInv, TypeOK, RegistryTypeOK, HistoryTypeOK
  <2>p. provisionedFor' \in [Workspaces -> SUBSET Accounts]
    BY StepInvariant DEF IInv, TypeOK, HistoryTypeOK
  <2>u. \A w \in Workspaces : DoneThrough(w, "activate") => DoneThrough(w, "activate")'
    <3>1. ASSUME NEW p \in Processes, Sound(p) PROVE NothingUndone
      BY <3>1 DEF Sound
    <3>2. CASE UNCHANGED <<exists, revision, composition, settings>>
      BY <3>2 DEF DoneThrough
    <3>3. CASE NothingUndone
      BY <3>3, DoneStays
    <3> QED BY <3>1, <3>2, <3>3, EveryStepSound DEF AddMember, vars, databases
  <2>v. PICK v : /\ UNCHANGED databases \/ Exists(v)
                 /\ \A w \in Workspaces : w # v =>
                       UNCHANGED <<state[w], provisionedFor[w], exists[w], revision[w],
                                   composition[w], settings[w]>>
    BY OneWorkspaceWritten
  <2>o. \A w \in Workspaces : w # v =>
           /\ status'[w] = status[w] /\ complete'[w] = complete[w]
           /\ provisionedFor'[w] = provisionedFor[w]
    BY <2>v DEF DoneThrough
  <2>1. CASE v \notin Workspaces
    <3>1. status' = status /\ complete' = complete /\ provisionedFor' = provisionedFor
      BY <2>1, <2>o, <2>t, <2>p
    <3> QED BY <3>1 DEF Lifecycle!lifecycleVars
  <2>2. CASE v \in Workspaces
    <3>1. /\ status' = [status EXCEPT ![v] = status'[v]]
          /\ complete' = [complete EXCEPT ![v] = complete'[v]]
          /\ provisionedFor' = [provisionedFor EXCEPT ![v] = provisionedFor'[v]]
      BY <2>2, <2>o, <2>t, <2>p
    <3>2. CASE UNCHANGED <<state[v], provisionedFor[v]>> /\ complete'[v] = complete[v]
      <4>1. status' = status /\ complete' = complete /\ provisionedFor' = provisionedFor
        BY <2>2, <2>o, <2>t, <2>p, <3>2
      <4> QED BY <4>1 DEF Lifecycle!lifecycleVars
    <3>3. CASE UNCHANGED <<state[v], provisionedFor[v]>> /\ complete'[v] # complete[v]
      <4>1. ~DoneThrough(v, "activate") /\ DoneThrough(v, "activate")'
        <5>1. complete[v] = DoneThrough(v, "activate") /\ complete'[v] = DoneThrough(v, "activate")'
          BY <2>2
        <5>2. DoneThrough(v, "activate") \in BOOLEAN /\ DoneThrough(v, "activate")' \in BOOLEAN
          BY DEF DoneThrough
        <5> QED BY <2>2, <2>u, <3>3, <5>1, <5>2
      <4>2. state[v] = "provisioning"
        BY <2>2, <2>t, <2>v, <4>1 DEF IInv, RowTellsTruth, Exists, States, databases, DoneThrough
      <4>3. status' = status /\ provisionedFor' = provisionedFor
        BY <2>2, <2>o, <2>t, <2>p, <3>3
      <4>a. complete'[v] = TRUE
        BY <2>2, <4>1
      <4>b. complete' = [complete EXCEPT ![v] = TRUE]
        BY <3>1, <4>a
      <4>c. status[v] = "provisioning"
        BY <2>2, <4>2
      <4>4. Lifecycle!Complete(v)
        BY <4>b, <4>c, <4>3 DEF Lifecycle!Complete
      <4> QED BY <2>2, <4>4 DEF Lifecycle!LifecycleNext
    <3>4. CASE ~UNCHANGED <<state[v], provisionedFor[v]>>
      <4>1. complete' = complete
        <5>1. UNCHANGED databases
          BY <3>4, Writers
        <5> QED BY <5>1 DEF databases, DoneThrough
      <4>2. status[v] = state[v] /\ status'[v] = state'[v]
            /\ (complete[v] <=> DoneThrough(v, "activate"))
        BY <2>2
      <4>3. CASE /\ state[v] = "absent" /\ state'[v] = "provisioning"
                 /\ \E a \in Accounts : provisionedFor'[v] = {a}
        <5>1. PICK a \in Accounts : provisionedFor'[v] = {a}
          BY <4>3
        <5>2. Lifecycle!Create(v, a)
          BY <3>1, <4>1, <4>2, <4>3, <5>1 DEF Lifecycle!Create, Lifecycle!Move
        <5> QED BY <2>2, <5>2 DEF Lifecycle!LifecycleNext
      <4>4. CASE UNCHANGED provisionedFor[v]
        <5>1. provisionedFor' = provisionedFor
          BY <2>2, <2>o, <2>t, <2>p, <4>4
        <5>2. CASE state[v] = "unavailable" /\ state'[v] = "provisioning"
          <6>1. Lifecycle!Resume(v)
            BY <3>1, <4>1, <4>2, <5>1, <5>2 DEF Lifecycle!Resume, Lifecycle!Move
          <6> QED BY <2>2, <6>1 DEF Lifecycle!LifecycleNext
        <5>3. CASE /\ state[v] = "provisioning" /\ state'[v] = "active"
                   /\ DoneThrough(v, "activate")
          <6>1. Lifecycle!EnterService(v)
            BY <3>1, <4>1, <4>2, <5>1, <5>3 DEF Lifecycle!EnterService, Lifecycle!Move
          <6> QED BY <2>2, <6>1 DEF Lifecycle!LifecycleNext
        <5>4. CASE /\ state[v] \in {"active", "provisioning"} /\ state'[v] = "unavailable"
                   /\ DoneThrough(v, "activate")
          <6>1. Lifecycle!LeaveService(v)
            BY <3>1, <4>1, <4>2, <5>1, <5>4 DEF Lifecycle!LeaveService, Lifecycle!Move
          <6> QED BY <2>2, <6>1 DEF Lifecycle!LifecycleNext
        <5>5. state'[v] # state[v]
          BY <3>4, <4>4
        <5>6. state[v] = "absent" => provisionedFor[v] = {}
          BY <2>2 DEF IInv, RowTellsTruth
        <5> QED BY <2>2, <4>4, <5>2, <5>3, <5>4, <5>5, <5>6, StateMoves
      <4> QED BY <2>2, <3>4, <4>3, <4>4, StateMoves
    <3> QED BY <3>2, <3>3, <3>4
  <2> QED BY <2>1, <2>2
<1> QED BY Invariance, <1>1, <1>2, PTL DEF Spec, ImplementsLifecycle, Lifecycle!LifecycleSpec
=============================================================================

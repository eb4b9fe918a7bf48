----------------------------- MODULE EnginePool -----------------------------
(***************************************************************************)
(* The engines of a process, and the connections its units of work take    *)
(* from them.                                                              *)
(*                                                                         *)
(*  - storage/pools.py: EnginePool, one engine per database in an LRU;     *)
(*  - storage/backend.py: UnitOfWork, one connection from enter to exit;   *)
(*  - storage/routing.py, storage_source.py: who opens one. The handler of *)
(*    core.token.issue resolves settings, which opens a second unit of     *)
(*    work on the same database while the dispatcher's is open.            *)
(*                                                                         *)
(* External (SQLAlchemy, with max_overflow = 0): an engine's pool hands    *)
(* out at most PoolSize connections, the next caller waits and gives up    *)
(* after the pool's timeout; a returned connection stays open in the pool; *)
(* dispose closes what is in the pool and starts a new one, so that a      *)
(* connection still out is closed when it is returned, and the engine can  *)
(* be used again. An engine that nothing refers to keeps the connections   *)
(* in its pool until Python collects it, some time.                        *)
(***************************************************************************)
EXTENDS Naturals, Sequences, FiniteSets

CONSTANTS Databases, Threads,
    Generations,    \* how many engines of one database there are at a time
    CacheSize,      \* storage.pool_cache_size
    PoolSize        \* storage.pool_max_connections

None == "none"
ASSUME SizeAssumption == CacheSize \in Nat \ {0} /\ PoolSize \in Nat \ {0}
ASSUME NoneAssumption == None \notin Databases
ASSUME ThreadsAssumption == IsFiniteSet(Threads)
ASSUME GenerationsAssumption == Generations \in Nat

Engines == [database : Databases, made : 1 .. Generations]
NoEngine == [database |-> None, made |-> 0]

VARIABLES
    cache,      \* the LRU, least recent first
    idle,       \* the connections lying in each engine's pool
    reused,     \* history: the engines connected to after they were disposed of
    \* threads: next step, the database of the request, the engine it was handed,
    \* the engine it has to dispose of, and its connections, outer first
    pc, want, engine, victim, held

pools == <<cache, idle, reused>>
thread == <<pc, want, engine, victim, held>>
vars == <<pools, thread>>

Init ==
    /\ cache = <<>>
    /\ idle = [e \in Engines |-> 0]
    /\ reused = {}
    /\ pc = [p \in Threads |-> "idle"]
    /\ want = [p \in Threads |-> None]
    /\ engine = [p \in Threads |-> NoEngine]
    /\ victim = [p \in Threads |-> NoEngine]
    /\ held = [p \in Threads |-> <<>>]

Cached == {cache[i] : i \in DOMAIN cache}
Refers(p, e) == e \in {engine[p], victim[p]} \/ \E i \in DOMAIN held[p] : held[p][i].engine = e
Alive == Cached \cup {e \in Engines : \E p \in Threads : Refers(p, e)}

\* The connections out of the engine's present pool.
Live(c, e) == c.engine = e /\ ~c.orphan
Out(e) == {x \in Threads \X (1 .. 2) : x[2] \in DOMAIN held[x[1]] /\ Live(held[x[1]][x[2]], e)}
Busy(e) == Cardinality(Out(e))

At(p, step) == pc[p] = step

\* The units of work a thread has open.
Depth(p) == Len(held[p])

\* The engines that are no longer in the cache and still to be disposed of.
Evicted == {victim[p] : p \in Threads} \ {NoEngine}

\* The names for a new engine: no engine has them, collected ones do not count.
Unused(d) == {e \in Engines : e.database = d /\ e \notin Alive \cup reused /\ idle[e] = 0}

-----------------------------------------------------------------------------
(* EnginePool.engine_for *)

\* Mutant: one engine too many is kept.
OverfullByOne(c) == Len(c) > CacheSize + 1

Overfull(c) == Len(c) > CacheSize

\* move_to_end
MovedToEnd(c, i) ==
    [k \in DOMAIN c |-> IF k < i THEN c[k] ELSE IF k < Len(c) THEN c[k + 1] ELSE c[i]]

\* A hit is moved to the end; a miss is created there, and the least recent leaves
\* a full cache, all under the pool's lock. The engine that left is still to be
\* disposed of.
EngineFor(p, d) ==
    /\ \/ \E i \in DOMAIN cache :
             /\ cache[i].database = d
             /\ cache' = MovedToEnd(cache, i)
             /\ engine' = [engine EXCEPT ![p] = cache[i]]
             /\ victim' = [victim EXCEPT ![p] = NoEngine]
             /\ pc' = [pc EXCEPT ![p] = "connect"]
       \/ /\ \A e \in Cached : e.database # d
          /\ Unused(d) # {}
          /\ LET e == CHOOSE x \in Unused(d) : TRUE
                 filled == Append(cache, e)
             IN  /\ engine' = [engine EXCEPT ![p] = e]
                 /\ IF Overfull(filled)
                    THEN /\ cache' = Tail(filled)
                         /\ victim' = [victim EXCEPT ![p] = Head(filled)]
                         /\ pc' = [pc EXCEPT ![p] = "dispose"]
                    ELSE /\ cache' = filled
                         /\ victim' = [victim EXCEPT ![p] = NoEngine]
                         /\ pc' = [pc EXCEPT ![p] = "connect"]
    /\ UNCHANGED <<idle, reused>>

\* route: a request's unit of work. The registry row names the database.
Route(p, d) ==
    /\ At(p, "idle")
    /\ want' = [want EXCEPT ![p] = d]
    /\ EngineFor(p, d)
    /\ UNCHANGED held

\* PostgresOverrideSource._open: a second one, on the same database, while the
\* first is open.
RouteNested(p) ==
    /\ At(p, "entered")
    /\ Depth(p) = 1
    /\ EngineFor(p, want[p])
    /\ UNCHANGED <<want, held>>

\* Mutant: the engine is only dropped.
DropOnly(p) ==
    /\ At(p, "dispose")
    /\ victim' = [victim EXCEPT ![p] = NoEngine]
    /\ pc' = [pc EXCEPT ![p] = "connect"]
    /\ UNCHANGED <<pools, want, engine, held>>

\* stale.dispose(), outside the lock: whatever others do with that engine.
Dispose(p) ==
    /\ At(p, "dispose")
    /\ idle' = [idle EXCEPT ![victim[p]] = 0]
    /\ held' = [q \in Threads |-> [i \in DOMAIN held[q] |->
                   [held[q][i] EXCEPT !.orphan = @ \/ held[q][i].engine = victim[p]]]]
    /\ victim' = [victim EXCEPT ![p] = NoEngine]
    /\ pc' = [pc EXCEPT ![p] = "connect"]
    /\ UNCHANGED <<cache, reused, want, engine>>

\* dispose_all, when the process shuts down after its last request.
DisposeAll ==
    /\ cache # <<>>
    /\ \A p \in Threads : At(p, "idle")
    /\ cache' = <<>>
    /\ idle' = [e \in Engines |-> IF e \in Cached THEN 0 ELSE idle[e]]
    /\ UNCHANGED <<reused, thread>>

\* Python collects an engine that nothing refers to, with what lies in its pool.
Collect(e) ==
    /\ e \notin Alive
    /\ idle[e] > 0
    /\ idle' = [idle EXCEPT ![e] = 0]
    /\ reused' = reused \ {e}
    /\ UNCHANGED <<cache, thread>>

-----------------------------------------------------------------------------
(* UnitOfWork *)

\* __enter__ gets a connection, from the pool or a new one.
Enter(p) ==
    /\ At(p, "connect")
    /\ Busy(engine[p]) < PoolSize
    /\ idle' = [idle EXCEPT ![engine[p]] = IF @ > 0 THEN @ - 1 ELSE 0]
    /\ held' = [held EXCEPT ![p] = Append(@, [engine |-> engine[p], orphan |-> FALSE])]
    /\ reused' = reused \cup ({engine[p]} \ (Cached \cup Evicted))
    /\ engine' = [engine EXCEPT ![p] = NoEngine]
    /\ pc' = [pc EXCEPT ![p] = IF held[p] = <<>> THEN "entered" ELSE "leaving"]
    /\ UNCHANGED <<cache, want, victim>>

\* Mutant: the pool is waited for without a limit.
WaitsForEver(p) == At(p, "connect") /\ Busy(engine[p]) > PoolSize /\ UNCHANGED vars

\* The pool's timeout: the error leaves __enter__. At the outer unit of work it
\* leaves dispatch too; in a handler it is caught there, and the outer one is
\* rolled back and closed.
EnterTimesOut(p) ==
    /\ At(p, "connect")
    /\ Busy(engine[p]) >= PoolSize
    /\ engine' = [engine EXCEPT ![p] = NoEngine]
    /\ IF held[p] = <<>>
       THEN pc' = [pc EXCEPT ![p] = "idle"] /\ want' = [want EXCEPT ![p] = None]
       ELSE pc' = [pc EXCEPT ![p] = "leaving"] /\ UNCHANGED want
    /\ UNCHANGED <<pools, victim, held>>

\* The handler returns or raises without a second one.
HandlerEnds(p) ==
    /\ At(p, "entered")
    /\ pc' = [pc EXCEPT ![p] = "leaving"]
    /\ UNCHANGED <<pools, want, engine, victim, held>>

\* A connection is returned to its pool, or closed if that is gone.
Returned(c) == IF c.orphan THEN idle ELSE [idle EXCEPT ![c.engine] = @ + 1]

\* Mutant: an exit leaves the outer connection out.
ExitOnce(p) ==
    /\ At(p, "leaving")
    /\ held' = [held EXCEPT ![p] = SubSeq(@, 1, Len(@) - 1)]
    /\ pc' = [pc EXCEPT ![p] = "idle"]
    /\ want' = [want EXCEPT ![p] = None]
    /\ idle' = Returned(held[p][Depth(p)])
    /\ UNCHANGED <<cache, reused, engine, victim>>

\* __exit__, after commit or rollback: the innermost connection is closed.
Exit(p) ==
    /\ At(p, "leaving")
    /\ held' = [held EXCEPT ![p] = SubSeq(@, 1, Len(@) - 1)]
    /\ IF Depth(p) = 1
       THEN pc' = [pc EXCEPT ![p] = "idle"] /\ want' = [want EXCEPT ![p] = None]
       ELSE UNCHANGED <<pc, want>>
    /\ idle' = Returned(held[p][Depth(p)])
    /\ UNCHANGED <<cache, reused, engine, victim>>

Step(p) ==
    \/ RouteNested(p) \/ Dispose(p) \/ Enter(p) \/ EnterTimesOut(p)
    \/ HandlerEnds(p) \/ Exit(p)

Next ==
    \/ \E p \in Threads : Step(p) \/ \E d \in Databases : Route(p, d)
    \/ \E e \in Engines : Collect(e)
    \/ DisposeAll

\* A thread that has begun a request goes on with it.
Spec == Init /\ [][Next]_vars /\ \A p \in Threads : WF_vars(Step(p))

-----------------------------------------------------------------------------
(* Properties *)

Connections == [engine : Engines, orphan : BOOLEAN]

TypeOK ==
    /\ cache \in Seq(Engines)
    /\ idle \in [Engines -> Nat]
    /\ reused \subseteq Engines
    /\ pc \in [Threads -> {"idle", "dispose", "connect", "entered", "leaving"}]
    /\ want \in [Threads -> Databases \cup {None}]
    /\ engine \in [Threads -> Engines \cup {NoEngine}]
    /\ victim \in [Threads -> Engines \cup {NoEngine}]
    /\ held \in [Threads -> Seq(Connections)]

\* What a thread holds at each of its steps: the engine it was handed and its
\* connections are of its request's database, the engine it has to dispose of is
\* of another.
ThreadInOrder(p) ==
    /\ want[p] = None <=> At(p, "idle")
    /\ engine[p] = NoEngine <=> pc[p] \notin {"dispose", "connect"}
    /\ victim[p] = NoEngine <=> ~At(p, "dispose")
    /\ engine[p] # NoEngine => engine[p].database = want[p]
    /\ victim[p] # NoEngine => victim[p].database # want[p]
    /\ \A i \in DOMAIN held[p] : held[p][i].engine.database = want[p]
    /\ At(p, "idle") => Depth(p) = 0
    /\ pc[p] \in {"dispose", "connect"} => Depth(p) <= 1
    /\ At(p, "entered") => Depth(p) = 1
    /\ At(p, "leaving") => Depth(p) = 1 \/ Depth(p) = 2

\* A pool has no more connections than it may.
PoolInOrder(e) == Busy(e) + idle[e] <= PoolSize

\* Whatever is evicted under whom: a thread's connections are to the database of
\* its request, one thread never holds more than two, none when it is done, and no
\* pool has more connections than it may.
ConnectionsInOrder ==
    /\ TypeOK
    /\ \A p \in Threads : ThreadInOrder(p)
    /\ \A e \in Engines : PoolInOrder(e)

\* The cache holds one engine per database and no more than it may; an engine that
\* is being disposed of has left it, so no one is handed it any more.
CacheInOrder ==
    /\ Len(cache) <= CacheSize
    /\ \A i, j \in DOMAIN cache : cache[i].database = cache[j].database => i = j
    /\ \A p \in Threads : victim[p] \notin Cached
    /\ \A p \in Threads : \A i \in DOMAIN held[p] :
          held[p][i].engine \in Cached => ~held[p][i].orphan

\* The engines whose pool has connections, out or lying in it.
Open == {e \in Engines : Busy(e) + idle[e] > 0}

\* What leaves the cache is closed: an engine that is neither there nor about to be
\* disposed of has an open pool only if a thread that was handed it before it was
\* evicted connected to it after it was disposed of.
EvictedIsClosed == Open \subseteq Cached \cup Evicted \cup reused

\* No thread waits for ever: not even when every connection is held by a thread
\* that waits for a second one.
RequestEnds == \A p \in Threads : ~At(p, "idle") ~> At(p, "idle")

=============================================================================

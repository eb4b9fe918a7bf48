-------------------------- MODULE EnginePoolProofs --------------------------
(***************************************************************************)
(* Proofs that the engine pool keeps its caps for any number of databases  *)
(* and threads and any sizes of cache and pool, whatever engine is evicted *)
(* and disposed of under whom.                                             *)
(*                                                                         *)
(* ConnectionsInOrder, CacheInOrder and EvictedIsClosed are inductive      *)
(* together: that a pool never exceeds its size, and that only an engine   *)
(* used after its disposal is open outside the cache, need that an engine  *)
(* handed out is one of the cache or one that nothing refers to, what a    *)
(* thread holds at each of its steps (ThreadInOrder), and that the engine  *)
(* it disposes of has left the cache.                                      *)
(***************************************************************************)
EXTENDS EnginePool, FiniteSetTheorems, SequenceTheorems, TLAPS

IInv == ConnectionsInOrder /\ CacheInOrder /\ EvictedIsClosed

-----------------------------------------------------------------------------
(* Facts about the operators *)

\* No engine stands for the absence of one.
LEMMA NoEngineIsNone == NoEngine \notin Engines
BY DEF NoEngine, Engines

LEMMA IntervalCount == \A n \in Nat : IsFiniteSet(1 .. n) /\ Cardinality(1 .. n) = n
BY FS_Interval

\* The connections out of a pool can be counted.
LEMMA PairsFinite ==
    ASSUME NEW S \in SUBSET (Threads \X (1 .. 2))
    PROVE  IsFiniteSet(S) /\ Cardinality(S) \in Nat
<1>1. IsFiniteSet(1 .. 2)
    BY IntervalCount
<1>2. IsFiniteSet(Threads \X (1 .. 2))
    BY <1>1, ThreadsAssumption, FS_Product
<1>3. IsFiniteSet(S)
    BY <1>2, FS_Subset
<1> QED BY <1>3, FS_CardinalityType

LEMMA OutFinite ==
    ASSUME NEW e
    PROVE  /\ IsFiniteSet(Out(e)) /\ Busy(e) \in Nat
           /\ IsFiniteSet(Out(e)') /\ Busy(e)' \in Nat
<1>1. Out(e) \in SUBSET (Threads \X (1 .. 2)) /\ Out(e)' \in SUBSET (Threads \X (1 .. 2))
    BY DEF Out
<1> QED BY <1>1, PairsFinite DEF Busy

\* Where move_to_end takes the element at each place from, and where it puts it.
From(n, i, k) == IF k < i THEN k ELSE IF k < n THEN k + 1 ELSE i
To(n, i, k) == IF k < i THEN k ELSE IF k = i THEN n ELSE k - 1

\* The two are inverse to each other.
LEMMA Rotation ==
    ASSUME NEW n \in Nat, NEW i \in 1 .. n, NEW k \in 1 .. n
    PROVE  /\ From(n, i, k) \in 1 .. n /\ To(n, i, From(n, i, k)) = k
           /\ To(n, i, k) \in 1 .. n /\ From(n, i, To(n, i, k)) = k
BY DEF From, To

\* move_to_end permutes the cache.
LEMMA MovedToEndPermutes ==
    ASSUME NEW S, NEW c \in Seq(S), NEW i \in DOMAIN c
    PROVE  /\ MovedToEnd(c, i) \in Seq(S)
           /\ Len(MovedToEnd(c, i)) = Len(c) /\ DOMAIN MovedToEnd(c, i) = DOMAIN c
           /\ \A k \in DOMAIN c :
                 /\ From(Len(c), i, k) \in DOMAIN c /\ To(Len(c), i, From(Len(c), i, k)) = k
                 /\ MovedToEnd(c, i)[k] = c[From(Len(c), i, k)]
           /\ \A k \in DOMAIN c :
                 To(Len(c), i, k) \in DOMAIN c /\ c[k] = MovedToEnd(c, i)[To(Len(c), i, k)]
<1> DEFINE m == MovedToEnd(c, i)
<1>1. Len(c) \in Nat /\ DOMAIN c = 1 .. Len(c) /\ \A k \in 1 .. Len(c) : c[k] \in S
    BY LenProperties, ElementOfSeq
<1>2. m = [k \in 1 .. Len(c) |-> c[From(Len(c), i, k)]]
    BY <1>1 DEF MovedToEnd, From
<1>3. \A k \in 1 .. Len(c) :
        /\ From(Len(c), i, k) \in 1 .. Len(c) /\ To(Len(c), i, From(Len(c), i, k)) = k
        /\ To(Len(c), i, k) \in 1 .. Len(c) /\ From(Len(c), i, To(Len(c), i, k)) = k
    BY <1>1, Rotation
<1>4. m \in Seq(S) /\ Len(m) = Len(c) /\ DOMAIN m = DOMAIN c
    BY <1>1, <1>2, <1>3
<1>5. \A k \in 1 .. Len(c) : m[k] = c[From(Len(c), i, k)] /\ c[k] = m[To(Len(c), i, k)]
    BY <1>2, <1>3
<1> QED BY <1>1, <1>3, <1>4, <1>5

\* What the types of the state say of its parts.
LEMMA Parts ==
    ASSUME IInv
    PROVE  /\ Len(cache) \in Nat /\ DOMAIN cache = 1 .. Len(cache)
           /\ \A i \in DOMAIN cache : cache[i] \in Engines
           /\ Cached \subseteq Engines /\ Alive \subseteq Engines
           /\ \A p \in Threads :
                 /\ Depth(p) \in Nat /\ Depth(p) <= 2 /\ DOMAIN held[p] = 1 .. Depth(p)
                 /\ held[p] \in Seq(Connections)
                 /\ \A i \in DOMAIN held[p] : held[p][i] \in Connections
<1>1. cache \in Seq(Engines) /\ \A p \in Threads : held[p] \in Seq(Connections)
    BY DEF IInv, ConnectionsInOrder, TypeOK
<1>2. Len(cache) \in Nat /\ DOMAIN cache = 1 .. Len(cache) /\ \A i \in DOMAIN cache : cache[i] \in Engines
    BY <1>1, LenProperties, ElementOfSeq
<1>3. ASSUME NEW p \in Threads
      PROVE  /\ Depth(p) \in Nat /\ DOMAIN held[p] = 1 .. Depth(p)
             /\ \A i \in DOMAIN held[p] : held[p][i] \in Connections
    BY <1>1, LenProperties, ElementOfSeq DEF Depth
<1>4. ASSUME NEW p \in Threads
      PROVE  Depth(p) <= 2
    <2>1. pc[p] \in {"idle", "dispose", "connect", "entered", "leaving"} /\ ThreadInOrder(p)
        BY DEF IInv, ConnectionsInOrder, TypeOK
    <2>2. Depth(p) \in Nat
        BY <1>3
    <2> QED BY <2>1, <2>2 DEF ThreadInOrder, At
<1> QED BY <1>1, <1>2, <1>3, <1>4 DEF Cached, Alive

\* A pool is open when one of its connections is out or one lies in it.
LEMMA OpenMeans ==
    /\ TypeOK => \A e \in Engines : e \in Open <=> Out(e) # {} \/ idle[e] > 0
    /\ TypeOK' => \A e \in Engines : e \in Open' <=> Out(e)' # {} \/ idle'[e] > 0
<1>1. ASSUME NEW S \in SUBSET (Threads \X (1 .. 2))
      PROVE  Cardinality(S) \in Nat /\ (S # {} <=> Cardinality(S) > 0)
    BY PairsFinite, FS_EmptySet
<1>2. ASSUME NEW e
      PROVE  /\ Busy(e) \in Nat /\ (Out(e) # {} <=> Busy(e) > 0)
             /\ Busy(e)' \in Nat /\ (Out(e)' # {} <=> Busy(e)' > 0)
    <2>1. Out(e) \in SUBSET (Threads \X (1 .. 2)) /\ Out(e)' \in SUBSET (Threads \X (1 .. 2))
        BY DEF Out
    <2> QED BY <1>1, <2>1 DEF Busy
<1>3. TypeOK => \A e \in Engines : idle[e] \in Nat
    BY DEF TypeOK
<1>4. TypeOK' => \A e \in Engines : idle'[e] \in Nat
    BY DEF TypeOK
<1> QED BY <1>2, <1>3, <1>4 DEF Open

-----------------------------------------------------------------------------
(* engine_for *)

\* What engine_for does to the cache, hit or miss: x is handed out and is in the
\* cache, v has left it for x.
Handed(p, d, x, v) ==
    /\ x \in Engines /\ x.database = d /\ (x \in Cached \/ x \notin Alive)
    /\ v = NoEngine \/ (v \in Cached /\ v.database # d)
    /\ cache' \in Seq(Engines) /\ Len(cache') <= CacheSize
    /\ \A i, j \in DOMAIN cache' : cache'[i].database = cache'[j].database => i = j
    /\ Cached' = (Cached \ {v}) \cup {x}
    /\ engine' = [engine EXCEPT ![p] = x]
    /\ victim' = [victim EXCEPT ![p] = v]
    /\ pc' = [pc EXCEPT ![p] = IF v = NoEngine THEN "connect" ELSE "dispose"]
    /\ UNCHANGED <<idle, reused>>

LEMMA EngineForHit ==
    ASSUME IInv, NEW p \in Threads, NEW d \in Databases, EngineFor(p, d),
           NEW i \in DOMAIN cache, cache[i].database = d
    PROVE  Handed(p, d, cache[i], NoEngine)
<1>1. cache \in Seq(Engines) /\ DOMAIN cache = 1 .. Len(cache) /\ cache[i] \in Engines
    BY Parts DEF IInv, ConnectionsInOrder, TypeOK
<1>2. /\ Len(cache) <= CacheSize
      /\ \A j, k \in DOMAIN cache : cache[j].database = cache[k].database => j = k
    BY DEF IInv, CacheInOrder
<1>3. cache[i] \in Cached
    BY DEF Cached
<1>4. /\ cache' = MovedToEnd(cache, i) /\ engine' = [engine EXCEPT ![p] = cache[i]]
      /\ victim' = [victim EXCEPT ![p] = NoEngine] /\ pc' = [pc EXCEPT ![p] = "connect"]
      /\ UNCHANGED <<idle, reused>>
    BY <1>2, <1>3 DEF EngineFor
<1> DEFINE from(k) == From(Len(cache), i, k)
           to(k) == To(Len(cache), i, k)
<1>5. /\ cache' \in Seq(Engines) /\ Len(cache') = Len(cache) /\ DOMAIN cache' = DOMAIN cache
      /\ \A k \in DOMAIN cache :
            from(k) \in DOMAIN cache /\ to(from(k)) = k /\ cache'[k] = cache[from(k)]
      /\ \A k \in DOMAIN cache : to(k) \in DOMAIN cache /\ cache[k] = cache'[to(k)]
    BY <1>1, <1>4, MovedToEndPermutes
<1> HIDE DEF from, to
<1>6. Cached' = (Cached \ {NoEngine}) \cup {cache[i]}
    <2>1. Cached' = Cached
        BY <1>5 DEF Cached
    <2> QED BY <1>3, <2>1, Parts, NoEngineIsNone
<1>7. \A j, k \in DOMAIN cache' : cache'[j].database = cache'[k].database => j = k
    <2> SUFFICES ASSUME NEW j \in DOMAIN cache, NEW k \in DOMAIN cache,
                        cache'[j].database = cache'[k].database
                 PROVE  j = k
        BY <1>5
    <2>1. from(j) = from(k)
        BY <1>2, <1>5
    <2> QED BY <1>5, <2>1
<1> QED BY <1>1, <1>2, <1>3, <1>4, <1>5, <1>6, <1>7 DEF Handed

LEMMA EngineForMiss ==
    ASSUME IInv, NEW p \in Threads, NEW d \in Databases, EngineFor(p, d),
           pc[p] \in {"idle", "entered"}, \A e \in Cached : e.database # d
    PROVE  \E x, v : Handed(p, d, x, v)
<1> DEFINE x == CHOOSE y \in Unused(d) : TRUE
           filled == Append(cache, x)
<1>1. x \in Engines /\ x.database = d /\ x \notin Alive
    <2>1. Unused(d) # {}
        BY DEF EngineFor, Cached
    <2>2. x \in Unused(d)
        BY <2>1
    <2> QED BY <2>2 DEF Unused
<1>2. /\ engine' = [engine EXCEPT ![p] = x] /\ UNCHANGED <<idle, reused>>
      /\ IF Overfull(filled)
         THEN /\ cache' = Tail(filled)
              /\ victim' = [victim EXCEPT ![p] = Head(filled)]
              /\ pc' = [pc EXCEPT ![p] = "dispose"]
         ELSE /\ cache' = filled
              /\ victim' = [victim EXCEPT ![p] = NoEngine]
              /\ pc' = [pc EXCEPT ![p] = "connect"]
    BY DEF EngineFor, Cached
<1> HIDE DEF x
<1> DEFINE n == Len(cache)
<1>3. cache \in Seq(Engines) /\ n \in Nat /\ DOMAIN cache = 1 .. n
    BY Parts DEF IInv, ConnectionsInOrder, TypeOK
<1>4. /\ n <= CacheSize /\ CacheSize \in Nat \ {0}
      /\ \A j, k \in DOMAIN cache : cache[j].database = cache[k].database => j = k
    BY SizeAssumption DEF IInv, CacheInOrder
<1>5. /\ filled \in Seq(Engines) /\ Len(filled) = n + 1 /\ filled # <<>>
      /\ DOMAIN filled = 1 .. (n + 1)
      /\ \A k \in 1 .. n : filled[k] = cache[k]
      /\ filled[n + 1] = x
    BY <1>1, <1>3, AppendProperties, LenProperties
<1> HIDE DEF n
<1>6. \A k \in 1 .. n : cache[k] \in Cached /\ cache[k].database # d
    BY <1>3 DEF Cached
<1>7. \A j, k \in DOMAIN filled : filled[j].database = filled[k].database => j = k
    <2> SUFFICES ASSUME NEW j \in 1 .. (n + 1), NEW k \in 1 .. (n + 1),
                        filled[j].database = filled[k].database
                 PROVE  j = k
        BY <1>5
    <2>1. CASE j = n + 1 /\ k # n + 1
        BY <1>1, <1>3, <1>5, <1>6, <2>1
    <2>2. CASE k = n + 1 /\ j # n + 1
        BY <1>1, <1>3, <1>5, <1>6, <2>2
    <2>3. CASE j # n + 1 /\ k # n + 1
        <3>1. j \in DOMAIN cache /\ k \in DOMAIN cache
            BY <1>3, <2>3
        <3> QED BY <1>3, <1>4, <1>5, <3>1
    <2> QED BY <2>1, <2>2, <2>3
<1>8. {filled[k] : k \in DOMAIN filled} = Cached \cup {x}
    <2>1. \A k \in DOMAIN filled : filled[k] \in Cached \cup {x}
        BY <1>3, <1>5, <1>6
    <2>2. \A e \in Cached : \E k \in DOMAIN filled : filled[k] = e
        BY <1>3, <1>5 DEF Cached
    <2>3. \E k \in DOMAIN filled : filled[k] = x
        BY <1>3, <1>5
    <2> HIDE DEF filled
    <2> QED BY <2>1, <2>2, <2>3
<1> HIDE DEF filled
<1>9. CASE ~Overfull(filled)
    <2>1. Len(filled) <= CacheSize
        BY <1>3, <1>4, <1>5, <1>9 DEF Overfull
    <2>2. NoEngine \notin Cached
        BY Parts, NoEngineIsNone
    <2>3. Cached' = (Cached \ {NoEngine}) \cup {x}
        BY <1>2, <1>8, <1>9, <2>2 DEF Cached
    <2>4. Handed(p, d, x, NoEngine)
        BY <1>1, <1>2, <1>5, <1>7, <1>9, <2>1, <2>3 DEF Handed
    <2> QED BY <2>4
<1>10. CASE Overfull(filled)
    <2>1. n = CacheSize /\ n >= 1
        BY <1>3, <1>4, <1>5, <1>10 DEF Overfull
    <2>2. /\ cache' \in Seq(Engines) /\ Len(cache') = n /\ DOMAIN cache' = 1 .. n
          /\ \A k \in 1 .. n : cache'[k] = filled[k + 1]
        <3>1. cache' \in Seq(Engines) /\ Len(cache') = (n + 1) - 1 /\ DOMAIN cache' = 1 .. Len(cache')
              /\ \A k \in 1 .. Len(cache') : cache'[k] = filled[k + 1]
            <4>1. /\ Tail(filled) \in Seq(Engines) /\ Len(Tail(filled)) = Len(filled) - 1
                  /\ \A k \in 1 .. Len(Tail(filled)) : Tail(filled)[k] = filled[k + 1]
                BY <1>5, HeadTailProperties
            <4>2. cache' = Tail(filled)
                BY <1>2, <1>10
            <4> QED BY <1>5, <4>1, <4>2, LenProperties
        <3>2. (n + 1) - 1 = n
            BY <1>3
        <3> QED BY <3>1, <3>2
    <2>3. Head(filled) = filled[1] /\ filled[1] = cache[1] /\ 1 \in DOMAIN cache
        BY <1>3, <1>5, <2>1
    <2>4. cache[1] \in Cached /\ cache[1].database # d
        BY <1>6, <2>1, <1>3
    <2>5. \A j, k \in DOMAIN cache' : cache'[j].database = cache'[k].database => j = k
        <3> SUFFICES ASSUME NEW j \in 1 .. n, NEW k \in 1 .. n,
                            filled[j + 1].database = filled[k + 1].database
                     PROVE  j = k
            BY <2>2
        <3>1. j + 1 \in DOMAIN filled /\ k + 1 \in DOMAIN filled
            BY <1>3, <1>5
        <3>2. j + 1 = k + 1
            BY <1>7, <3>1
        <3> QED BY <3>2
    <2>6. Cached' = (Cached \ {cache[1]}) \cup {x}
        <3>1. \A k \in DOMAIN cache' : cache'[k] \in Cached \cup {x} /\ cache'[k] # cache[1]
            <4> SUFFICES ASSUME NEW k \in 1 .. n
                         PROVE  filled[k + 1] \in Cached \cup {x} /\ filled[k + 1] # filled[1]
                BY <2>2, <2>3
            <4>1. k + 1 \in DOMAIN filled /\ 1 \in DOMAIN filled /\ k + 1 # 1
                BY <1>3, <1>5
            <4>2. filled[k + 1] \in {filled[i] : i \in DOMAIN filled}
                BY <4>1
            <4> QED BY <1>7, <1>8, <4>1, <4>2
        <3>2. ASSUME NEW e \in (Cached \ {cache[1]}) \cup {x}
              PROVE  \E k \in DOMAIN cache' : cache'[k] = e
            <4>1. e \in {filled[i] : i \in DOMAIN filled} /\ e # filled[1]
                BY <1>8, <2>3, <2>4, <1>1
            <4>2. PICK i \in DOMAIN filled : filled[i] = e
                BY <4>1
            <4>3. i # 1
                BY <4>1, <4>2
            <4>4. i - 1 \in 1 .. n /\ (i - 1) + 1 = i
                BY <1>3, <1>5, <4>2, <4>3
            <4> QED BY <2>2, <4>2, <4>4
        <3>3. x # cache[1]
            BY <1>1, <2>4
        <3> QED BY <3>1, <3>2, <3>3 DEF Cached
    <2>7. cache[1] # NoEngine
        BY <2>3, Parts, NoEngineIsNone
    <2>8. Handed(p, d, x, cache[1])
        BY <1>1, <1>2, <1>4, <1>10, <2>1, <2>2, <2>3, <2>4, <2>5, <2>6, <2>7 DEF Handed
    <2> QED BY <2>8
<1> QED BY <1>9, <1>10

\* Whoever asks, the pool hands out an engine as Handed says.
LEMMA EngineForHands ==
    ASSUME IInv, NEW p \in Threads, NEW d \in Databases, EngineFor(p, d),
           pc[p] \in {"idle", "entered"}
    PROVE  \E x, v : Handed(p, d, x, v)
<1>1. CASE \E i \in DOMAIN cache : cache[i].database = d
    BY <1>1, EngineForHit
<1>2. CASE \A i \in DOMAIN cache : cache[i].database # d
    <2>1. \A e \in Cached : e.database # d
        BY <1>2 DEF Cached
    <2> QED BY <2>1, EngineForMiss
<1> QED BY <1>1, <1>2

\* An engine handed out does not disturb anyone: it is one of the cache, or one
\* that nothing refers to.
LEMMA EngineForKeeps ==
    ASSUME IInv, NEW p \in Threads, NEW d \in Databases, EngineFor(p, d),
           pc[p] \in {"idle", "entered"}, At(p, "entered") => want[p] = d,
           want' = [want EXCEPT ![p] = d], UNCHANGED held
    PROVE  IInv'
<1>1. PICK x, v : Handed(p, d, x, v)
    BY EngineForHands
<1>2. /\ x \in Engines /\ x # NoEngine /\ x.database = d /\ (x \in Cached \/ x \notin Alive)
      /\ v \in Engines \cup {NoEngine} /\ v # x /\ (v # NoEngine => v.database # d /\ v \in Cached)
    BY <1>1, Parts, NoEngineIsNone DEF Handed
<1>3. TypeOK /\ ThreadInOrder(p) /\ engine[p] = NoEngine /\ victim[p] = NoEngine
    BY DEF IInv, ConnectionsInOrder, ThreadInOrder, At
<1>4. TypeOK'
    BY <1>1, <1>2, <1>3 DEF TypeOK, Handed
<1>5. ASSUME NEW q \in Threads
      PROVE  ThreadInOrder(q)'
    <2>1. ThreadInOrder(q)
        BY DEF IInv, ConnectionsInOrder
    <2>2. Depth(q)' = Depth(q) /\ DOMAIN held'[q] = 1 .. Depth(q) /\ Depth(q) \in Nat
        BY Parts DEF Depth
    <2>3. CASE q # p
        <3>1. /\ pc'[q] = pc[q] /\ want'[q] = want[q] /\ engine'[q] = engine[q]
              /\ victim'[q] = victim[q] /\ held'[q] = held[q]
            BY <1>1, <1>3, <2>3 DEF TypeOK, Handed
        <3> QED BY <2>1, <2>2, <3>1 DEF ThreadInOrder, At
    <2>4. CASE q = p
        <3>1. /\ pc'[p] = IF v = NoEngine THEN "connect" ELSE "dispose"
              /\ want'[p] = d /\ engine'[p] = x /\ victim'[p] = v /\ held'[p] = held[p]
            BY <1>1, <1>3 DEF TypeOK, Handed
        <3>2. d # None
            BY NoneAssumption
        <3>3. \A i \in DOMAIN held[p] : held[p][i].engine.database = d
            BY <1>3, <2>2, <2>4 DEF ThreadInOrder, At
        <3>4. Depth(p) <= 1
            BY <1>3, <2>2, <2>4 DEF ThreadInOrder, At
        <3> QED BY <1>2, <2>2, <2>4, <3>1, <3>2, <3>3, <3>4 DEF ThreadInOrder, At
    <2> QED BY <2>3, <2>4
<1>6. \A q \in Threads, e \in Engines : Refers(q, e) => e \in Alive
    BY DEF Alive
<1>7. EvictedIsClosed'
    <2>1. Open' = Open
        BY <1>1 DEF Open, Busy, Out, Handed
    <2>2. Evicted \cup {v} \subseteq Evicted' \cup {NoEngine}
        <3>1. victim'[p] = v /\ \A q \in Threads : q # p => victim'[q] = victim[q]
            BY <1>1, <1>3 DEF Handed, TypeOK
        <3>2. \A q \in Threads : victim[q] = NoEngine \/ victim'[q] = victim[q]
            BY <1>3, <3>1
        <3> QED BY <3>1, <3>2 DEF Evicted
    <2>3. Cached \subseteq Cached' \cup {v} /\ reused' = reused
        BY <1>1 DEF Handed
    <2>4. NoEngine \notin Open
        BY NoEngineIsNone DEF Open
    <2> QED BY <2>1, <2>2, <2>3, <2>4 DEF IInv, EvictedIsClosed
<1>8. ASSUME NEW e \in Engines
      PROVE  PoolInOrder(e)'
    <2>1. Busy(e)' = Busy(e)
        BY DEF Busy, Out
    <2>2. PoolInOrder(e)
        BY DEF IInv, ConnectionsInOrder
    <2>3. idle' = idle
        BY <1>1 DEF Handed
    <2> QED BY <2>1, <2>2, <2>3 DEF PoolInOrder
<1>9. CacheInOrder'
    <2>1. ASSUME NEW q \in Threads
          PROVE  victim'[q] \notin Cached'
        <3>1. CASE q = p
            BY <1>1, <1>2, <1>3, <3>1, Parts, NoEngineIsNone DEF Handed, TypeOK
        <3>2. CASE q # p
            <4>1. victim'[q] = victim[q] /\ victim[q] \notin Cached
                BY <1>1, <1>3, <3>2 DEF Handed, TypeOK, IInv, CacheInOrder
            <4>2. victim[q] # x
                <5>1. victim[q] = NoEngine \/ victim[q] \in Alive
                    BY <1>3, <1>6 DEF TypeOK, Refers
                <5> QED BY <1>2, <4>1, <5>1
            <4> QED BY <1>1, <4>1, <4>2 DEF Handed
        <3> QED BY <3>1, <3>2
    <2>2. ASSUME NEW q \in Threads, NEW i \in DOMAIN held[q], held[q][i].engine \in Cached'
          PROVE  ~held[q][i].orphan
        <3>1. held[q][i].engine \in Engines /\ Refers(q, held[q][i].engine)
            BY Parts DEF Connections, Refers
        <3>2. held[q][i].engine \in Cached
            BY <1>1, <1>2, <1>6, <2>2, <3>1 DEF Handed
        <3> QED BY <3>2 DEF IInv, CacheInOrder
    <2>3. /\ Len(cache') <= CacheSize
          /\ \A i, j \in DOMAIN cache' : cache'[i].database = cache'[j].database => i = j
        BY <1>1 DEF Handed
    <2> QED BY <2>1, <2>2, <2>3 DEF CacheInOrder
<1> QED BY <1>4, <1>5, <1>7, <1>8, <1>9 DEF IInv, ConnectionsInOrder

\* A request's own unit of work.
LEMMA RouteKeeps ==
    ASSUME IInv, NEW p \in Threads, NEW d \in Databases, Route(p, d)
    PROVE  IInv'
BY EngineForKeeps DEF Route, At

\* The second one is of the same database.
LEMMA RouteNestedKeeps ==
    ASSUME IInv, NEW p \in Threads, RouteNested(p)
    PROVE  IInv'
<1>1. want[p] \in Databases /\ want' = [want EXCEPT ![p] = want[p]]
    BY DEF IInv, ConnectionsInOrder, TypeOK, ThreadInOrder, RouteNested, At
<1> QED BY <1>1, EngineForKeeps DEF RouteNested, At

-----------------------------------------------------------------------------
(* Disposal and the units of work *)

\* What is out of the disposed pool is an orphan and counts no more; nobody else's
\* pool is touched.
LEMMA DisposeKeeps ==
    ASSUME IInv, NEW p \in Threads, Dispose(p)
    PROVE  IInv'
<1> DEFINE v == victim[p]
<1>1. TypeOK /\ v \in Engines /\ v \notin Cached
    BY DEF IInv, ConnectionsInOrder, CacheInOrder, TypeOK, ThreadInOrder, Dispose, At
<1>2. ASSUME NEW q \in Threads
      PROVE  /\ held'[q] = [i \in DOMAIN held[q] |->
                    [held[q][i] EXCEPT !.orphan = @ \/ held[q][i].engine = v]]
             /\ DOMAIN held'[q] = DOMAIN held[q]
             /\ \A i \in DOMAIN held[q] :
                   /\ held'[q][i] \in Connections /\ held'[q][i].engine = held[q][i].engine
                   /\ held'[q][i].orphan <=> (held[q][i].orphan \/ held[q][i].engine = v)
    BY Parts DEF Dispose, Connections
<1>3. ASSUME NEW q \in Threads
      PROVE  held'[q] \in Seq(Connections) /\ Depth(q)' = Depth(q)
    <2>1. held'[q] \in [1 .. Depth(q) -> Connections] /\ Depth(q) \in Nat
        <3>1. DOMAIN held[q] = 1 .. Depth(q) /\ Depth(q) \in Nat
            BY Parts
        <3> QED BY <1>2, <3>1
    <2> QED BY <2>1 DEF Depth
<1>4. TypeOK'
    <2>1. held' \in [Threads -> Seq(Connections)]
        BY <1>3 DEF Dispose
    <2> QED BY <1>1, <2>1 DEF TypeOK, Dispose
<1>5. ASSUME NEW q \in Threads
      PROVE  ThreadInOrder(q)'
    <2>1. ThreadInOrder(q) /\ ThreadInOrder(p)
        BY DEF IInv, ConnectionsInOrder
    <2>2. \A i \in DOMAIN held'[q] : held'[q][i].engine.database = want[q]
        <3> SUFFICES ASSUME NEW i \in DOMAIN held[q]
                     PROVE  held'[q][i].engine.database = want[q]
            BY <1>2
        <3>1. held[q][i].engine.database = want[q]
            BY <2>1 DEF ThreadInOrder
        <3> QED BY <1>2, <3>1
    <2>3. /\ want'[q] = want[q] /\ engine'[q] = engine[q]
          /\ victim'[q] = IF q = p THEN NoEngine ELSE victim[q]
          /\ pc'[q] = IF q = p THEN "connect" ELSE pc[q]
        BY <1>1 DEF TypeOK, Dispose
    <2> QED BY <1>3, <2>1, <2>2, <2>3 DEF ThreadInOrder, Dispose, At
<1>6. ASSUME NEW e \in Engines
      PROVE  PoolInOrder(e)' /\ (e \in Open' => e # v /\ e \in Open)
    <2>1. idle'[e] = IF e = v THEN 0 ELSE idle[e]
        BY <1>1 DEF TypeOK, Dispose
    <2>2. PoolInOrder(e)
        BY DEF IInv, ConnectionsInOrder
    <2>3. CASE e = v
        <3>1. Out(e)' = {}
            <4> SUFFICES ASSUME NEW q \in Threads, NEW i \in 1 .. 2, i \in DOMAIN held'[q],
                                Live(held'[q][i], e)
                         PROVE  FALSE
                BY DEF Out
            <4> QED BY <1>2, <2>3, Parts DEF Live
        <3>2. Busy(e)' = 0
            BY <3>1, FS_EmptySet DEF Busy
        <3> QED BY <2>1, <2>3, <3>2, SizeAssumption DEF PoolInOrder, Open
    <2>4. CASE e # v
        <3>1. Out(e)' = Out(e)
            <4>1. ASSUME NEW q \in Threads, NEW i \in 1 .. 2
                  PROVE  (i \in DOMAIN held'[q] /\ Live(held'[q][i], e))
                         <=> (i \in DOMAIN held[q] /\ Live(held[q][i], e))
                BY <1>2, <2>4, Parts DEF Live
            <4> QED BY <4>1 DEF Out
        <3>2. Busy(e)' = Busy(e)
            BY <3>1 DEF Busy
        <3> QED BY <2>1, <2>2, <2>4, <3>2 DEF PoolInOrder, Open
    <2> QED BY <2>3, <2>4
<1>7. CacheInOrder'
    <2>1. cache' = cache /\ Cached' = Cached
        BY DEF Cached, Dispose
    <2>2. ASSUME NEW q \in Threads
          PROVE  victim'[q] \notin Cached
        BY <1>1, Parts, NoEngineIsNone DEF TypeOK, Dispose, IInv, CacheInOrder
    <2>3. ASSUME NEW q \in Threads, NEW i \in DOMAIN held'[q], held'[q][i].engine \in Cached
          PROVE  ~held'[q][i].orphan
        <3>1. i \in DOMAIN held[q] /\ held[q][i].engine \in Cached
            BY <1>2, <2>3
        <3>2. ~held[q][i].orphan /\ held[q][i].engine # v
            BY <1>1, <3>1 DEF IInv, CacheInOrder
        <3> QED BY <1>2, <3>1, <3>2
    <2> QED BY <2>1, <2>2, <2>3 DEF IInv, CacheInOrder
<1>8. EvictedIsClosed'
    <2>1. \A e \in Open' : e \in Open /\ e # v
        BY <1>6 DEF Open
    <2>2. \A q \in Threads : victim[q] = v \/ victim'[q] = victim[q]
        BY <1>1 DEF TypeOK, Dispose
    <2>3. Evicted \subseteq Evicted' \cup {v}
        BY <2>2 DEF Evicted
    <2>4. Cached' = Cached /\ reused' = reused
        BY DEF Cached, Dispose
    <2> QED BY <2>1, <2>3, <2>4 DEF IInv, EvictedIsClosed
<1> QED BY <1>4, <1>5, <1>6, <1>7, <1>8 DEF IInv, ConnectionsInOrder

\* Every thread is idle and holds nothing: what is closed is all there is.
LEMMA DisposeAllKeeps ==
    ASSUME IInv, DisposeAll
    PROVE  IInv'
<1>1. TypeOK /\ UNCHANGED <<reused, pc, want, engine, victim, held>>
    BY DEF IInv, ConnectionsInOrder, DisposeAll, thread
<1>2. cache' = <<>> /\ Len(cache') = 0 /\ DOMAIN cache' = {} /\ Cached' = {}
    BY DEF DisposeAll, Cached
<1>3. idle' \in [Engines -> Nat] /\ \A e \in Engines : idle'[e] = IF e \in Cached THEN 0 ELSE idle[e]
    BY <1>1 DEF DisposeAll, TypeOK
<1>4. TypeOK'
    BY <1>1, <1>2, <1>3 DEF TypeOK
<1>5. ASSUME NEW q \in Threads
      PROVE  ThreadInOrder(q)' /\ DOMAIN held[q] = {}
    <2>1. ThreadInOrder(q) /\ Depth(q)' = Depth(q) /\ At(q, "idle")
        BY <1>1 DEF IInv, ConnectionsInOrder, Depth, DisposeAll
    <2>2. DOMAIN held[q] = 1 .. Depth(q) /\ Depth(q) = 0
        BY <2>1, Parts DEF ThreadInOrder
    <2> QED BY <1>1, <2>1, <2>2 DEF ThreadInOrder, At
<1>6. ASSUME NEW e
      PROVE  Out(e)' = {} /\ Out(e) = {} /\ Busy(e)' = 0 /\ Busy(e) = 0
    <2>1. Out(e) = {} /\ Out(e)' = {}
        BY <1>1, <1>5 DEF Out
    <2> QED BY <2>1, FS_EmptySet DEF Busy
<1>7. ASSUME NEW e \in Engines
      PROVE  PoolInOrder(e)'
    <2>1. PoolInOrder(e) /\ idle[e] \in Nat /\ PoolSize \in Nat
        BY <1>1, SizeAssumption DEF IInv, ConnectionsInOrder, TypeOK
    <2> QED BY <1>3, <1>6, <2>1 DEF PoolInOrder
<1>8. CacheInOrder'
    BY <1>1, <1>2, SizeAssumption DEF CacheInOrder
<1>9. EvictedIsClosed'
    <2>1. \A e \in Open' : e \in Open /\ e \notin Cached
        BY <1>1, <1>3, <1>6 DEF Open, TypeOK
    <2>2. Evicted' = Evicted
        BY <1>1 DEF Evicted
    <2> QED BY <1>1, <2>1, <2>2 DEF IInv, EvictedIsClosed
<1> QED BY <1>4, <1>5, <1>7, <1>8, <1>9 DEF IInv, ConnectionsInOrder

\* What is collected has no connection out.
LEMMA CollectKeeps ==
    ASSUME IInv, NEW x \in Engines, Collect(x)
    PROVE  IInv'
<1>1. /\ TypeOK /\ UNCHANGED <<cache, pc, want, engine, victim, held>>
      /\ x \notin Alive /\ idle' = [idle EXCEPT ![x] = 0] /\ reused' = reused \ {x}
    BY DEF IInv, ConnectionsInOrder, Collect, thread
<1>2. TypeOK'
    BY <1>1 DEF TypeOK
<1>3. ASSUME NEW q \in Threads
      PROVE  ThreadInOrder(q)'
    <2>1. ThreadInOrder(q) /\ Depth(q)' = Depth(q)
        BY <1>1 DEF IInv, ConnectionsInOrder, Depth
    <2> QED BY <1>1, <2>1 DEF ThreadInOrder, At
<1>4. ASSUME NEW e
      PROVE  Out(e)' = Out(e) /\ Busy(e)' = Busy(e)
    BY <1>1 DEF Busy, Out
<1>5. ASSUME NEW e \in Engines
      PROVE  PoolInOrder(e)'
    <2>1. PoolInOrder(e) /\ idle[e] \in Nat /\ PoolSize \in Nat /\ Busy(e) \in Nat
        BY <1>1, SizeAssumption, OutFinite DEF IInv, ConnectionsInOrder, TypeOK
    <2>2. idle'[e] = idle[e] \/ idle'[e] = 0
        BY <1>1 DEF TypeOK
    <2> QED BY <1>4, <2>1, <2>2 DEF PoolInOrder
<1>6. Cached' = Cached /\ Evicted' = Evicted
    BY <1>1 DEF Cached, Evicted
<1>7. CacheInOrder'
    BY <1>1, <1>6 DEF IInv, CacheInOrder
<1>8. EvictedIsClosed'
    <2>1. Out(x) = {}
        BY <1>1 DEF Out, Live, Alive, Refers
    <2>2. \A e \in Engines : e \in Open' => e \in Open /\ e # x
        BY <1>1, <1>2, <1>4, <2>1, OpenMeans DEF TypeOK
    <2>3. \A e \in Open' : e \in Engines
        BY DEF Open
    <2> QED BY <1>1, <1>6, <2>2, <2>3 DEF IInv, EvictedIsClosed
<1> QED BY <1>2, <1>3, <1>5, <1>7, <1>8 DEF IInv, ConnectionsInOrder

\* The connection is taken from a pool that has room.
LEMMA EnterKeeps ==
    ASSUME IInv, NEW p \in Threads, Enter(p)
    PROVE  IInv'
<1>0. PICK x : x = engine[p]
    OBVIOUS
<1> DEFINE n == Depth(p)
           c == [engine |-> x, orphan |-> FALSE]
<1>1. /\ TypeOK /\ ThreadInOrder(p) /\ x = engine[p]
      /\ x \in Engines /\ x # NoEngine /\ x.database = want[p]
    BY <1>0 DEF IInv, ConnectionsInOrder, TypeOK, ThreadInOrder, Enter, At
<1>2. n \in Nat /\ n <= 1 /\ DOMAIN held[p] = 1 .. n /\ (held[p] = <<>> <=> n = 0)
    <2>1. n \in Nat /\ DOMAIN held[p] = 1 .. n /\ held[p] \in Seq(Connections)
        BY Parts
    <2>2. held[p] = <<>> <=> n = 0
        BY <2>1, EmptySeq DEF Depth
    <2> QED BY <1>1, <2>1, <2>2 DEF ThreadInOrder, Enter, At
<1>3. /\ held'[p] \in Seq(Connections) /\ Depth(p)' = n + 1 /\ DOMAIN held'[p] = 1 .. (n + 1)
      /\ \A i \in 1 .. n : held'[p][i] = held[p][i]
      /\ held'[p][n + 1] = c
    <2>1. held'[p] = Append(held[p], c) /\ c \in Connections /\ held[p] \in Seq(Connections)
        BY <1>1 DEF TypeOK, Enter, Connections
    <2>2. /\ held'[p] \in Seq(Connections) /\ Len(held'[p]) = Len(held[p]) + 1
          /\ \A i \in 1 .. Len(held[p]) : held'[p][i] = held[p][i]
          /\ held'[p][Len(held[p]) + 1] = c
        BY <2>1, AppendProperties
    <2>3. DOMAIN held'[p] = 1 .. Len(held'[p])
        BY <2>2, LenProperties
    <2> HIDE DEF c
    <2> QED BY <2>2, <2>3 DEF Depth
<1>4. \A q \in Threads : q # p => held'[q] = held[q] /\ Depth(q)' = Depth(q)
    BY <1>1 DEF TypeOK, Enter, Depth
<1>5. TypeOK'
    <2>1. held' \in [Threads -> Seq(Connections)]
        BY <1>1, <1>3 DEF TypeOK, Enter
    <2>2. idle' \in [Engines -> Nat]
        BY <1>1 DEF TypeOK, Enter
    <2> QED BY <1>1, <2>1, <2>2 DEF TypeOK, Enter
<1>6. ASSUME NEW q \in Threads
      PROVE  ThreadInOrder(q)'
    <2>1. ThreadInOrder(q)
        BY DEF IInv, ConnectionsInOrder
    <2>2. /\ want'[q] = want[q] /\ victim'[q] = victim[q]
          /\ engine'[q] = IF q = p THEN NoEngine ELSE engine[q]
          /\ pc'[q] = IF q # p THEN pc[q] ELSE IF n = 0 THEN "entered" ELSE "leaving"
        BY <1>1, <1>2 DEF TypeOK, Enter
    <2>3. CASE q # p
        BY <1>4, <2>1, <2>2, <2>3 DEF ThreadInOrder, At
    <2>4. CASE q = p
        <3>1. \A i \in DOMAIN held'[p] : held'[p][i].engine.database = want[p]
            BY <1>1, <1>2, <1>3 DEF ThreadInOrder
        <3>2. Depth(p)' = 1 \/ Depth(p)' = 2
            BY <1>2, <1>3
        <3>3. n = 0 => Depth(p)' = 1
            BY <1>3
        <3> HIDE DEF n
        <3> QED BY <1>1, <2>1, <2>2, <2>4, <3>1, <3>2, <3>3 DEF ThreadInOrder, Enter, At
    <2> QED BY <2>3, <2>4
<1>7. ASSUME NEW e \in Engines
      PROVE  /\ e # x => Out(e)' = Out(e)
             /\ Out(x)' = Out(x) \cup {<<p, n + 1>>} /\ <<p, n + 1>> \notin Out(x)
    <2>1. ASSUME NEW q \in Threads, NEW i \in 1 .. 2, NEW f
          PROVE  (i \in DOMAIN held'[q] /\ Live(held'[q][i], f))
                 <=> \/ i \in DOMAIN held[q] /\ Live(held[q][i], f)
                     \/ q = p /\ i = n + 1 /\ f = x
        <3>1. CASE q # p
            BY <1>4, <3>1
        <3>2. CASE q = p /\ i = n + 1
            BY <1>2, <1>3, <3>2 DEF Live
        <3>3. CASE q = p /\ i # n + 1
            BY <1>2, <1>3, <3>3
        <3> QED BY <3>1, <3>2, <3>3
    <2>2. n + 1 \in 1 .. 2 /\ n + 1 \notin DOMAIN held[p]
        BY <1>2
    <2>3. e # x => Out(e)' = Out(e)
        BY <2>1 DEF Out
    <2> HIDE DEF n
    <2>4. Out(x)' = Out(x) \cup {<<p, n + 1>>}
        BY <2>1, <2>2 DEF Out
    <2> QED BY <2>2, <2>3, <2>4 DEF Out
<1>8. EvictedIsClosed'
    <2>1. \A e \in Open' : e \in Engines
        BY DEF Open
    <2>2. \A e \in Engines : e # x => idle'[e] = idle[e]
        BY <1>1 DEF Enter, TypeOK
    <2>3. \A e \in Engines : e # x /\ e \in Open' => e \in Open
        BY <1>1, <1>5, <1>7, <2>2, OpenMeans
    <2>4. /\ Cached' = Cached /\ Evicted' = Evicted
          /\ reused' = reused \cup ({x} \ (Cached \cup Evicted))
        BY <1>1 DEF Cached, Evicted, Enter
    <2> QED BY <2>1, <2>3, <2>4 DEF IInv, EvictedIsClosed
<1>9. ASSUME NEW e \in Engines
      PROVE  PoolInOrder(e)'
    <2>1. PoolInOrder(e) /\ idle[e] \in Nat /\ PoolSize \in Nat /\ Busy(e) \in Nat
        BY <1>1, SizeAssumption, OutFinite DEF IInv, ConnectionsInOrder, TypeOK
    <2>2. CASE e # x
        <3>1. Busy(e)' = Busy(e) /\ idle'[e] = idle[e]
            BY <1>1, <1>7, <2>2 DEF Busy, Enter, TypeOK
        <3> QED BY <2>1, <3>1 DEF PoolInOrder
    <2>3. CASE e = x
        <3>1. Busy(x)' = Busy(x) + 1
            BY <1>1, <1>7, OutFinite, FS_AddElement DEF Busy
        <3>2. Busy(x) < PoolSize
            BY <1>1 DEF Enter
        <3>3. idle'[x] = IF idle[x] > 0 THEN idle[x] - 1 ELSE 0
            BY <1>1 DEF Enter, TypeOK
        <3> QED BY <2>1, <2>3, <3>1, <3>2, <3>3 DEF PoolInOrder
    <2> QED BY <2>2, <2>3
<1>10. CacheInOrder'
    <2>1. cache' = cache /\ Cached' = Cached /\ victim' = victim
        BY DEF Cached, Enter
    <2>2. ASSUME NEW q \in Threads, NEW i \in DOMAIN held'[q], held'[q][i].engine \in Cached
          PROVE  ~held'[q][i].orphan
        <3>1. CASE q # p
            BY <1>4, <2>2, <3>1 DEF IInv, CacheInOrder
        <3>2. CASE q = p /\ i = n + 1
            BY <1>3, <3>2
        <3>3. CASE q = p /\ i # n + 1
            BY <1>2, <1>3, <2>2, <3>3 DEF IInv, CacheInOrder
        <3> QED BY <3>1, <3>2, <3>3
    <2> QED BY <2>1, <2>2 DEF IInv, CacheInOrder
<1> QED BY <1>5, <1>6, <1>8, <1>9, <1>10 DEF IInv, ConnectionsInOrder

\* The thread lets go of the engine it waited for; no connection moves.
LEMMA EnterTimesOutKeeps ==
    ASSUME IInv, NEW p \in Threads, EnterTimesOut(p)
    PROVE  IInv'
<1>1. TypeOK /\ ThreadInOrder(p) /\ At(p, "connect") /\ victim[p] = NoEngine
    BY DEF IInv, ConnectionsInOrder, ThreadInOrder, EnterTimesOut, At
<1>2. Depth(p) \in Nat /\ Depth(p) <= 1 /\ (held[p] = <<>> <=> Depth(p) = 0)
    <2>1. Depth(p) \in Nat /\ held[p] \in Seq(Connections)
        BY Parts
    <2>2. held[p] = <<>> <=> Depth(p) = 0
        BY <2>1, EmptySeq DEF Depth
    <2> QED BY <1>1, <2>1, <2>2 DEF ThreadInOrder, At
<1>3. UNCHANGED <<cache, idle, reused, victim, held>>
    BY DEF EnterTimesOut, pools
<1>4. TypeOK'
    <2>2. engine' \in [Threads -> Engines \cup {NoEngine}]
        BY <1>1 DEF TypeOK, EnterTimesOut
    <2>3. /\ pc' \in [Threads -> {"idle", "dispose", "connect", "entered", "leaving"}]
          /\ want' \in [Threads -> Databases \cup {None}]
        BY <1>1 DEF TypeOK, EnterTimesOut
    <2> QED BY <1>1, <1>3, <2>2, <2>3 DEF TypeOK
<1>5. ASSUME NEW q \in Threads
      PROVE  ThreadInOrder(q)'
    <2>1. ThreadInOrder(q) /\ held'[q] = held[q] /\ Depth(q)' = Depth(q) /\ victim'[q] = victim[q]
        BY DEF IInv, ConnectionsInOrder, EnterTimesOut, Depth
    <2>2. engine'[q] = IF q = p THEN NoEngine ELSE engine[q]
        BY <1>1 DEF TypeOK, EnterTimesOut
    <2>3. CASE q # p
        <3>1. pc'[q] = pc[q] /\ want'[q] = want[q]
            BY <1>1, <2>3 DEF TypeOK, EnterTimesOut
        <3> QED BY <2>1, <2>2, <2>3, <3>1 DEF ThreadInOrder, At
    <2>4. CASE q = p /\ held[p] = <<>>
        <3>1. pc'[q] = "idle" /\ want'[q] = None
            BY <1>1, <2>4 DEF TypeOK, EnterTimesOut
        <3>2. DOMAIN held[q] = {} /\ Depth(q) = 0
            BY <1>2, <2>4
        <3> QED BY <1>1, <2>1, <2>2, <2>4, <3>1, <3>2 DEF ThreadInOrder, At
    <2>5. CASE q = p /\ held[p] # <<>>
        <3>1. pc'[q] = "leaving" /\ want'[q] = want[q]
            BY <1>1, <2>5 DEF TypeOK, EnterTimesOut
        <3>2. Depth(q) = 1
            BY <1>2, <2>5
        <3> QED BY <1>1, <2>1, <2>2, <2>5, <3>1, <3>2 DEF ThreadInOrder, At
    <2> QED BY <2>3, <2>4, <2>5
<1>6. ASSUME NEW e \in Engines
      PROVE  PoolInOrder(e)'
    <2>1. PoolInOrder(e) /\ idle[e] \in Nat /\ PoolSize \in Nat /\ Busy(e) \in Nat
        BY <1>1, SizeAssumption, OutFinite DEF IInv, ConnectionsInOrder, TypeOK
    <2>2. Busy(e)' = Busy(e)
        BY DEF Busy, Out, EnterTimesOut
    <2> QED BY <1>3, <2>1, <2>2 DEF PoolInOrder
<1>7. CacheInOrder' /\ EvictedIsClosed'
    BY <1>3 DEF IInv, CacheInOrder, Cached, EvictedIsClosed, Evicted, Open, Busy, Out
<1> QED BY <1>4, <1>5, <1>6, <1>7 DEF IInv, ConnectionsInOrder

\* A handler that ends leaves the connections to the exit.
LEMMA HandlerEndsKeeps ==
    ASSUME IInv, NEW p \in Threads, HandlerEnds(p)
    PROVE  IInv'
<1>1. TypeOK /\ UNCHANGED <<cache, idle, reused, want, engine, victim, held>>
    BY DEF IInv, ConnectionsInOrder, HandlerEnds, pools
<1>2. TypeOK'
    BY <1>1 DEF TypeOK, HandlerEnds
<1>3. ASSUME NEW q \in Threads
      PROVE  ThreadInOrder(q)'
    <2>1. ThreadInOrder(q) /\ Depth(q)' = Depth(q)
        BY <1>1 DEF IInv, ConnectionsInOrder, Depth
    <2>2. pc'[q] = IF q = p THEN "leaving" ELSE pc[q]
        BY <1>1 DEF TypeOK, HandlerEnds
    <2> QED BY <1>1, <2>1, <2>2 DEF ThreadInOrder, HandlerEnds, At
<1>4. ASSUME NEW e \in Engines
      PROVE  PoolInOrder(e)'
    <2>1. PoolInOrder(e)
        BY DEF IInv, ConnectionsInOrder
    <2>2. Busy(e)' = Busy(e)
        BY <1>1 DEF Busy, Out
    <2> QED BY <1>1, <2>1, <2>2 DEF PoolInOrder
<1>5. CacheInOrder' /\ EvictedIsClosed'
    BY <1>1 DEF IInv, CacheInOrder, Cached, EvictedIsClosed, Evicted, Open, Busy, Out
<1> QED BY <1>2, <1>3, <1>4, <1>5 DEF IInv, ConnectionsInOrder

\* The innermost connection goes back to its pool as one that lies there instead of
\* being out, or is closed.
LEMMA ExitKeeps ==
    ASSUME IInv, NEW p \in Threads, Exit(p)
    PROVE  IInv'
<1>1. PICK n : n = Depth(p)
    OBVIOUS
<1>2. PICK c : c = held[p][n]
    OBVIOUS
<1>3. /\ TypeOK /\ ThreadInOrder(p) /\ At(p, "leaving")
      /\ engine[p] = NoEngine /\ victim[p] = NoEngine
    BY DEF IInv, ConnectionsInOrder, ThreadInOrder, Exit, At
<1>4. /\ n \in Nat /\ (n = 1 \/ n = 2) /\ DOMAIN held[p] = 1 .. n /\ n \in DOMAIN held[p]
      /\ c \in Connections
    <2>1. n \in Nat /\ DOMAIN held[p] = 1 .. n /\ \A i \in DOMAIN held[p] : held[p][i] \in Connections
        BY <1>1, Parts
    <2>2. n = 1 \/ n = 2
        BY <1>1, <1>3 DEF ThreadInOrder
    <2>3. n \in DOMAIN held[p]
        BY <2>1, <2>2
    <2> QED BY <1>2, <2>1, <2>2, <2>3
<1>5. /\ held'[p] \in Seq(Connections) /\ Depth(p)' = n - 1 /\ DOMAIN held'[p] = 1 .. (n - 1)
      /\ \A i \in 1 .. (n - 1) : held'[p][i] = held[p][i]
    <2>1. held'[p] = SubSeq(held[p], 1, n - 1) /\ held[p] \in Seq(Connections)
        BY <1>1, <1>3 DEF TypeOK, Exit, Depth
    <2>2. 1 \in Int /\ n - 1 \in Int /\ n - 1 \in 0 .. n
        BY <1>4
    <2>3. \A i \in 1 .. (n - 1) : i \in DOMAIN held[p] /\ held[p][i] \in Connections
        BY <1>4, Parts
    <2>4. held'[p] = [i \in 1 .. (n - 1) |-> held[p][i]]
        BY <2>1, <2>2
    <2>5. held'[p] \in [1 .. (n - 1) -> Connections] /\ n - 1 \in Nat
        BY <1>4, <2>3, <2>4
    <2> HIDE DEF Connections
    <2>6. held'[p] \in Seq(Connections) /\ Len(held'[p]) = n - 1 /\ DOMAIN held'[p] = 1 .. (n - 1)
        BY <2>5
    <2> QED BY <2>4, <2>6 DEF Depth
<1>6. \A q \in Threads : q # p => held'[q] = held[q] /\ Depth(q)' = Depth(q)
    BY <1>3 DEF TypeOK, Exit, Depth
<1>7. \A e \in Engines :
        idle'[e] = IF c.orphan \/ e # c.engine THEN idle[e] ELSE idle[e] + 1
    <2>1. Returned(c) = IF c.orphan THEN idle ELSE [idle EXCEPT ![c.engine] = @ + 1]
        BY DEF Returned
    <2>2. idle' = Returned(c)
        BY <1>1, <1>2 DEF Exit
    <2>3. ASSUME NEW e \in Engines
          PROVE  Returned(c)[e] = IF c.orphan \/ e # c.engine THEN idle[e] ELSE idle[e] + 1
        BY <1>3, <2>1 DEF TypeOK
    <2> QED BY <2>2, <2>3
<1>8. TypeOK'
    <2>1. idle' \in [Engines -> Nat]
        <3>1. ASSUME NEW e \in Engines
              PROVE  idle'[e] \in Nat
            <4>1. idle[e] \in Nat /\ idle[e] + 1 \in Nat
                BY <1>3 DEF TypeOK
            <4>2. idle'[e] = idle[e] \/ idle'[e] = idle[e] + 1
                BY <1>7
            <4> QED BY <4>1, <4>2
        <3>2. idle' = [e \in Engines |-> idle'[e]]
            BY <1>1, <1>2, <1>3 DEF Exit, Returned, TypeOK
        <3> QED BY <3>1, <3>2
    <2>2. held' \in [Threads -> Seq(Connections)]
        BY <1>3, <1>5 DEF TypeOK, Exit
    <2>3. /\ pc' \in [Threads -> {"idle", "dispose", "connect", "entered", "leaving"}]
          /\ want' \in [Threads -> Databases \cup {None}]
          /\ UNCHANGED <<cache, reused, engine, victim>>
        BY <1>3 DEF TypeOK, Exit
    <2> QED BY <1>3, <2>1, <2>2, <2>3 DEF TypeOK
<1>9. ASSUME NEW q \in Threads
      PROVE  ThreadInOrder(q)'
    <2>1. ThreadInOrder(q) /\ engine'[q] = engine[q] /\ victim'[q] = victim[q]
        BY DEF IInv, ConnectionsInOrder, Exit
    <2>2. CASE q # p
        <3>1. pc'[q] = pc[q] /\ want'[q] = want[q]
            BY <1>3, <2>2 DEF TypeOK, Exit
        <3> QED BY <1>6, <2>1, <2>2, <3>1 DEF ThreadInOrder, At
    <2>3. CASE q = p /\ n = 1
        <3>1. pc'[q] = "idle" /\ want'[q] = None
            BY <1>1, <1>3, <2>3 DEF TypeOK, Exit
        <3>2. Depth(q)' = 0 /\ DOMAIN held'[q] = {}
            BY <1>5, <2>3
        <3> QED BY <1>3, <2>1, <2>3, <3>1, <3>2 DEF ThreadInOrder, At
    <2>4. CASE q = p /\ n = 2
        <3>1. pc'[q] = pc[q] /\ want'[q] = want[q]
            BY <1>1, <2>4 DEF Exit
        <3>2. Depth(q)' = 1
            BY <1>5, <2>4
        <3>3. \A i \in DOMAIN held'[q] : held'[q][i].engine.database = want[q]
            <4> SUFFICES ASSUME NEW i \in 1 .. (n - 1)
                         PROVE  held[q][i].engine.database = want[q]
                BY <1>5, <2>4
            <4>1. i \in DOMAIN held[q]
                BY <1>4, <2>4
            <4> QED BY <2>1, <4>1 DEF ThreadInOrder
        <3> QED BY <1>3, <2>1, <2>4, <3>1, <3>2, <3>3 DEF ThreadInOrder, At
    <2> QED BY <1>4, <2>2, <2>3, <2>4
<1>10. ASSUME NEW e
       PROVE  Out(e)' = Out(e) \ {<<p, n>>}
    <2>1. ASSUME NEW q \in Threads, NEW i \in 1 .. 2
          PROVE  (i \in DOMAIN held'[q] /\ Live(held'[q][i], e))
                 <=> i \in DOMAIN held[q] /\ Live(held[q][i], e) /\ <<q, i>> # <<p, n>>
        <3>1. CASE q # p
            BY <1>6, <3>1
        <3>2. CASE q = p /\ i = n
            BY <1>4, <1>5, <3>2
        <3>3. CASE q = p /\ i # n
            BY <1>4, <1>5, <3>3
        <3> QED BY <3>1, <3>2, <3>3
    <2> QED BY <2>1 DEF Out
<1>11. ASSUME NEW e \in Engines
       PROVE  PoolInOrder(e)'
    <2>1. PoolInOrder(e) /\ idle[e] \in Nat /\ PoolSize \in Nat /\ Busy(e) \in Nat /\ Busy(e)' \in Nat
        BY <1>3, SizeAssumption, OutFinite DEF IInv, ConnectionsInOrder, TypeOK
    <2>2. Busy(e)' <= Busy(e)
        BY <1>10, OutFinite, FS_Subset DEF Busy
    <2>3. CASE c.orphan \/ e # c.engine
        BY <1>7, <2>1, <2>2, <2>3 DEF PoolInOrder
    <2>4. CASE ~c.orphan /\ e = c.engine
        <3>1. <<p, n>> \in Out(e)
            BY <1>2, <1>4, <2>4 DEF Out, Live
        <3>2. Busy(e)' = Busy(e) - 1
            BY <1>10, <3>1, OutFinite, FS_RemoveElement DEF Busy
        <3> QED BY <1>7, <2>1, <2>4, <3>2 DEF PoolInOrder
    <2> QED BY <2>3, <2>4
<1>12. CacheInOrder'
    <2>1. cache' = cache /\ Cached' = Cached /\ victim' = victim
        BY DEF Cached, Exit
    <2>2. ASSUME NEW q \in Threads, NEW i \in DOMAIN held'[q], held'[q][i].engine \in Cached
          PROVE  ~held'[q][i].orphan
        <3>1. i \in DOMAIN held[q] /\ held'[q][i] = held[q][i]
            BY <1>4, <1>5, <1>6
        <3> QED BY <2>2, <3>1 DEF IInv, CacheInOrder
    <2> QED BY <2>1, <2>2 DEF IInv, CacheInOrder
<1>13. EvictedIsClosed'
    <2>1. \A e \in Open' : e \in Engines
        BY DEF Open
    <2>2. ~c.orphan => <<p, n>> \in Out(c.engine)
        BY <1>2, <1>4 DEF Out, Live
    <2>3. \A e \in Engines : e \in Open' => e \in Open
        BY <1>3, <1>7, <1>8, <1>10, <2>2, OpenMeans
    <2>4. Cached' = Cached /\ Evicted' = Evicted /\ reused' = reused
        BY DEF Cached, Evicted, Exit
    <2> QED BY <2>1, <2>3, <2>4 DEF IInv, EvictedIsClosed
<1> QED BY <1>8, <1>9, <1>11, <1>12, <1>13 DEF IInv, ConnectionsInOrder

-----------------------------------------------------------------------------
(* The specification *)

LEMMA InitHolds == Init => IInv
<1> SUFFICES ASSUME Init PROVE IInv
    OBVIOUS
<1>1. TypeOK
    BY DEF Init, TypeOK
<1>2. ASSUME NEW p \in Threads
      PROVE  /\ ThreadInOrder(p) /\ held[p] = <<>> /\ DOMAIN held[p] = {}
             /\ engine[p] = NoEngine /\ victim[p] = NoEngine
    <2>1. held[p] = <<>> /\ DOMAIN held[p] = {} /\ Depth(p) = 0
        BY DEF Init, Depth
    <2> QED BY <2>1 DEF Init, ThreadInOrder, At
<1>3. ASSUME NEW e \in Engines
      PROVE  PoolInOrder(e) /\ e \notin Open
    <2>1. Out(e) = {}
        BY <1>2 DEF Out
    <2>2. Busy(e) = 0
        BY <2>1, FS_EmptySet DEF Busy
    <2>3. idle[e] = 0
        BY DEF Init
    <2> QED BY <2>2, <2>3, SizeAssumption DEF PoolInOrder, Open
<1>4. CacheInOrder
    <2>1. cache = <<>> /\ Len(cache) = 0 /\ DOMAIN cache = {}
        BY DEF Init
    <2>2. Len(cache) <= CacheSize
        BY <2>1, SizeAssumption
    <2> QED BY <1>2, <2>1, <2>2 DEF CacheInOrder, Cached
<1>5. EvictedIsClosed
    BY <1>3 DEF EvictedIsClosed, Open
<1> QED BY <1>1, <1>2, <1>3, <1>4, <1>5 DEF IInv, ConnectionsInOrder

LEMMA NextKeeps == IInv /\ [Next]_vars => IInv'
<1> SUFFICES ASSUME IInv, [Next]_vars PROVE IInv'
    OBVIOUS
<1>1. CASE Next
    <2>1. ASSUME NEW p \in Threads, Step(p)
          PROVE  IInv'
        BY <2>1, RouteNestedKeeps, DisposeKeeps, EnterKeeps, EnterTimesOutKeeps,
           HandlerEndsKeeps, ExitKeeps DEF Step
    <2>2. ASSUME NEW p \in Threads, NEW d \in Databases, Route(p, d)
          PROVE  IInv'
        BY <2>2, RouteKeeps
    <2>3. ASSUME NEW e \in Engines, Collect(e)
          PROVE  IInv'
        BY <2>3, CollectKeeps
    <2> QED BY <1>1, <2>1, <2>2, <2>3, DisposeAllKeeps DEF Next
<1>2. CASE UNCHANGED vars
    <2>1. UNCHANGED <<cache, idle, reused, pc, want, engine, victim, held>>
        BY <1>2 DEF vars, pools, thread
    <2>2. Cached' = Cached /\ Evicted' = Evicted /\ Open' = Open /\ \A e : Busy(e)' = Busy(e)
        BY <2>1 DEF Cached, Evicted, Open, Busy, Out
    <2> QED BY <2>1, <2>2 DEF IInv, ConnectionsInOrder, CacheInOrder, TypeOK,
                              ThreadInOrder, PoolInOrder, EvictedIsClosed, Depth, At
<1> QED BY <1>1, <1>2

\* The inductive invariant holds in every state, for any number of databases and
\* threads and any sizes.
THEOREM Invariance == Spec => []IInv
BY InitHolds, NextKeeps, PTL DEF Spec

\* Whatever engine_for evicts under whom, a unit of work is on the database of its
\* request, nothing is left out when a request is done, and no pool exceeds
\* storage.pool_max_connections.
THEOREM ConnectionsStayInOrder == Spec => []ConnectionsInOrder
<1>1. IInv => ConnectionsInOrder
    BY DEF IInv
<1> QED BY <1>1, Invariance, PTL

\* The LRU holds one engine per database, within storage.pool_cache_size, and never
\* one that has been or is about to be disposed of.
THEOREM CacheStaysInOrder == Spec => []CacheInOrder
<1>1. IInv => CacheInOrder
    BY DEF IInv
<1> QED BY <1>1, Invariance, PTL

\* Eviction, disposal outside the lock and dispose_all leave no pool open behind
\* them, unless a thread that had been handed the engine connects to it afterwards.
THEOREM EvictionCloses == Spec => []EvictedIsClosed
<1>1. IInv => EvictedIsClosed
    BY DEF IInv
<1> QED BY <1>1, Invariance, PTL

=============================================================================

-------------------------- MODULE EngineCacheProofs -------------------------
(***************************************************************************)
(* For any number of engines, threads, keys and revisions: as long as no   *)
(* batch cancels itself out, every graph that an engine caches, returns or *)
(* matches a write against is exactly the store's graph at the revision it *)
(* carries.  EngineCacheCancelling.cfg shows that the restriction matters. *)
(*                                                                         *)
(* The properties speak of one moment of one thread; the invariant says    *)
(* what every other moment has to provide: whatever is in a cache is       *)
(* exact, the one writing thread's image is the base graph until its first *)
(* effective mutation, and from then on its graph carries the next         *)
(* revision, which nothing has yet.                                        *)
(***************************************************************************)
EXTENDS EngineCache, TLAPS

\* A memoryGraph that is the store's graph at a revision the store has.
Exact(g) == g.revision <= CurrentRevision /\ g.graph = GraphAt(g.revision)

CachesExact == \A e \in Engines : Cached(e) => Exact(cache[e])

\* What a reading thread holds.
ReadersSound ==
    \A t \in Threads :
        /\ pc[t] \in {"revision", "load"} => mem[t].revision <= CurrentRevision
        /\ pc[t] \in {"loaded", "answered", "committed"} => Exact(mem[t])

\* What the thread with the write lock holds, and that it is the only one.
WriterSound ==
    \A t \in Threads :
        /\ pc[t] \in {"begun", "writing"} <=> holder = t
        /\ pc[t] = "begun" => image = GraphAt(CurrentRevision)
        /\ pc[t] = "writing" =>
              /\ mem[t].graph = image
              /\ \/ mem[t].revision = CurrentRevision /\ image = GraphAt(CurrentRevision)
                 \/ mem[t].revision = CurrentRevision + 1

CInv == TypeOK /\ CachesExact /\ ReadersSound /\ WriterSound

\* A read of an existing revision has the type of a graph.
LEMMA GraphAtType ==
    ASSUME TypeOK, NEW r \in Nat, r <= CurrentRevision
    PROVE  GraphAt(r) \in Graphs
<1>1. EmptyGraph \in Graphs
  BY EngineAssumption DEF EmptyGraph, Graphs
<1>2. history \in Seq(Graphs)
  BY DEF TypeOK
<1> QED BY <1>1, <1>2 DEF GraphAt, CurrentRevision

\* An engine starts with nothing cached and nobody writing.
LEMMA CacheInit == ASSUME Init PROVE CInv
<1>1. EmptyGraph \in Graphs
  BY EngineAssumption DEF EmptyGraph, Graphs
<1>2. TypeOK
  BY <1>1 DEF Init, TypeOK, MemoryGraphs
<1>3. CachesExact /\ ReadersSound /\ WriterSound
  BY EngineAssumption DEF Init, CachesExact, Cached, ReadersSound, WriterSound
<1> QED BY <1>2, <1>3 DEF CInv

CacheType == [Engines -> MemoryGraphs \cup {Nil}]

\* A step of a thread that does not hold the write lock.
LEMMA ReaderStep ==
    ASSUME CInv, NEW t \in Threads, NEW m \in MemoryGraphs,
           NEW to \in {"idle", "revision", "load", "loaded", "answered"},
           pc[t] \notin {"begun", "writing"},
           history' = history, holder' = holder, image' = image,
           cache' \in CacheType, CachesExact',
           pc' = [pc EXCEPT ![t] = to], mem' = [mem EXCEPT ![t] = m],
           to \in {"revision", "load"} => m.revision <= CurrentRevision,
           to \in {"loaded", "answered"} => Exact(m)
    PROVE  CInv'
<1>1. TypeOK'
  BY DEF CInv, TypeOK, CacheType
<1>2. /\ pc'[t] = to /\ mem'[t] = m
      /\ \A u \in Threads \ {t} : pc'[u] = pc[u] /\ mem'[u] = mem[u]
  BY DEF CInv, TypeOK
<1>3. ReadersSound'
  BY <1>2 DEF CInv, ReadersSound, Exact, CurrentRevision, GraphAt
<1>4. WriterSound'
  BY <1>2 DEF CInv, WriterSound, CurrentRevision, GraphAt
<1> QED BY <1>1, <1>3, <1>4 DEF CInv

\* storeCache with an exact graph leaves every cache exact.
LEMMA StoreCacheFact ==
    ASSUME CInv, NEW e \in Engines, NEW g \in MemoryGraphs, Exact(g),
           StoreCache(e, g), history' = history
    PROVE  cache' \in CacheType /\ CachesExact'
<1>1. cache' \in CacheType
  BY DEF CInv, TypeOK, StoreCache, CacheType
<1>2. \A f \in Engines : cache'[f] = cache[f] \/ cache'[f] = g
  BY DEF CInv, TypeOK, StoreCache
<1>3. CachesExact'
  BY <1>2 DEF CInv, CachesExact, Cached, Exact, CurrentRevision, GraphAt
<1> QED BY <1>1, <1>3

\* loadGraph and Snapshot, step by step.
LEMMA ReadSteps ==
    ASSUME CInv, NEW t \in Threads,
           \/ ReadRevision(t)
           \/ \E r \in 0..CurrentRevision : ReadHistorical(t, r)
           \/ CacheHit(t) \/ CacheMiss(t) \/ LoadSnapshot(t) \/ StoreLoaded(t) \/ Return(t)
    PROVE  CInv'
<1>1. /\ TypeOK /\ CachesExact /\ cache \in CacheType /\ CurrentRevision \in Nat
      /\ mem[t] \in MemoryGraphs /\ EngineOf[t] \in Engines
      /\ mem \in [Threads -> MemoryGraphs]
  BY EngineAssumption DEF CInv, TypeOK, CacheType, CurrentRevision
<1>2. mem[t].revision \in Nat /\ mem[t].graph \in Graphs
  BY <1>1 DEF MemoryGraphs
<1>3. ASSUME cache' = cache, history' = history PROVE cache' \in CacheType /\ CachesExact'
  BY <1>1, <1>3 DEF CachesExact, Cached, Exact, CurrentRevision, GraphAt
<1>4. CASE ReadRevision(t)
  <2> DEFINE m == [mem[t] EXCEPT !.revision = CurrentRevision]
  <2>1. m \in MemoryGraphs /\ m.revision <= CurrentRevision
    BY <1>1 DEF MemoryGraphs
  <2>2. mem' = [mem EXCEPT ![t] = m]
    BY <1>4 DEF ReadRevision
  <2> HIDE DEF m
  <2>3. /\ pc[t] = "idle" /\ pc' = [pc EXCEPT ![t] = "revision"]
        /\ history' = history /\ holder' = holder /\ image' = image
        /\ cache' \in CacheType /\ CachesExact'
    BY <1>3, <1>4 DEF ReadRevision, Goto
  <2> QED BY <2>1, <2>2, <2>3, ReaderStep
<1>5. ASSUME NEW r \in 0..CurrentRevision, ReadHistorical(t, r) PROVE CInv'
  <2> DEFINE m == [revision |-> r, graph |-> GraphAt(r)]
  <2>1. r \in Nat /\ r <= CurrentRevision
    BY <1>1
  <2>2. m \in MemoryGraphs
    BY <1>1, <2>1, GraphAtType DEF MemoryGraphs
  <2>3. Exact(m)
    BY <2>1 DEF Exact
  <2>4. mem' = [mem EXCEPT ![t] = m]
    BY <1>5 DEF ReadHistorical
  <2> HIDE DEF m
  <2> QED BY <1>3, <1>5, <2>2, <2>3, <2>4, ReaderStep DEF ReadHistorical, Goto
<1>6. CASE CacheHit(t)
  <2> DEFINE c == cache[EngineOf[t]]
             m == [mem[t] EXCEPT !.graph = c.graph]
  <2>1. c \in MemoryGraphs /\ Exact(c) /\ c.revision = mem[t].revision
    BY <1>1, <1>6 DEF CacheHit, CacheHolds, Cached, CachesExact, CacheType
  <2> HIDE DEF c
  <2>2. m \in MemoryGraphs /\ m.revision = c.revision /\ m.graph = c.graph
    BY <1>1, <2>1 DEF MemoryGraphs
  <2>3. mem' = [mem EXCEPT ![t] = m]
    BY <1>6 DEF CacheHit, c
  <2> HIDE DEF m
  <2>4. Exact(m)
    BY <2>1, <2>2 DEF Exact
  <2> QED BY <1>3, <1>6, <2>2, <2>3, <2>4, ReaderStep DEF CacheHit, Goto
<1>7. CASE CacheMiss(t)
  <2>1. mem' = [mem EXCEPT ![t] = mem[t]]
    BY <1>1, <1>7 DEF CacheMiss
  <2>2. mem[t].revision <= CurrentRevision
    BY <1>7 DEF CacheMiss, Goto, CInv, ReadersSound
  <2> QED BY <1>1, <1>3, <1>7, <2>1, <2>2, ReaderStep DEF CacheMiss, Goto
<1>8. CASE LoadSnapshot(t)
  <2> DEFINE m == [mem[t] EXCEPT !.graph = GraphAt(mem[t].revision)]
  <2>1. mem[t].revision <= CurrentRevision
    BY <1>8 DEF LoadSnapshot, Goto, CInv, ReadersSound
  <2>2. GraphAt(mem[t].revision) \in Graphs
    BY <1>1, <1>2, <2>1, GraphAtType
  <2>3. m \in MemoryGraphs /\ m.revision = mem[t].revision /\ m.graph = GraphAt(mem[t].revision)
    BY <1>1, <2>2 DEF MemoryGraphs
  <2>4. mem' = [mem EXCEPT ![t] = m]
    BY <1>8 DEF LoadSnapshot
  <2> HIDE DEF m
  <2>5. Exact(m)
    BY <2>1, <2>3 DEF Exact
  <2> QED BY <1>3, <1>8, <2>3, <2>4, <2>5, ReaderStep DEF LoadSnapshot, Goto
<1>9. CASE StoreLoaded(t)
  <2>1. mem' = [mem EXCEPT ![t] = mem[t]] /\ Exact(mem[t]) /\ history' = history
    BY <1>1, <1>9 DEF StoreLoaded, Goto, CInv, ReadersSound
  <2>2. cache' \in CacheType /\ CachesExact'
    BY <1>1, <1>9, <2>1, StoreCacheFact DEF StoreLoaded
  <2> QED BY <1>1, <1>9, <2>1, <2>2, ReaderStep DEF StoreLoaded, Goto
<1>10. CASE Return(t)
  <2>1. mem' = [mem EXCEPT ![t] = mem[t]]
    BY <1>1, <1>10 DEF Return
  <2> QED BY <1>1, <1>3, <1>10, <2>1, ReaderStep DEF Return, Goto
<1> QED BY <1>4, <1>5, <1>6, <1>7, <1>8, <1>9, <1>10

\* A commit only adds a revision: what was exact before it still is.
LEMMA HistoryGrows ==
    ASSUME TypeOK, history' = history \/ history' = Append(history, image)
    PROVE  /\ CurrentRevision' \in Nat /\ CurrentRevision <= CurrentRevision'
           /\ \A r \in Nat : r <= CurrentRevision => GraphAt(r)' = GraphAt(r)
<1>1. history \in Seq(Graphs) /\ image \in Graphs
  BY DEF TypeOK
<1> QED BY <1>1 DEF CurrentRevision, GraphAt

\* Execute's transaction begins: the image is the base graph.
LEMMA BeginWriteStep == ASSUME CInv, NEW t \in Threads, BeginWrite(t) PROVE CInv'
<1>1. /\ TypeOK /\ pc[t] = "idle" /\ holder = None
      /\ pc' = [pc EXCEPT ![t] = "begun"] /\ holder' = t
      /\ image' = GraphAt(CurrentRevision)
      /\ history' = history /\ cache' = cache /\ mem' = mem
  BY DEF CInv, BeginWrite, Goto
<1>2. /\ pc'[t] = "begun"
      /\ \A u \in Threads \ {t} : pc'[u] = pc[u] /\ pc[u] \notin {"begun", "writing"}
  BY <1>1, EngineAssumption DEF CInv, TypeOK, WriterSound
<1>3. CurrentRevision \in Nat /\ CurrentRevision <= CurrentRevision
  BY <1>1 DEF TypeOK, CurrentRevision
<1>4. image' \in Graphs
  BY <1>1, <1>3, GraphAtType
<1>5. TypeOK'
  BY <1>1, <1>4 DEF TypeOK
<1>6. CachesExact' /\ ReadersSound'
  BY <1>1, <1>2 DEF CInv, CachesExact, Cached, ReadersSound, Exact, CurrentRevision, GraphAt
<1>7. WriterSound'
  BY <1>1, <1>2 DEF WriterSound, CurrentRevision, GraphAt
<1> QED BY <1>5, <1>6, <1>7 DEF CInv

\* loadWriteGraph: the cached graph at the base revision and the tables agree.
LEMMA LoadWriteStep == ASSUME CInv, NEW t \in Threads, LoadWriteGraph(t) PROVE CInv'
<1> DEFINE m == [revision |-> CurrentRevision,
                 graph |-> IF CacheHolds(EngineOf[t], CurrentRevision)
                           THEN cache[EngineOf[t]].graph ELSE image]
<1>1. /\ TypeOK /\ pc[t] = "begun" /\ pc' = [pc EXCEPT ![t] = "writing"]
      /\ mem' = [mem EXCEPT ![t] = m]
      /\ history' = history /\ holder' = holder /\ image' = image /\ cache' = cache
  BY DEF CInv, LoadWriteGraph, Goto
<1>2. holder = t /\ image = GraphAt(CurrentRevision)
  BY <1>1 DEF CInv, WriterSound
<1>3. m.graph = image /\ m.revision = CurrentRevision
  <2>1. EngineOf[t] \in Engines
    BY EngineAssumption
  <2> QED BY <1>2, <2>1 DEF CInv, CachesExact, Exact, CacheHolds
<1>4. m \in MemoryGraphs
  <2>1. CurrentRevision \in Nat /\ image \in Graphs
    BY <1>1 DEF TypeOK, CurrentRevision
  <2>2. m = [revision |-> CurrentRevision, graph |-> image]
    BY <1>3
  <2> QED BY <2>1, <2>2 DEF MemoryGraphs
<1> HIDE DEF m
<1>5. TypeOK'
  BY <1>1, <1>4 DEF TypeOK
<1>6. /\ pc'[t] = "writing" /\ mem'[t] = m
      /\ \A u \in Threads \ {t} : pc'[u] = pc[u] /\ mem'[u] = mem[u]
  BY <1>1 DEF TypeOK
<1>7. CachesExact' /\ ReadersSound'
  BY <1>1, <1>6 DEF CInv, CachesExact, Cached, ReadersSound, Exact, CurrentRevision, GraphAt
<1>8. WriterSound'
  BY <1>1, <1>2, <1>3, <1>6 DEF CInv, WriterSound, CurrentRevision, GraphAt
<1> QED BY <1>5, <1>7, <1>8 DEF CInv

\* A mutation changes the image and its mirror alike.
LEMMA MutateStep ==
    ASSUME CInv, NEW t \in Threads, NEW k \in Keys, NEW v \in Values, Mutate(t, k, v)
    PROVE  CInv'
<1> DEFINE m == [revision |-> IF image[k] = v THEN mem[t].revision ELSE CurrentRevision + 1,
                 graph |-> [mem[t].graph EXCEPT ![k] = v]]
<1>1. /\ TypeOK /\ pc[t] = "writing" /\ pc' = pc
      /\ image' = [image EXCEPT ![k] = v] /\ mem' = [mem EXCEPT ![t] = m]
      /\ history' = history /\ holder' = holder /\ cache' = cache
  BY DEF CInv, Mutate
<1>2. /\ holder = t /\ mem[t].graph = image
      /\ \/ mem[t].revision = CurrentRevision /\ image = GraphAt(CurrentRevision)
         \/ mem[t].revision = CurrentRevision + 1
  BY <1>1 DEF CInv, WriterSound
<1>3. image \in Graphs /\ image' \in Graphs /\ (image[k] = v => image' = image)
  BY <1>1 DEF TypeOK, Graphs
<1>4. m.graph = image' /\ m \in MemoryGraphs
  BY <1>1, <1>2, <1>3 DEF MemoryGraphs, TypeOK, CurrentRevision
<1>5. \/ m.revision = CurrentRevision /\ image' = GraphAt(CurrentRevision)
      \/ m.revision = CurrentRevision + 1
  BY <1>2, <1>3
<1> HIDE DEF m
<1>6. TypeOK'
  BY <1>1, <1>3, <1>4 DEF TypeOK
<1>7. mem'[t] = m /\ \A u \in Threads \ {t} : mem'[u] = mem[u]
  BY <1>1 DEF TypeOK
<1>8. CachesExact' /\ ReadersSound'
  BY <1>1, <1>7 DEF CInv, CachesExact, Cached, ReadersSound, Exact, CurrentRevision, GraphAt
<1>9. WriterSound'
  <2>1. \A u \in Threads \ {t} : pc[u] \notin {"begun", "writing"} /\ holder # u
    BY <1>2 DEF CInv, WriterSound
  <2> QED BY <1>1, <1>2, <1>4, <1>5, <1>7, <2>1 DEF WriterSound, CurrentRevision, GraphAt
<1> QED BY <1>6, <1>8, <1>9 DEF CInv

\* Without cancelling batches the revision that the writer's graph carries is
\* the one the commit leaves current.
LEMMA CommitStep ==
    ASSUME ~CancellingBatches, CInv, NEW t \in Threads, Commit(t)
    PROVE  CInv'
<1> DEFINE After(r) == IF r = 0 THEN EmptyGraph ELSE history'[r]
<1>1. /\ TypeOK /\ holder = t /\ pc[t] = "writing" /\ pc' = [pc EXCEPT ![t] = "committed"]
      /\ image # GraphAt(CurrentRevision) \/ mem[t].revision = CurrentRevision
      /\ history' = IF image # GraphAt(CurrentRevision) THEN Append(history, image) ELSE history
      /\ holder' = None /\ image' = image /\ cache' = cache /\ mem' = mem
  BY DEF CInv, Commit, Goto
<1>2. /\ mem[t].graph = image
      /\ \/ mem[t].revision = CurrentRevision /\ image = GraphAt(CurrentRevision)
         \/ mem[t].revision = CurrentRevision + 1
  BY <1>1 DEF CInv, WriterSound
<1>3. history \in Seq(Graphs) /\ image \in Graphs /\ CurrentRevision \in Nat
  BY <1>1 DEF TypeOK, CurrentRevision
<1>4. /\ CurrentRevision' \in Nat /\ CurrentRevision <= CurrentRevision'
      /\ \A r \in Nat : r <= CurrentRevision => After(r) = GraphAt(r)
  <2>1. \A r \in Nat : GraphAt(r)' = After(r)
    BY DEF GraphAt
  <2> QED BY <1>1, <2>1, HistoryGrows
<1>5. TypeOK'
  BY <1>1, <1>3 DEF TypeOK
<1>6. /\ pc'[t] = "committed"
      /\ \A u \in Threads \ {t} : pc'[u] = pc[u] /\ pc[u] \notin {"begun", "writing"}
  BY <1>1 DEF CInv, TypeOK, WriterSound
<1>7. \A g \in MemoryGraphs :
         Exact(g) => g.revision <= CurrentRevision' /\ g.graph = After(g.revision)
  BY <1>3, <1>4 DEF MemoryGraphs, Exact
<1>8. mem[t].revision <= CurrentRevision' /\ mem[t].graph = After(mem[t].revision)
  <2>1. CASE image = GraphAt(CurrentRevision)
    <3>1. mem[t].revision = CurrentRevision /\ history' = history
      BY <1>1, <2>1
    <3> QED BY <1>2, <1>3, <2>1, <3>1 DEF CurrentRevision, GraphAt
  <2>2. CASE image # GraphAt(CurrentRevision)
    <3>1. mem[t].revision = Len(history) + 1 /\ history' = Append(history, image)
      BY <1>1, <1>2, <2>2 DEF CurrentRevision
    <3> QED BY <1>1, <1>2, <1>3, <3>1 DEF CurrentRevision, GraphAt
  <2> QED BY <2>1, <2>2
<1>9. CachesExact'
  <2>1. ASSUME NEW e \in Engines, cache[e] # Nil
        PROVE  cache[e].revision <= CurrentRevision' /\ cache[e].graph = After(cache[e].revision)
    <3>1. cache[e] \in MemoryGraphs /\ Exact(cache[e])
      BY <1>1, <2>1 DEF CInv, CachesExact, Cached, TypeOK
    <3> QED BY <1>7, <3>1
  <2> QED BY <1>1, <2>1 DEF CachesExact, Cached, Exact, GraphAt
<1>10. ReadersSound'
  <2>1. ASSUME NEW u \in Threads \ {t}
        PROVE  /\ pc[u] \in {"revision", "load"} => mem[u].revision <= CurrentRevision'
               /\ pc[u] \in {"loaded", "answered", "committed"} =>
                     mem[u].revision <= CurrentRevision' /\ mem[u].graph = After(mem[u].revision)
    <3>1. mem[u] \in MemoryGraphs /\ mem[u].revision \in Nat
      BY <1>1 DEF TypeOK, MemoryGraphs
    <3> QED BY <1>3, <1>4, <1>7, <3>1 DEF CInv, ReadersSound
  <2> QED BY <1>1, <1>6, <1>8, <2>1 DEF ReadersSound, Exact, GraphAt
<1>11. WriterSound'
  BY <1>1, <1>6, EngineAssumption DEF WriterSound
<1> QED BY <1>5, <1>9, <1>10, <1>11 DEF CInv

\* An abandoned write releases the lock and caches nothing.
LEMMA AbandonStep == ASSUME CInv, NEW t \in Threads, Abandon(t) PROVE CInv'
<1>1. /\ TypeOK /\ holder = t /\ pc' = [pc EXCEPT ![t] = "idle"] /\ holder' = None
      /\ history' = history /\ image' = image /\ cache' = cache /\ mem' = mem
  BY DEF CInv, Abandon
<1>2. /\ pc'[t] = "idle"
      /\ \A u \in Threads \ {t} : pc'[u] = pc[u] /\ pc[u] \notin {"begun", "writing"}
  BY <1>1 DEF CInv, TypeOK, WriterSound
<1>3. TypeOK'
  BY <1>1 DEF TypeOK
<1>4. CachesExact' /\ ReadersSound'
  BY <1>1, <1>2 DEF CInv, CachesExact, Cached, ReadersSound, Exact, CurrentRevision, GraphAt
<1>5. WriterSound'
  BY <1>1, <1>2, EngineAssumption DEF WriterSound
<1> QED BY <1>3, <1>4, <1>5 DEF CInv

\* Execute's storeCache offers the graph it committed.
LEMMA StoreCommittedStep == ASSUME CInv, NEW t \in Threads, StoreCommitted(t) PROVE CInv'
<1>1. /\ TypeOK /\ mem \in [Threads -> MemoryGraphs] /\ mem[t] \in MemoryGraphs
      /\ EngineOf[t] \in Engines
      /\ pc[t] = "committed" /\ pc' = [pc EXCEPT ![t] = "idle"]
      /\ StoreCache(EngineOf[t], mem[t])
      /\ history' = history /\ holder' = holder /\ image' = image /\ mem' = mem
  BY EngineAssumption DEF CInv, TypeOK, StoreCommitted, Goto
<1>2. Exact(mem[t]) /\ mem' = [mem EXCEPT ![t] = mem[t]]
  BY <1>1 DEF CInv, ReadersSound
<1>3. cache' \in CacheType /\ CachesExact'
  BY <1>1, <1>2, StoreCacheFact
<1> QED BY <1>1, <1>2, <1>3, ReaderStep

\* The invariant is inductive for requests that do not cancel themselves out.
THEOREM CacheInvariance == ASSUME ~CancellingBatches PROVE Spec => []CInv
<1>1. Init => CInv
  BY CacheInit
<1>2. CInv /\ [Next]_vars => CInv'
  <2>1. ASSUME CInv, UNCHANGED vars PROVE CInv'
    BY <2>1 DEF vars, CInv, TypeOK, CachesExact, Cached, ReadersSound, WriterSound,
                Exact, CurrentRevision, GraphAt
  <2>2. ASSUME CInv, Next PROVE CInv'
    BY <2>2, ReadSteps, BeginWriteStep, LoadWriteStep, MutateStep, CommitStep,
       AbandonStep, StoreCommittedStep DEF Next
  <2> QED BY <2>1, <2>2
<1> QED BY <1>1, <1>2, PTL DEF Spec

\* Engine.Snapshot and the full-snapshot plan return the graph of the revision
\* they resolved, whatever other threads and processes commit meanwhile.
THEOREM AnswersExact == ASSUME ~CancellingBatches PROVE Spec => []AnswersAreExact
<1>1. CInv => AnswersAreExact
  BY DEF CInv, ReadersSound, Exact, AnswersAreExact
<1> QED BY <1>1, CacheInvariance, PTL

\* Statements of a write match against what the transaction's tables hold.
THEOREM WritersSeeBase == ASSUME ~CancellingBatches PROVE Spec => []WritersSeeTheirBase
<1>1. CInv => WritersSeeTheirBase
  BY DEF CInv, WriterSound, WritersSeeTheirBase
<1> QED BY <1>1, CacheInvariance, PTL
=============================================================================

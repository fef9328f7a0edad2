----------------------------- MODULE EngineCache ----------------------------
(***************************************************************************)
(* Engine.Execute and Engine.Snapshot over one database file: several      *)
(* engines, each in its own process with its own cache of one complete     *)
(* graph, and several threads per engine.  A read asks the store for the   *)
(* current revision, takes the cached graph if it carries that revision    *)
(* and otherwise loads the snapshot and offers it to the cache.  A write   *)
(* runs its statements inside Store.Write on an in-memory graph cloned     *)
(* from the cache or loaded from the transaction, and after the commit     *)
(* offers that graph to the cache.                                         *)
(*                                                                         *)
(*   history  the graph at each sealed revision, shared by all engines     *)
(*   holder   the thread whose Store.Write holds SQLite's write lock       *)
(*   image    the graph as that transaction's tables have it               *)
(*   cache    per engine, a memoryGraph or Nil                             *)
(*   pc, mem  per thread, where it is and its memoryGraph                  *)
(*                                                                         *)
(* A graph is a function from keys to values; one value, Absent, means the *)
(* entity does not exist.  What Store.Write does is TemporalStore's        *)
(* subject; here it is what the engine sees of it: a revision allocated by *)
(* the first effective mutation and given back if the batch nets out.      *)
(***************************************************************************)
EXTENDS Naturals, Sequences

CONSTANTS Engines, Threads,
          EngineOf,           \* which engine a thread calls
          Keys, Values,
          Absent,             \* the value of a key that is not in the graph
          None,               \* no thread holds the write lock
          Nil,                \* an engine that has cached nothing
          MaxRevision,        \* bound on the revisions committed
          CancellingBatches   \* may a batch undo its own effective mutations?

ASSUME EngineAssumption ==
    /\ EngineOf \in [Threads -> Engines]
    /\ Absent \in Values
    /\ None \notin Threads
    /\ MaxRevision \in Nat
    /\ CancellingBatches \in BOOLEAN
    /\ Nil \notin [revision : Nat, graph : [Keys -> Values]]

VARIABLES history, holder, image, cache, pc, mem

vars == <<history, holder, image, cache, pc, mem>>

Graphs == [Keys -> Values]

EmptyGraph == [k \in Keys |-> Absent]

MemoryGraphs == [revision : Nat, graph : Graphs]

Cached(e) == cache[e] # Nil

CacheHolds(e, r) == Cached(e) /\ cache[e].revision = r

CurrentRevision == Len(history)

GraphAt(r) == IF r = 0 THEN EmptyGraph ELSE history[r]

TypeOK ==
    /\ history \in Seq(Graphs)
    /\ holder \in Threads \cup {None}
    /\ image \in Graphs
    /\ cache \in [Engines -> MemoryGraphs \cup {Nil}]
    /\ pc \in [Threads -> {"idle", "revision", "load", "loaded", "answered",
                           "begun", "writing", "committed"}]
    /\ mem \in [Threads -> MemoryGraphs]

Init ==
    /\ history = <<>>
    /\ holder = None
    /\ image = EmptyGraph
    /\ cache = [e \in Engines |-> Nil]
    /\ pc = [t \in Threads |-> "idle"]
    /\ mem = [t \in Threads |-> [revision |-> 0, graph |-> EmptyGraph]]

Goto(t, from, to) ==
    /\ pc[t] = from
    /\ pc' = [pc EXCEPT ![t] = to]

\* storeCache: an older graph never displaces a newer one.
StoreCache(e, g) ==
    cache' = IF ~Cached(e) \/ cache[e].revision <= g.revision
             THEN [cache EXCEPT ![e] = g]
             ELSE cache

-----------------------------------------------------------------------------
\* A read of the current graph: loadGraph.

ReadRevision(t) ==
    /\ Goto(t, "idle", "revision")
    /\ mem' = [mem EXCEPT ![t].revision = CurrentRevision]
    /\ UNCHANGED <<history, holder, image, cache>>

\* A fixed revision is asked for, so the cache is not consulted: the load
\* reads an immutable snapshot.
ReadHistorical(t, r) ==
    /\ Goto(t, "idle", "answered")
    /\ mem' = [mem EXCEPT ![t] = [revision |-> r, graph |-> GraphAt(r)]]
    /\ UNCHANGED <<history, holder, image, cache>>

\* Mutated: whatever is cached is taken for current.
CacheHitUnchecked(t) ==
    /\ Cached(EngineOf[t])
    /\ Goto(t, "revision", "answered")
    /\ mem' = [mem EXCEPT ![t].graph = cache[EngineOf[t]].graph]
    /\ UNCHANGED <<history, holder, image, cache>>

CacheHit(t) ==
    /\ CacheHolds(EngineOf[t], mem[t].revision)
    /\ Goto(t, "revision", "answered")
    /\ mem' = [mem EXCEPT ![t].graph = cache[EngineOf[t]].graph]
    /\ UNCHANGED <<history, holder, image, cache>>

CacheMiss(t) ==
    /\ ~CacheHolds(EngineOf[t], mem[t].revision)
    /\ Goto(t, "revision", "load")
    /\ UNCHANGED <<history, holder, image, cache, mem>>

\* loadSnapshot reads nodes and edges page by page, pinned to the revision.
LoadSnapshot(t) ==
    /\ Goto(t, "load", "loaded")
    /\ mem' = [mem EXCEPT ![t].graph = GraphAt(mem[t].revision)]
    /\ UNCHANGED <<history, holder, image, cache>>

StoreLoaded(t) ==
    /\ Goto(t, "loaded", "answered")
    /\ StoreCache(EngineOf[t], mem[t])
    /\ UNCHANGED <<history, holder, image, mem>>

\* The caller has the answer.
Return(t) ==
    /\ Goto(t, "answered", "idle")
    /\ UNCHANGED <<history, holder, image, cache, mem>>

-----------------------------------------------------------------------------
\* A request that mutates.

BeginWrite(t) ==
    /\ holder = None
    /\ CurrentRevision < MaxRevision
    /\ Goto(t, "idle", "begun")
    /\ holder' = t
    /\ image' = GraphAt(CurrentRevision)
    /\ UNCHANGED <<history, cache, mem>>

\* Mutated: whatever is cached is cloned.
LoadWriteGraphUnchecked(t) ==
    /\ Goto(t, "begun", "writing")
    /\ mem' = [mem EXCEPT ![t] =
                  [revision |-> CurrentRevision,
                   graph    |-> IF Cached(EngineOf[t]) THEN cache[EngineOf[t]].graph ELSE image]]
    /\ UNCHANGED <<history, holder, image, cache>>

\* loadWriteGraph: clone the cache if it has exactly the base revision, else
\* read the transaction's tables.
LoadWriteGraph(t) ==
    /\ Goto(t, "begun", "writing")
    /\ mem' = [mem EXCEPT ![t] =
                  [revision |-> CurrentRevision,
                   graph    |-> IF CacheHolds(EngineOf[t], CurrentRevision)
                                THEN cache[EngineOf[t]].graph ELSE image]]
    /\ UNCHANGED <<history, holder, image, cache>>

\* A mutation goes to the transaction first and is then mirrored in memory,
\* whose revision becomes the transaction's: base, until one was effective.
Mutate(t, k, v) ==
    /\ pc[t] = "writing"
    /\ image' = [image EXCEPT ![k] = v]
    /\ mem' = [mem EXCEPT ![t] =
                  [revision |-> IF image[k] = v THEN mem[t].revision ELSE CurrentRevision + 1,
                   graph    |-> [mem[t].graph EXCEPT ![k] = v]]]
    /\ UNCHANGED <<history, holder, cache, pc>>

\* Store.Write returned: a new revision if the batch changed the graph and
\* otherwise, even if it had allocated one, none.
Commit(t) ==
    /\ holder = t
    /\ Goto(t, "writing", "committed")
    /\ CancellingBatches \/ image # GraphAt(CurrentRevision) \/ mem[t].revision = CurrentRevision
    /\ history' = IF image # GraphAt(CurrentRevision) THEN Append(history, image) ELSE history
    /\ holder' = None
    /\ UNCHANGED <<image, cache, mem>>

\* A statement failed, or the process was told to stop: nothing is cached.
Abandon(t) ==
    /\ holder = t
    /\ pc' = [pc EXCEPT ![t] = "idle"]
    /\ holder' = None
    /\ UNCHANGED <<history, image, cache, mem>>

\* Execute offers the graph it wrote to the cache, whether or not the Write
\* changed anything.
StoreCommitted(t) ==
    /\ Goto(t, "committed", "idle")
    /\ StoreCache(EngineOf[t], mem[t])
    /\ UNCHANGED <<history, holder, image, mem>>

-----------------------------------------------------------------------------
Next ==
    \E t \in Threads :
        \/ ReadRevision(t)
        \/ \E r \in 0..CurrentRevision : ReadHistorical(t, r)
        \/ CacheHit(t)
        \/ CacheMiss(t)
        \/ LoadSnapshot(t)
        \/ StoreLoaded(t)
        \/ Return(t)
        \/ BeginWrite(t)
        \/ LoadWriteGraph(t)
        \/ \E k \in Keys, v \in Values : Mutate(t, k, v)
        \/ Commit(t)
        \/ Abandon(t)
        \/ StoreCommitted(t)

Spec == Init /\ [][Next]_vars

-----------------------------------------------------------------------------
\* Properties.

\* What a read returns is the graph the store has at the revision it resolved,
\* however commits of any engine fell between its steps.
AnswersAreExact ==
    \A t \in Threads : pc[t] = "answered" => mem[t].graph = GraphAt(mem[t].revision)

\* The statements of a write match against the graph the transaction's tables
\* hold, never against an older or a phantom one.
WritersSeeTheirBase ==
    \A t \in Threads : pc[t] = "writing" => mem[t].graph = image
=============================================================================

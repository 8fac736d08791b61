---------------------------- MODULE DerivedIndex ----------------------------
(***************************************************************************)
(* The derived retrieval index of thm/retrieval.py (class SearchIndex) and *)
(* the immutable vector segments of thm/physical/segments.py, for one      *)
(* scope.  Several SearchIndex connections, each with its own RLock and    *)
(* caches, share one SQLite file; the threads that use a connection are    *)
(* its clients.                                                            *)
(*                                                                         *)
(* SQLite runs in its default rollback-journal mode: BEGIN IMMEDIATE       *)
(* serialises writers, and no writer commits while a reader holds a        *)
(* snapshot.  A transaction that runs under the connection's lock is       *)
(* therefore one action.  What really interleaves is what the code does    *)
(* outside a transaction: encoding, building a segment file, and using the *)
(* caches of a connection after another one committed.                     *)
(***************************************************************************)
EXTENDS Naturals, FiniteSets

CONSTANTS
  Conns,      \* SearchIndex instances on the same file
  ReadOnly,   \* those opened with readonly=True
  Clients,    \* threads
  ConnOf,     \* the connection each thread uses
  Profiles,   \* explicit embedding profiles (vectors_v2)
  Models,     \* legacy model identities (vectors)
  Lexical, Gens, EmptyGen, Runs, Layouts,
  Roots,      \* physical roots that segments are exported to
  ResultCap,  \* entries of the result cache (64 in the code)
  Nil, Failed

Ids == Profiles \cup Models
Keys == Ids \cup {Lexical}
Embeddings == [of : Gens, run : Runs]
Manifests == [root : Roots, data : Embeddings]
Objects == [profile : Profiles, root : Roots, data : Embeddings]
Answers == [of : Gens, rows : Layouts, data : Embeddings \cup {Nil}]
Entries == [id : Ids, gen : Gens, rows : Layouts, data : Embeddings]
Results == [key : Keys, answer : Answers]
Steps == {"idle", "encode", "encode-locked", "build", "publish"}
Tasks == [step : Steps, id : Ids \cup {Nil}, of : Gens \cup {Nil},
          data : Embeddings \cup {Nil}, root : Roots \cup {Nil}]

ASSUME ConnAssumption ==
  /\ ConnOf \in [Clients -> Conns]
  /\ ReadOnly \subseteq Conns
  /\ EmptyGen \in Gens
ASSUME IdAssumption == Profiles \cap Models = {} /\ Lexical \notin Ids
ASSUME NilAssumption ==
  Nil \notin Ids \cup Gens \cup Clients \cup Roots \cup Embeddings \cup Manifests
ASSUME CapAssumption == ResultCap \in Nat \ {0}

VARIABLES
  gen, layout, vectors, reply,   \* as in AbstractIndex
  complete,   \* vector_generations: the generation a profile is complete for
  placement,  \* physical_placements: the manifest of a profile, or Nil
  objects,    \* segment files
  stale,      \* whether PRAGMA data_version differs from the one last seen
  dense,      \* SearchIndex._dense of each connection
  results,    \* SearchIndex._results of each connection
  holder,     \* the thread that holds a connection's lock between two actions
  task        \* what each thread is in the middle of

dbvars == <<gen, layout, vectors, complete, placement>>
cachevars == <<stale, dense, results>>
vars == <<dbvars, reply, objects, cachevars, holder, task>>

-----------------------------------------------------------------------------
(* Threads, locks, transactions                                            *)

Resting == [step |-> "idle", id |-> Nil, of |-> Nil, data |-> Nil, root |-> Nil]
\* A task that starts from the committed generation.
Doing(s, i, d, root) == [step |-> s, id |-> i, of |-> gen, data |-> d, root |-> root]

\* The thread may enter `with self._lock` of its connection.
MayEnter(cl) == holder[ConnOf[cl]] = Nil
Writable(cl) == ConnOf[cl] \notin ReadOnly
Begins(cl) == task[cl] = Resting /\ MayEnter(cl) /\ Writable(cl)
At(cl, s) == task[cl].step = s
Done(cl) == task' = [task EXCEPT ![cl] = Resting]

\* A commit that changed the file, and _clear_caches on the committing
\* connection: every other connection sees a new data_version.
Committed_KeepsCaches(c) ==
  /\ stale' = [d \in Conns |-> d # c \/ stale[d]]
  /\ UNCHANGED <<dense, results>>
Committed(c) ==
  /\ stale' = [d \in Conns |-> d # c \/ stale[d]]
  /\ dense' = [dense EXCEPT ![c] = {}]
  /\ results' = [results EXCEPT ![c] = {}]

Cleared(c) ==
  /\ dense' = [dense EXCEPT ![c] = {}]
  /\ results' = [results EXCEPT ![c] = {}]
  /\ UNCHANGED stale

-----------------------------------------------------------------------------
(* Publishing sources: replace_scope and sync_kind                         *)

\* A different document set replaces the scope and everything derived from
\* it; the same one returns early and changes nothing.
ReplaceScope(cl, g, l) ==
  /\ Begins(cl)
  /\ g # gen
  /\ gen' = g
  /\ layout' = l
  /\ vectors' = [i \in Ids |-> Nil]
  /\ complete' = [p \in Profiles |-> Nil]
  /\ placement' = [p \in Profiles |-> Nil]
  /\ Committed(ConnOf[cl])
  /\ UNCHANGED <<reply, objects, holder, task>>

-----------------------------------------------------------------------------
(* Publishing embeddings: _embed_profile and the legacy part of embed      *)

EmbedStart_Unindexed(cl, p) ==
  /\ Begins(cl)
  /\ task' = [task EXCEPT ![cl] = Doing("encode", p, Nil, Nil)]
  /\ UNCHANGED <<dbvars, reply, objects, cachevars, holder>>

\* Read the rows; the lock is released before the encoder runs.
EmbedStart(cl, p) ==
  /\ Begins(cl)
  /\ gen # Nil
  /\ task' = [task EXCEPT ![cl] = Doing("encode", p, Nil, Nil)]
  /\ UNCHANGED <<dbvars, reply, objects, cachevars, holder>>

\* The recheck under BEGIN IMMEDIATE before an embedding is published.
SourceUnchanged_Unchecked(t) == TRUE
SourceUnchanged(t) == gen = t.of

\* The encoder returned run r for the rows that were read.
EmbedPublish(cl, r) ==
  LET t == task[cl] IN
  /\ At(cl, "encode")
  /\ MayEnter(cl)
  /\ SourceUnchanged(t)
  /\ vectors' = [vectors EXCEPT ![t.id] = [of |-> t.of, run |-> r]]
  /\ complete' = [complete EXCEPT ![t.id] = t.of]
  /\ placement' = [placement EXCEPT ![t.id] = Nil]
  /\ Committed(ConnOf[cl])
  /\ Done(cl)
  /\ UNCHANGED <<gen, layout, reply, objects, holder>>

\* The encoder or its validation raised, or the recheck refused.
EmbedFail(cl) ==
  /\ At(cl, "encode")
  /\ Done(cl)
  /\ UNCHANGED <<dbvars, reply, objects, cachevars, holder>>

\* The legacy path keeps the connection's lock while it encodes what the
\* vectors table misses.
LegacyStart(cl, m) ==
  /\ Begins(cl)
  /\ gen # Nil
  /\ holder' = [holder EXCEPT ![ConnOf[cl]] = cl]
  /\ task' = [task EXCEPT ![cl] = Doing("encode-locked", m, vectors[m], Nil)]
  /\ UNCHANGED <<dbvars, reply, objects, cachevars>>

Released(cl) ==
  /\ holder' = [holder EXCEPT ![ConnOf[cl]] = Nil]
  /\ Done(cl)

LegacyPublish(cl, r) ==
  LET t == task[cl] IN
  /\ At(cl, "encode-locked")
  /\ SourceUnchanged(t)
  /\ t.data = Nil /\ t.of # EmptyGen
  /\ vectors' = [vectors EXCEPT ![t.id] = [of |-> t.of, run |-> r]]
  /\ Committed(ConnOf[cl])
  /\ Released(cl)
  /\ UNCHANGED <<gen, layout, complete, placement, reply, objects>>

\* Nothing was missing when the rows were read: an empty insert is committed.
LegacyNothingMissing(cl) ==
  /\ At(cl, "encode-locked")
  /\ SourceUnchanged(task[cl])
  /\ task[cl].data # Nil \/ task[cl].of = EmptyGen
  /\ Cleared(ConnOf[cl])
  /\ Released(cl)
  /\ UNCHANGED <<dbvars, reply, objects>>

LegacyFail(cl) ==
  /\ At(cl, "encode-locked")
  /\ Released(cl)
  /\ UNCHANGED <<dbvars, reply, objects, cachevars>>

-----------------------------------------------------------------------------
(* Publishing a segment: export                                            *)

ExportStart(cl, p, root) ==
  /\ Begins(cl)
  /\ gen \notin {Nil, EmptyGen}
  /\ complete[p] = gen
  /\ vectors[p] # Nil
  /\ task' = [task EXCEPT ![cl] = Doing("build", p, vectors[p], root)]
  /\ UNCHANGED <<dbvars, reply, objects, cachevars, holder>>

Segment(t) == [profile |-> t.id, root |-> t.root, data |-> t.data]

\* The segment is written beside its final name and linked to it, which
\* fails when the name, a hash of the content, exists.
ExportCreate(cl) ==
  /\ At(cl, "build")
  /\ IF Segment(task[cl]) \in objects
       THEN Done(cl) /\ UNCHANGED objects
       ELSE /\ objects' = objects \cup {Segment(task[cl])}
            /\ task' = [task EXCEPT ![cl].step = "publish"]
  /\ UNCHANGED <<dbvars, reply, cachevars, holder>>

\* The recheck under BEGIN IMMEDIATE: the whole snapshot, not the generation
\* alone, since the same source may have been embedded again.
SnapshotUnchanged_GenerationOnly(t) == gen = t.of
SnapshotUnchanged(t) ==
  /\ gen = t.of
  /\ complete[t.id] = t.of
  /\ vectors[t.id] = t.data

ExportPublish(cl) ==
  LET t == task[cl] IN
  /\ At(cl, "publish")
  /\ MayEnter(cl)
  /\ SnapshotUnchanged(t)
  /\ placement' = [placement EXCEPT ![t.id] = [root |-> t.root, data |-> t.data]]
  /\ Committed(ConnOf[cl])
  /\ Done(cl)
  /\ UNCHANGED <<gen, layout, vectors, complete, reply, objects, holder>>

\* The recheck refused, or writing the file failed: the file stays, an orphan.
ExportFail(cl) ==
  /\ task[cl].step \in {"build", "publish"}
  /\ Done(cl)
  /\ UNCHANGED <<dbvars, reply, objects, cachevars, holder>>

-----------------------------------------------------------------------------
(* Searching                                                               *)

\* What _refresh_caches leaves of a connection's cache.
Refreshed_Never(cache, c) == cache[c]
Refreshed(cache, c) == IF stale[c] THEN {} ELSE cache[c]

AnswerWith(v) == [of |-> gen, rows |-> layout, data |-> v]
Entry(i, v) == [id |-> i, gen |-> gen, rows |-> layout, data |-> v]

\* _dense_matrix: the cached matrix of this generation, else the external
\* segment when there is a manifest, else the complete rows of the database.
\* Empty when the code raises.
Matrix(c, i) ==
  LET cached == {e \in Refreshed(dense, c) : e.id = i /\ e.gen = gen}
      manifest == placement[i]
  IN IF cached # {} THEN cached
     ELSE IF i \in Profiles /\ manifest # Nil
     THEN {Entry(i, o.data) : o \in {x \in objects :
             /\ x = [profile |-> i, root |-> manifest.root, data |-> manifest.data]
             /\ x.data.of = gen}}
     ELSE IF \/ gen = EmptyGen
             \/ vectors[i] = Nil
             \/ (i \in Profiles /\ complete[i] # gen)
     THEN {}
     ELSE {Entry(i, vectors[i])}

\* The result cache with one more entry; beyond its capacity it drops
\* another one, the least recently used in the code.
Remembered(cache, k, a) ==
  LET new == cache \cup {[key |-> k, answer |-> a]}
  IN IF Cardinality(new) > ResultCap THEN {new \ {x} : x \in cache} ELSE {new}

CacheHit(c, k) == \E x \in Refreshed(results, c) : x.key = k

Searches(cl) ==
  /\ task[cl] = Resting
  /\ MayEnter(cl)
  /\ stale' = [stale EXCEPT ![ConnOf[cl]] = FALSE]
  /\ UNCHANGED <<dbvars, objects, holder, task>>

SearchHit(cl, k) ==
  LET c == ConnOf[cl] IN
  /\ Searches(cl)
  /\ \E x \in Refreshed(results, c) : x.key = k /\ reply' = x.answer
  /\ dense' = [dense EXCEPT ![c] = Refreshed(dense, c)]
  /\ results' = [results EXCEPT ![c] = Refreshed(results, c)]

\* kept: the query has a result-cache key (search with the built-in counter);
\* without one (another counter, search_many) the result cache is bypassed.
Miss(cl, k, kept) == Searches(cl) /\ (kept => ~CacheHit(ConnOf[cl], k))

Keep(c, k, a, kept) ==
  \E r \in IF kept THEN Remembered(Refreshed(results, c), k, a)
                   ELSE {Refreshed(results, c)} :
    results' = [results EXCEPT ![c] = r]

SearchLexical(cl, kept) ==
  LET c == ConnOf[cl] IN
  /\ Miss(cl, Lexical, kept)
  /\ gen # Nil
  /\ reply' = AnswerWith(Nil)
  /\ dense' = [dense EXCEPT ![c] = Refreshed(dense, c)]
  /\ Keep(c, Lexical, AnswerWith(Nil), kept)

SearchDense(cl, i, kept) ==
  LET c == ConnOf[cl] IN
  /\ Miss(cl, i, kept)
  /\ gen # Nil
  /\ \E e \in Matrix(c, i) :
       LET a == [of |-> gen, rows |-> e.rows, data |-> e.data] IN
       /\ reply' = a
       /\ dense' = [dense EXCEPT ![c] = Refreshed(dense, c) \cup {e}]
       /\ Keep(c, i, a, kept)

SearchFail(cl, k, kept) ==
  LET c == ConnOf[cl] IN
  /\ Miss(cl, k, kept)
  /\ gen = Nil \/ (k # Lexical /\ Matrix(c, k) = {})
  /\ reply' = Failed
  /\ dense' = [dense EXCEPT ![c] = Refreshed(dense, c)]
  /\ results' = [results EXCEPT ![c] = Refreshed(results, c)]

-----------------------------------------------------------------------------
(* A connection is closed or its process dies, and it is opened again:     *)
(* whatever its threads were doing is lost, and the caches start empty.    *)
Reopen(c) ==
  /\ dense' = [dense EXCEPT ![c] = {}]
  /\ results' = [results EXCEPT ![c] = {}]
  /\ stale' = [stale EXCEPT ![c] = FALSE]
  /\ holder' = [holder EXCEPT ![c] = Nil]
  /\ task' = [cl \in Clients |-> IF ConnOf[cl] = c THEN Resting ELSE task[cl]]
  /\ UNCHANGED <<dbvars, reply, objects>>

Init ==
  /\ gen = Nil
  /\ layout \in Layouts
  /\ vectors = [i \in Ids |-> Nil]
  /\ reply = Nil
  /\ complete = [p \in Profiles |-> Nil]
  /\ placement = [p \in Profiles |-> Nil]
  /\ objects = {}
  /\ stale = [c \in Conns |-> FALSE]
  /\ dense = [c \in Conns |-> {}]
  /\ results = [c \in Conns |-> {}]
  /\ holder = [c \in Conns |-> Nil]
  /\ task = [cl \in Clients |-> Resting]

Write(cl) ==
  \/ \E g \in Gens, l \in Layouts : ReplaceScope(cl, g, l)
  \/ \E p \in Profiles : EmbedStart(cl, p)
  \/ \E r \in Runs : EmbedPublish(cl, r)
  \/ EmbedFail(cl)
  \/ \E m \in Models : LegacyStart(cl, m)
  \/ \E r \in Runs : LegacyPublish(cl, r)
  \/ LegacyNothingMissing(cl)
  \/ LegacyFail(cl)
  \/ \E p \in Profiles, root \in Roots : ExportStart(cl, p, root)
  \/ ExportCreate(cl)
  \/ ExportPublish(cl)
  \/ ExportFail(cl)

Search(cl) ==
  \/ \E k \in Keys : SearchHit(cl, k)
  \/ \E kept \in BOOLEAN : SearchLexical(cl, kept)
  \/ \E i \in Ids, kept \in BOOLEAN : SearchDense(cl, i, kept)
  \/ \E k \in Keys, kept \in BOOLEAN : SearchFail(cl, k, kept)

Next ==
  \/ \E cl \in Clients : Write(cl) \/ Search(cl)
  \/ \E c \in Conns : Reopen(c)

Spec == Init /\ [][Next]_vars

-----------------------------------------------------------------------------
(* Properties                                                              *)

TypeOK ==
  /\ gen \in Gens \cup {Nil}
  /\ layout \in Layouts
  /\ vectors \in [Ids -> Embeddings \cup {Nil}]
  /\ reply \in Answers \cup {Nil, Failed}
  /\ complete \in [Profiles -> Gens \cup {Nil}]
  /\ placement \in [Profiles -> Manifests \cup {Nil}]
  /\ objects \subseteq Objects
  /\ stale \in [Conns -> BOOLEAN]
  /\ dense \in [Conns -> SUBSET Entries]
  /\ results \in [Conns -> SUBSET Results]
  /\ holder \in [Conns -> Clients \cup {Nil}]
  /\ task \in [Clients -> Tasks]

\* Stored vectors always belong to the committed documents, and a profile is
\* marked complete exactly when it has vectors: an embedding whose source was
\* replaced while it was encoded is never published
\* (retrieval.py, "source generation changed during embedding").
VectorsCurrent ==
  /\ \A i \in Ids : vectors[i] # Nil => vectors[i].of = gen
  /\ \A p \in Profiles :
       complete[p] = IF vectors[p] = Nil THEN Nil ELSE gen

\* A published placement names an existing segment that holds exactly the
\* vectors the database holds for the profile: neither a new source nor a
\* second embedding of the same source leaves, or lets a running export
\* publish, a manifest for older vectors (segments.py, export).
PlacementFaithful ==
  \A p \in Profiles : placement[p] # Nil =>
    /\ gen # EmptyGen
    /\ vectors[p] = placement[p].data
    /\ [profile |-> p, root |-> placement[p].root, data |-> placement[p].data]
         \in objects

Abstract == INSTANCE AbstractIndex WITH
  gen <- gen, layout <- layout, vectors <- vectors, reply <- reply

\* A connection that has seen the latest commit caches nothing but the truth:
\* its matrices are of the committed vectors, rows and generation, and its
\* results are what a fresh search would return.
CachesCoherent ==
  \A c \in Conns : ~stale[c] =>
    /\ \A e \in dense[c] : e = Entry(e.id, vectors[e.id]) /\ gen # EmptyGen
    /\ \A x \in results[c] : x.answer = Abstract!Truth(x.key)

\* Every answer is the one the committed state gives at that moment,
\* whichever connection, cache or segment it came from: the index is an
\* AbstractIndex.
AbstractSpec == Abstract!Spec
=============================================================================

------------------------- MODULE DerivedIndexProofs -------------------------
(* Proofs about DerivedIndex, for any number of connections, threads,       *)
(* profiles, generations and roots: its inductive invariant, the three      *)
(* safety invariants that follow from it, and that it implements            *)
(* AbstractIndex.                                                           *)
EXTENDS DerivedIndex, TLAPS

\* What a thread carries between two actions fits the action it waits for.
TasksSound ==
  \A cl \in Clients :
    LET t == task[cl] IN
    /\ t.step = "encode" => t.id \in Profiles /\ t.of \in Gens
    /\ t.step = "encode-locked" => t.id \in Models /\ t.of \in Gens
    /\ t.step \in {"build", "publish"} =>
         /\ t.id \in Profiles
         /\ t.of \in Gens \ {EmptyGen}
         /\ t.data \in Embeddings
         /\ t.root \in Roots
    /\ t.step = "publish" => Segment(t) \in objects

IInv ==
  /\ TypeOK
  /\ VectorsCurrent
  /\ PlacementFaithful
  /\ CachesCoherent
  /\ TasksSound

USE ConnAssumption, IdAssumption, NilAssumption

-----------------------------------------------------------------------------
(* Records                                                                 *)

\* The idle task is a task.
LEMMA RestingType == Resting \in Tasks
BY DEF Resting, Tasks, Steps

\* A manifest's parts, and the segment it names.
LEMMA SegmentType ==
  ASSUME NEW t \in Tasks, t.id \in Profiles, t.data \in Embeddings, t.root \in Roots
  PROVE  /\ Segment(t) \in Objects
         /\ [root |-> t.root, data |-> t.data] \in Manifests
BY DEF Segment, Objects, Manifests

-----------------------------------------------------------------------------
(* Caches                                                                  *)

\* _refresh_caches only ever drops entries.
LEMMA RefreshedSubset ==
  ASSUME NEW cache, NEW c
  PROVE  Refreshed(cache, c) \subseteq cache[c]
BY DEF Refreshed

\* After _refresh_caches, what a connection still caches is the truth.
LEMMA RefreshedTrue ==
  ASSUME IInv, NEW c \in Conns
  PROVE  /\ \A e \in Refreshed(dense, c) :
              e \in Entries /\ e = Entry(e.id, vectors[e.id]) /\ gen # EmptyGen
         /\ \A x \in Refreshed(results, c) :
              x \in Results /\ x.answer = Abstract!Truth(x.key)
<1>1. CASE stale[c]
  BY <1>1 DEF Refreshed
<1>2. CASE ~stale[c]
  <2>1. Refreshed(dense, c) = dense[c] /\ Refreshed(results, c) = results[c]
    BY <1>2 DEF Refreshed
  <2>2. dense[c] \subseteq Entries /\ results[c] \subseteq Results
    BY DEF IInv, TypeOK
  <2> QED
    BY <1>2, <2>1, <2>2 DEF IInv, CachesCoherent
<1> QED
  BY <1>1, <1>2

\* Whatever _dense_matrix returns is the committed embedding over the
\* committed rows, from the cache, a segment or the database alike.
LEMMA MatrixTrue ==
  ASSUME IInv, gen # Nil, NEW c \in Conns, NEW i \in Ids, NEW e \in Matrix(c, i)
  PROVE  /\ e = Entry(i, vectors[i])
         /\ e \in Entries
         /\ vectors[i] \in Embeddings
         /\ gen # EmptyGen
<1> DEFINE cached == {x \in Refreshed(dense, c) : x.id = i /\ x.gen = gen}
           manifest == placement[i]
<1>0. gen \in Gens /\ layout \in Layouts
  BY DEF IInv, TypeOK
<1>1. CASE e \in cached
  <2>1. e \in Entries /\ e = Entry(e.id, vectors[e.id]) /\ gen # EmptyGen
    BY <1>1, RefreshedTrue
  <2>2. e.id = i /\ e.data \in Embeddings
    BY <1>1, <2>1 DEF Entries
  <2>3. e.data = vectors[i]
    BY <2>1, <2>2 DEF Entry
  <2> QED
    BY <2>1, <2>2, <2>3
<1>2. CASE cached = {} /\ i \in Profiles /\ manifest # Nil
  <2>1. PICK o \in objects : e = Entry(i, o.data) /\ o.data = manifest.data
    BY <1>2 DEF Matrix
  <2>2. vectors[i] = manifest.data /\ gen # EmptyGen
    BY <1>2 DEF IInv, PlacementFaithful
  <2>3. o.data \in Embeddings
    BY <2>1 DEF IInv, TypeOK, Objects
  <2> QED
    BY <1>0, <2>1, <2>2, <2>3 DEF Entry, Entries
<1>3. CASE cached = {} /\ ~(i \in Profiles /\ manifest # Nil)
  <2>1. e = Entry(i, vectors[i]) /\ gen # EmptyGen /\ vectors[i] # Nil
    BY <1>3 DEF Matrix
  <2>2. vectors[i] \in Embeddings
    BY <2>1 DEF IInv, TypeOK
  <2> QED
    BY <1>0, <2>1, <2>2 DEF Entry, Entries
<1> QED
  BY <1>1, <1>2, <1>3 DEF Matrix

\* When the committed state has an answer, _dense_matrix finds it.
LEMMA MatrixFound ==
  ASSUME IInv, gen # Nil, gen # EmptyGen, NEW c \in Conns, NEW i \in Ids,
         vectors[i] # Nil
  PROVE  Matrix(c, i) # {}
<1> DEFINE cached == {x \in Refreshed(dense, c) : x.id = i /\ x.gen = gen}
           manifest == placement[i]
<1>1. CASE cached # {}
  BY <1>1 DEF Matrix
<1>2. CASE cached = {} /\ i \in Profiles /\ manifest # Nil
  <2> DEFINE o == [profile |-> i, root |-> manifest.root, data |-> manifest.data]
  <2>1. o \in objects /\ vectors[i] = manifest.data
    BY <1>2 DEF IInv, PlacementFaithful
  <2>2. o.data.of = gen
    BY <2>1 DEF IInv, VectorsCurrent
  <2>3. Entry(i, o.data) \in Matrix(c, i)
    BY <1>2, <2>1, <2>2 DEF Matrix
  <2> QED
    BY <2>3
<1>3. CASE cached = {} /\ ~(i \in Profiles /\ manifest # Nil)
  <2>1. i \in Profiles => complete[i] = gen
    BY DEF IInv, VectorsCurrent
  <2>2. Entry(i, vectors[i]) \in Matrix(c, i)
    BY <1>3, <2>1 DEF Matrix
  <2> QED
    BY <2>2
<1> QED
  BY <1>1, <1>2, <1>3

\* A commit leaves nothing to be coherent: the connection that commits has
\* cleared its caches and every other one will see a new data_version.
LEMMA CommittedCoherent ==
  ASSUME TypeOK, NEW c \in Conns, Committed(c)
  PROVE  /\ CachesCoherent'
         /\ stale' \in [Conns -> BOOLEAN]
         /\ dense' \in [Conns -> SUBSET Entries]
         /\ results' \in [Conns -> SUBSET Results]
<1>1. stale' = [d \in Conns |-> d # c \/ stale[d]]
  BY DEF Committed
<1>2. dense'[c] = {} /\ results'[c] = {}
  BY DEF Committed, TypeOK
<1>3. ASSUME NEW d \in Conns, ~stale'[d]
      PROVE  d = c
  BY <1>1, <1>3
<1>4. CachesCoherent'
  BY <1>2, <1>3 DEF CachesCoherent
<1>5. stale' \in [Conns -> BOOLEAN]
  BY <1>1 DEF TypeOK
<1> QED
  BY <1>4, <1>5 DEF Committed, TypeOK

\* Emptying the caches of a connection keeps them coherent.
LEMMA ClearedCoherent ==
  ASSUME TypeOK, CachesCoherent, NEW c \in Conns,
         dense' = [dense EXCEPT ![c] = {}], results' = [results EXCEPT ![c] = {}],
         \/ UNCHANGED stale
         \/ stale' = [stale EXCEPT ![c] = FALSE],
         UNCHANGED dbvars
  PROVE  /\ CachesCoherent'
         /\ stale' \in [Conns -> BOOLEAN]
         /\ dense' \in [Conns -> SUBSET Entries]
         /\ results' \in [Conns -> SUBSET Results]
<1>1. ASSUME NEW d \in Conns, ~stale'[d]
      PROVE  /\ \A e \in dense'[d] : (e = Entry(e.id, vectors[e.id]) /\ gen # EmptyGen)'
             /\ \A x \in results'[d] : x.answer = Abstract!Truth(x.key)'
  <2>1. CASE d = c
    BY <2>1 DEF TypeOK
  <2>2. CASE d # c
    <3>1. ~stale[d] /\ dense'[d] = dense[d] /\ results'[d] = results[d]
      BY <1>1, <2>2 DEF TypeOK
    <3> QED
      BY <3>1 DEF CachesCoherent, dbvars, Entry, Abstract!Truth, Abstract!Answer
  <2> QED
    BY <2>1, <2>2
<1>2. CachesCoherent'
  BY <1>1 DEF CachesCoherent
<1> QED
  BY <1>2 DEF TypeOK
-----------------------------------------------------------------------------
(* The inductive invariant, one lemma per kind of action                   *)

LEMMA InitInv == Init => IInv
<1> SUFFICES ASSUME Init PROVE IInv
  OBVIOUS
<1>1. TypeOK
  BY RestingType DEF Init, TypeOK
<1>2. VectorsCurrent
  BY DEF Init, VectorsCurrent, Ids
<1>3. PlacementFaithful
  BY DEF Init, PlacementFaithful
<1>4. CachesCoherent
  BY DEF Init, CachesCoherent
<1>5. TasksSound
  BY DEF Init, TasksSound, Resting
<1> QED
  BY <1>1, <1>2, <1>3, <1>4, <1>5 DEF IInv

\* A step that only moves threads, and may add segments, keeps what IInv says
\* of the database and of the caches.
LEMMA TaskStep ==
  ASSUME IInv, UNCHANGED <<dbvars, cachevars>>, objects \subseteq objects'
  PROVE  VectorsCurrent' /\ PlacementFaithful' /\ CachesCoherent'
<1>1. VectorsCurrent'
  BY DEF IInv, VectorsCurrent, dbvars
<1>2. PlacementFaithful'
  BY DEF IInv, PlacementFaithful, dbvars
<1>3. CachesCoherent'
  BY DEF IInv, CachesCoherent, dbvars, cachevars, Entry, Abstract!Truth,
         Abstract!Answer
<1> QED
  BY <1>1, <1>2, <1>3

\* A thread that is done carries nothing, and the others are as they were.
LEMMA DoneSound ==
  ASSUME IInv, NEW cl \in Clients, Done(cl), objects \subseteq objects'
  PROVE  TasksSound' /\ task' \in [Clients -> Tasks]
<1>1. task'[cl] = Resting /\ task' \in [Clients -> Tasks]
  BY RestingType DEF Done, IInv, TypeOK
<1>2. \A d \in Clients : d # cl => task'[d] = task[d]
  BY DEF Done, IInv, TypeOK
<1>3. Resting.step = "idle"
  BY DEF Resting
<1> QED
  BY <1>1, <1>2, <1>3 DEF TasksSound, IInv, Segment

LEMMA ReplaceInv ==
  ASSUME IInv, NEW cl \in Clients, NEW g \in Gens, NEW l \in Layouts,
         ReplaceScope(cl, g, l)
  PROVE  IInv'
<1> USE DEF ReplaceScope
<1>0. ConnOf[cl] \in Conns
  OBVIOUS
<1>1. CachesCoherent' /\ stale' \in [Conns -> BOOLEAN]
      /\ dense' \in [Conns -> SUBSET Entries] /\ results' \in [Conns -> SUBSET Results]
  BY <1>0, CommittedCoherent DEF IInv
<1>2. TypeOK'
  BY <1>1 DEF IInv, TypeOK
<1>3. VectorsCurrent'
  BY DEF VectorsCurrent, Ids
<1>4. PlacementFaithful'
  BY DEF PlacementFaithful
<1>5. TasksSound'
  BY DEF IInv, TasksSound, Segment
<1> QED
  BY <1>1, <1>2, <1>3, <1>4, <1>5 DEF IInv

LEMMA EmbedStartInv ==
  ASSUME IInv, NEW cl \in Clients, NEW p \in Profiles, EmbedStart(cl, p)
  PROVE  IInv'
<1> DEFINE t == Doing("encode", p, Nil, Nil)
<1>1. task' = [task EXCEPT ![cl] = t]
  BY DEF EmbedStart
<1>2. gen \in Gens /\ t \in Tasks
  BY DEF EmbedStart, IInv, TypeOK, Tasks, Steps, Ids, Doing
<1>3. TypeOK'
  BY <1>1, <1>2 DEF EmbedStart, IInv, TypeOK, dbvars, cachevars
<1>4. TasksSound'
  BY <1>1, <1>2 DEF EmbedStart, IInv, TypeOK, TasksSound, Segment, Doing
<1> QED
  BY <1>3, <1>4, TaskStep DEF EmbedStart, IInv

LEMMA EmbedPublishInv ==
  ASSUME IInv, NEW cl \in Clients, NEW r \in Runs, EmbedPublish(cl, r)
  PROVE  IInv'
<1> DEFINE t == task[cl]
           v == [of |-> t.of, run |-> r]
<1>0. ConnOf[cl] \in Conns
  OBVIOUS
<1>1. t.id \in Profiles /\ t.of \in Gens /\ t.id \in Ids /\ gen = t.of
  BY DEF EmbedPublish, At, IInv, TasksSound, Ids, SourceUnchanged
<1>2. v \in Embeddings /\ v # Nil /\ v.of = gen
  BY <1>1 DEF Embeddings
<1>3. /\ vectors' = [vectors EXCEPT ![t.id] = v]
      /\ complete' = [complete EXCEPT ![t.id] = gen]
      /\ placement' = [placement EXCEPT ![t.id] = Nil]
      /\ UNCHANGED <<gen, layout, reply, objects, holder>>
  BY <1>1 DEF EmbedPublish
<1>4. CachesCoherent' /\ stale' \in [Conns -> BOOLEAN]
      /\ dense' \in [Conns -> SUBSET Entries] /\ results' \in [Conns -> SUBSET Results]
  BY <1>0, CommittedCoherent DEF IInv, EmbedPublish
<1>5. TasksSound' /\ task' \in [Clients -> Tasks]
  BY DoneSound DEF EmbedPublish
<1>6. TypeOK'
  BY <1>1, <1>2, <1>3, <1>4, <1>5 DEF IInv, TypeOK
<1>7. VectorsCurrent'
  BY <1>1, <1>2, <1>3 DEF IInv, TypeOK, VectorsCurrent, Ids
<1>8. PlacementFaithful'
  BY <1>1, <1>3 DEF IInv, TypeOK, PlacementFaithful, Ids
<1> QED
  BY <1>4, <1>5, <1>6, <1>7, <1>8 DEF IInv

LEMMA LegacyStartInv ==
  ASSUME IInv, NEW cl \in Clients, NEW m \in Models, LegacyStart(cl, m)
  PROVE  IInv'
<1> DEFINE t == Doing("encode-locked", m, vectors[m], Nil)
<1>1. task' = [task EXCEPT ![cl] = t]
  BY DEF LegacyStart
<1>2. gen \in Gens /\ t \in Tasks
  BY DEF LegacyStart, IInv, TypeOK, Tasks, Steps, Ids, Doing
<1>3. TypeOK'
  BY <1>1, <1>2 DEF LegacyStart, IInv, TypeOK, dbvars, cachevars
<1>4. TasksSound'
  BY <1>1, <1>2 DEF LegacyStart, IInv, TypeOK, TasksSound, Segment, Doing
<1> QED
  BY <1>3, <1>4, TaskStep DEF LegacyStart, IInv

\* Giving the lock back.
LEMMA ReleasedType ==
  ASSUME IInv, NEW cl \in Clients, Released(cl)
  PROVE  holder' \in [Conns -> Clients \cup {Nil}] /\ Done(cl)
BY DEF Released, IInv, TypeOK

LEMMA LegacyPublishInv ==
  ASSUME IInv, NEW cl \in Clients, NEW r \in Runs, LegacyPublish(cl, r)
  PROVE  IInv'
<1> DEFINE t == task[cl]
           v == [of |-> t.of, run |-> r]
<1>0. ConnOf[cl] \in Conns
  OBVIOUS
<1>1. t.id \in Models /\ t.id \notin Profiles /\ t.of \in Gens /\ t.id \in Ids
      /\ gen = t.of
  BY DEF LegacyPublish, At, IInv, TasksSound, Ids, SourceUnchanged
<1>2. v \in Embeddings /\ v # Nil /\ v.of = gen
  BY <1>1 DEF Embeddings
<1>3. /\ vectors' = [vectors EXCEPT ![t.id] = v]
      /\ UNCHANGED <<gen, layout, complete, placement, reply, objects>>
  BY <1>1 DEF LegacyPublish
<1>4. CachesCoherent' /\ stale' \in [Conns -> BOOLEAN]
      /\ dense' \in [Conns -> SUBSET Entries] /\ results' \in [Conns -> SUBSET Results]
  BY <1>0, CommittedCoherent DEF IInv, LegacyPublish
<1>5. TasksSound' /\ task' \in [Clients -> Tasks]
      /\ holder' \in [Conns -> Clients \cup {Nil}]
  BY DoneSound, ReleasedType DEF LegacyPublish
<1>6. TypeOK'
  BY <1>1, <1>2, <1>3, <1>4, <1>5 DEF IInv, TypeOK
<1>7. VectorsCurrent'
  BY <1>1, <1>2, <1>3 DEF IInv, TypeOK, VectorsCurrent, Ids
<1>8. PlacementFaithful'
  BY <1>1, <1>3 DEF IInv, TypeOK, PlacementFaithful, Ids
<1> QED
  BY <1>4, <1>5, <1>6, <1>7, <1>8 DEF IInv

LEMMA LegacyNothingMissingInv ==
  ASSUME IInv, NEW cl \in Clients, LegacyNothingMissing(cl)
  PROVE  IInv'
<1>0. ConnOf[cl] \in Conns
  OBVIOUS
<1>1. CachesCoherent' /\ stale' \in [Conns -> BOOLEAN]
      /\ dense' \in [Conns -> SUBSET Entries] /\ results' \in [Conns -> SUBSET Results]
  BY <1>0, ClearedCoherent DEF LegacyNothingMissing, Cleared, IInv
<1>2. TasksSound' /\ task' \in [Clients -> Tasks]
      /\ holder' \in [Conns -> Clients \cup {Nil}]
  BY DoneSound, ReleasedType DEF LegacyNothingMissing
<1>3. TypeOK'
  BY <1>1, <1>2 DEF LegacyNothingMissing, IInv, TypeOK, dbvars
<1>4. VectorsCurrent' /\ PlacementFaithful'
  BY DEF LegacyNothingMissing, IInv, VectorsCurrent, PlacementFaithful, dbvars
<1> QED
  BY <1>1, <1>2, <1>3, <1>4 DEF IInv

\* An embedding or an export that gives up changes nothing but its thread.
LEMMA FailInv ==
  ASSUME IInv, NEW cl \in Clients, EmbedFail(cl) \/ LegacyFail(cl) \/ ExportFail(cl)
  PROVE  IInv'
<1>1. UNCHANGED <<dbvars, reply, objects, cachevars>> /\ Done(cl)
      /\ (UNCHANGED holder \/ Released(cl))
  BY DEF EmbedFail, LegacyFail, ExportFail, Released
<1>2. TasksSound' /\ task' \in [Clients -> Tasks]
  BY <1>1, DoneSound
<1>3. holder' \in [Conns -> Clients \cup {Nil}]
  BY <1>1, ReleasedType DEF IInv, TypeOK
<1>4. TypeOK'
  BY <1>1, <1>2, <1>3 DEF IInv, TypeOK, dbvars, cachevars
<1> QED
  BY <1>1, <1>2, <1>4, TaskStep DEF IInv
LEMMA ExportStartInv ==
  ASSUME IInv, NEW cl \in Clients, NEW p \in Profiles, NEW root \in Roots,
         ExportStart(cl, p, root)
  PROVE  IInv'
<1> DEFINE t == Doing("build", p, vectors[p], root)
<1>1. task' = [task EXCEPT ![cl] = t]
  BY DEF ExportStart
<1>2. gen \in Gens \ {EmptyGen} /\ vectors[p] \in Embeddings /\ t \in Tasks
  BY DEF ExportStart, IInv, TypeOK, Tasks, Steps, Ids, Doing
<1>3. TypeOK'
  BY <1>1, <1>2 DEF ExportStart, IInv, TypeOK, dbvars, cachevars
<1>4. TasksSound'
  BY <1>1, <1>2 DEF ExportStart, IInv, TypeOK, TasksSound, Segment, Doing
<1> QED
  BY <1>3, <1>4, TaskStep DEF ExportStart, IInv

LEMMA ExportCreateInv ==
  ASSUME IInv, NEW cl \in Clients, ExportCreate(cl)
  PROVE  IInv'
<1> DEFINE t == task[cl]
<1>0. UNCHANGED <<dbvars, reply, cachevars, holder>>
  BY DEF ExportCreate
<1>1. CASE Segment(t) \in objects
  <2>1. Done(cl) /\ UNCHANGED objects
    BY <1>1 DEF ExportCreate
  <2>2. TasksSound' /\ task' \in [Clients -> Tasks]
    BY <2>1, DoneSound
  <2>3. TypeOK'
    BY <1>0, <2>1, <2>2 DEF IInv, TypeOK, dbvars, cachevars
  <2> QED
    BY <1>0, <2>1, <2>2, <2>3, TaskStep DEF IInv
<1>2. CASE Segment(t) \notin objects
  <2>1. /\ objects' = objects \cup {Segment(t)}
        /\ task' = [task EXCEPT ![cl].step = "publish"]
    BY <1>2 DEF ExportCreate
  <2>2. /\ t \in Tasks
        /\ t.id \in Profiles
        /\ t.of \in Gens \ {EmptyGen}
        /\ t.data \in Embeddings
        /\ t.root \in Roots
    BY DEF ExportCreate, At, IInv, TypeOK, TasksSound
  <2>3. objects' \subseteq Objects
    BY <2>1, <2>2, SegmentType DEF IInv, TypeOK
  <2> DEFINE u == [t EXCEPT !.step = "publish"]
  <2>4. u \in Tasks /\ u.step = "publish" /\ u.id = t.id /\ u.of = t.of
        /\ u.data = t.data /\ u.root = t.root
    BY <2>2 DEF Tasks, Steps
  <2>5. task' = [task EXCEPT ![cl] = u]
    BY <2>1
  <2>6. TypeOK'
    BY <1>0, <2>3, <2>4, <2>5 DEF IInv, TypeOK, dbvars, cachevars
  <2>7. Segment(u) = Segment(t)
    BY <2>4 DEF Segment
  <2>8. TasksSound'
    <3>1. task'[cl] = u /\ \A d \in Clients : d # cl => task'[d] = task[d]
      BY <2>5 DEF IInv, TypeOK
    <3>2. Segment(u) \in objects' /\ objects \subseteq objects'
      BY <2>1, <2>7
    <3> QED
      BY <2>2, <2>4, <3>1, <3>2, ZenonT(60) DEF IInv, TasksSound, Segment
  <2> QED
    BY <1>0, <2>1, <2>6, <2>8, TaskStep DEF IInv
<1> QED
  BY <1>1, <1>2

LEMMA ExportPublishInv ==
  ASSUME IInv, NEW cl \in Clients, ExportPublish(cl)
  PROVE  IInv'
<1> DEFINE t == task[cl]
           manifest == [root |-> t.root, data |-> t.data]
<1>0. ConnOf[cl] \in Conns
  OBVIOUS
<1>1. /\ t \in Tasks
      /\ t.id \in Profiles
      /\ t.of \in Gens \ {EmptyGen}
      /\ t.data \in Embeddings
      /\ t.root \in Roots
      /\ Segment(t) \in objects
  BY DEF ExportPublish, At, IInv, TypeOK, TasksSound
<1>2. gen = t.of /\ vectors[t.id] = t.data
  BY DEF ExportPublish, SnapshotUnchanged
<1>3. /\ placement' = [placement EXCEPT ![t.id] = manifest]
      /\ UNCHANGED <<gen, layout, vectors, complete, reply, objects, holder>>
  BY DEF ExportPublish
<1>4. CachesCoherent' /\ stale' \in [Conns -> BOOLEAN]
      /\ dense' \in [Conns -> SUBSET Entries] /\ results' \in [Conns -> SUBSET Results]
  BY <1>0, CommittedCoherent DEF IInv, ExportPublish
<1>5. TasksSound' /\ task' \in [Clients -> Tasks]
  BY DoneSound DEF ExportPublish
<1>6. manifest \in Manifests
  BY <1>1, SegmentType
<1>7. TypeOK'
  BY <1>1, <1>3, <1>4, <1>5, <1>6 DEF IInv, TypeOK
<1>8. VectorsCurrent'
  BY <1>3 DEF IInv, VectorsCurrent
<1>9. PlacementFaithful'
  BY <1>1, <1>2, <1>3 DEF IInv, TypeOK, PlacementFaithful, Segment
<1> QED
  BY <1>4, <1>5, <1>7, <1>8, <1>9 DEF IInv

\* The result cache never keeps anything but what it held and the new answer.
LEMMA KeepSubset ==
  ASSUME NEW c \in Conns, NEW k, NEW a, NEW kept, Keep(c, k, a, kept), TypeOK
  PROVE  \E s : /\ results' = [results EXCEPT ![c] = s]
               /\ s \subseteq Refreshed(results, c) \cup {[key |-> k, answer |-> a]}
<1> DEFINE old == Refreshed(results, c)
           new == old \cup {[key |-> k, answer |-> a]}
<1>1. PICK s \in IF kept THEN Remembered(old, k, a) ELSE {old} :
        results' = [results EXCEPT ![c] = s]
  BY DEF Keep
<1>2. \A y \in Remembered(old, k, a) : y \subseteq new
  BY DEF Remembered
<1>3. s \subseteq new
  BY <1>1, <1>2
<1> QED
  BY <1>1, <1>3

\* What a search leaves in the caches of its connection is the truth.
LEMMA SearchInv ==
  ASSUME IInv, NEW cl \in Clients, Searches(cl), NEW d, NEW s,
         dense' = [dense EXCEPT ![ConnOf[cl]] = d],
         results' = [results EXCEPT ![ConnOf[cl]] = s],
         \A e \in d : e \in Entries /\ e = Entry(e.id, vectors[e.id]) /\ gen # EmptyGen,
         \A x \in s : x \in Results /\ x.answer = Abstract!Truth(x.key),
         reply' \in Answers \cup {Nil, Failed}
  PROVE  IInv'
<1> DEFINE c == ConnOf[cl]
<1>0. c \in Conns
  OBVIOUS
<1>1. /\ stale' = [stale EXCEPT ![c] = FALSE]
      /\ UNCHANGED <<dbvars, objects, holder, task>>
  BY DEF Searches
<1>2. TypeOK'
  <2>1. dense' \in [Conns -> SUBSET Entries] /\ results' \in [Conns -> SUBSET Results]
    BY <1>0 DEF IInv, TypeOK
  <2> QED
    BY <1>1, <2>1 DEF IInv, TypeOK, dbvars
<1>3. VectorsCurrent' /\ PlacementFaithful' /\ TasksSound'
  BY <1>1 DEF IInv, VectorsCurrent, PlacementFaithful, TasksSound, Segment, dbvars
<1>4. CachesCoherent'
  <2>1. ASSUME NEW b \in Conns, ~stale'[b]
        PROVE  /\ \A e \in dense'[b] : e = Entry(e.id, vectors[e.id]) /\ gen # EmptyGen
               /\ \A x \in results'[b] : x.answer = Abstract!Truth(x.key)
    <3>1. CASE b = c
      BY <3>1 DEF IInv, TypeOK
    <3>2. CASE b # c
      <4>1. ~stale[b] /\ dense'[b] = dense[b] /\ results'[b] = results[b]
        BY <1>1, <2>1, <3>2 DEF IInv, TypeOK
      <4> QED
        BY <4>1 DEF IInv, CachesCoherent
    <3> QED
      BY <3>1, <3>2
  <2>2. UNCHANGED dbvars
    BY <1>1
  <2> QED
    BY <2>1, <2>2 DEF CachesCoherent, dbvars, Entry, Abstract!Truth, Abstract!Answer
<1> QED
  BY <1>2, <1>3, <1>4 DEF IInv

\* The true answers are answers.
LEMMA AnswerType ==
  ASSUME IInv, gen # Nil, NEW v \in Embeddings \cup {Nil}
  PROVE  AnswerWith(v) \in Answers
BY DEF IInv, TypeOK, AnswerWith, Answers

LEMMA SearchHitInv ==
  ASSUME IInv, NEW cl \in Clients, NEW k \in Keys, SearchHit(cl, k)
  PROVE  IInv' /\ reply' = Abstract!Truth(k)
<1> DEFINE c == ConnOf[cl]
<1>1. PICK x \in Refreshed(results, c) : x.key = k /\ reply' = x.answer
  BY DEF SearchHit
<1>2. c \in Conns
  OBVIOUS
<1>3. x \in Results /\ x.answer = Abstract!Truth(x.key)
  BY <1>1, <1>2, RefreshedTrue
<1>4. reply' \in Answers
  BY <1>1, <1>3 DEF Results
<1>5. IInv'
  BY <1>2, <1>4, RefreshedTrue, SearchInv DEF SearchHit
<1> QED
  BY <1>1, <1>3, <1>5

LEMMA SearchLexicalInv ==
  ASSUME IInv, NEW cl \in Clients, NEW kept \in BOOLEAN, SearchLexical(cl, kept)
  PROVE  IInv' /\ reply' = Abstract!Truth(Lexical)
<1> DEFINE c == ConnOf[cl]
           a == AnswerWith(Nil)
<1>1. c \in Conns /\ gen # Nil /\ reply' = a
  BY DEF SearchLexical
<1>2. a \in Answers
  BY <1>1, AnswerType
<1>3. a = Abstract!Truth(Lexical)
  BY <1>1 DEF AnswerWith, Abstract!Truth, Abstract!Answer
<1>4. PICK s : /\ results' = [results EXCEPT ![c] = s]
               /\ s \subseteq Refreshed(results, c) \cup {[key |-> Lexical, answer |-> a]}
  BY <1>1, KeepSubset DEF SearchLexical, IInv
<1>5. [key |-> Lexical, answer |-> a] \in Results
  BY <1>2 DEF Results, Keys
<1>6. \A x \in s : x \in Results /\ x.answer = Abstract!Truth(x.key)
  BY <1>1, <1>3, <1>4, <1>5, RefreshedTrue
<1>7. IInv'
  <2>1. Searches(cl) /\ dense' = [dense EXCEPT ![c] = Refreshed(dense, c)]
    BY DEF SearchLexical, Miss
  <2>2. \A e \in Refreshed(dense, c) :
          e \in Entries /\ e = Entry(e.id, vectors[e.id]) /\ gen # EmptyGen
    BY <1>1, RefreshedTrue
  <2>3. reply' \in Answers
    BY <1>1, <1>2
  <2> QED
    BY <1>4, <1>6, <2>1, <2>2, <2>3, SearchInv
<1> QED
  BY <1>1, <1>3, <1>7

LEMMA SearchDenseInv ==
  ASSUME IInv, NEW cl \in Clients, NEW i \in Ids, NEW kept \in BOOLEAN,
         SearchDense(cl, i, kept)
  PROVE  IInv' /\ reply' = Abstract!Truth(i)
<1> DEFINE c == ConnOf[cl]
           a == AnswerWith(vectors[i])
<1>1. c \in Conns /\ gen # Nil
  BY DEF SearchDense
<1>2. PICK e \in Matrix(c, i) :
        /\ reply' = [of |-> gen, rows |-> e.rows, data |-> e.data]
        /\ dense' = [dense EXCEPT ![c] = Refreshed(dense, c) \cup {e}]
        /\ Keep(c, i, [of |-> gen, rows |-> e.rows, data |-> e.data], kept)
  BY DEF SearchDense
<1>3. e = Entry(i, vectors[i]) /\ e \in Entries /\ vectors[i] \in Embeddings
      /\ gen # EmptyGen
  BY <1>1, <1>2, MatrixTrue
<1>4. e.id = i /\ [of |-> gen, rows |-> e.rows, data |-> e.data] = a
  BY <1>3 DEF Entry, AnswerWith
<1>5. a \in Answers
  BY <1>1, <1>3, AnswerType
<1>6. a = Abstract!Truth(i)
  BY <1>1, <1>3 DEF AnswerWith, Abstract!Truth, Abstract!Answer
<1>7. PICK s : /\ results' = [results EXCEPT ![c] = s]
               /\ s \subseteq Refreshed(results, c) \cup {[key |-> i, answer |-> a]}
  BY <1>1, <1>2, <1>4, KeepSubset DEF IInv
<1>8. [key |-> i, answer |-> a] \in Results
  BY <1>5 DEF Results, Keys
<1>9. \A x \in s : x \in Results /\ x.answer = Abstract!Truth(x.key)
  BY <1>1, <1>6, <1>7, <1>8, RefreshedTrue
<1>10. \A x \in Refreshed(dense, c) \cup {e} :
         x \in Entries /\ x = Entry(x.id, vectors[x.id]) /\ gen # EmptyGen
  BY <1>1, <1>3, <1>4, RefreshedTrue
<1>11. Searches(cl)
  BY DEF SearchDense, Miss
<1>12. reply' \in Answers
  BY <1>2, <1>4, <1>5
<1>13. IInv'
  BY <1>1, <1>2, <1>7, <1>9, <1>10, <1>11, <1>12, SearchInv
<1> QED
  BY <1>2, <1>4, <1>6, <1>13

LEMMA SearchFailInv ==
  ASSUME IInv, NEW cl \in Clients, NEW k \in Keys, NEW kept \in BOOLEAN,
         SearchFail(cl, k, kept)
  PROVE  IInv' /\ reply' = Abstract!Truth(k)
<1> DEFINE c == ConnOf[cl]
<1>1. c \in Conns /\ reply' = Failed /\ Searches(cl)
  BY DEF SearchFail, Miss
<1>2. IInv'
  BY <1>1, RefreshedTrue, SearchInv DEF SearchFail
<1>3. CASE gen = Nil
  BY <1>1, <1>2, <1>3 DEF Abstract!Truth
<1>4. CASE gen # Nil
  <2>1. k \in Ids /\ k # Lexical /\ Matrix(c, k) = {}
    BY <1>4 DEF SearchFail, Keys
  <2>2. gen = EmptyGen \/ vectors[k] = Nil
    BY <1>1, <1>4, <2>1, MatrixFound
  <2> QED
    BY <1>1, <1>2, <1>4, <2>1, <2>2 DEF Abstract!Truth
<1> QED
  BY <1>1, <1>2, <1>3, <1>4

LEMMA ReopenInv ==
  ASSUME IInv, NEW c \in Conns, Reopen(c)
  PROVE  IInv'
<1>1. CachesCoherent' /\ stale' \in [Conns -> BOOLEAN]
      /\ dense' \in [Conns -> SUBSET Entries] /\ results' \in [Conns -> SUBSET Results]
  BY ClearedCoherent DEF Reopen, IInv
<1>2. task' \in [Clients -> Tasks] /\ holder' \in [Conns -> Clients \cup {Nil}]
  BY RestingType DEF Reopen, IInv, TypeOK
<1>3. TypeOK'
  BY <1>1, <1>2 DEF Reopen, IInv, TypeOK, dbvars
<1>4. VectorsCurrent' /\ PlacementFaithful'
  BY DEF Reopen, IInv, VectorsCurrent, PlacementFaithful, dbvars
<1>5. TasksSound'
  <2>1. \A cl \in Clients : task'[cl] = task[cl] \/ task'[cl] = Resting
    BY DEF Reopen
  <2>2. Resting.step = "idle" /\ UNCHANGED objects
    BY DEF Resting, Reopen
  <2> QED
    BY <2>1, <2>2 DEF IInv, TasksSound, Segment
<1> QED
  BY <1>1, <1>3, <1>4, <1>5 DEF IInv
-----------------------------------------------------------------------------
(* Every step keeps the invariant and is a step, or a stutter, of           *)
(* AbstractIndex.                                                           *)

LEMMA WriteInv ==
  ASSUME IInv, NEW cl \in Clients, Write(cl)
  PROVE  IInv'
<1>1. CASE \E g \in Gens, l \in Layouts : ReplaceScope(cl, g, l)
  BY <1>1, ReplaceInv
<1>2. CASE \E p \in Profiles : EmbedStart(cl, p)
  BY <1>2, EmbedStartInv
<1>3. CASE \E r \in Runs : EmbedPublish(cl, r)
  BY <1>3, EmbedPublishInv
<1>4. CASE \E m \in Models : LegacyStart(cl, m)
  BY <1>4, LegacyStartInv
<1>5. CASE \E r \in Runs : LegacyPublish(cl, r)
  BY <1>5, LegacyPublishInv
<1>6. CASE LegacyNothingMissing(cl)
  BY <1>6, LegacyNothingMissingInv
<1>7. CASE \E p \in Profiles, root \in Roots : ExportStart(cl, p, root)
  BY <1>7, ExportStartInv
<1>8. CASE ExportCreate(cl)
  BY <1>8, ExportCreateInv
<1>9. CASE ExportPublish(cl)
  BY <1>9, ExportPublishInv
<1>10. CASE EmbedFail(cl) \/ LegacyFail(cl) \/ ExportFail(cl)
  BY <1>10, FailInv
<1> QED
  BY <1>1, <1>2, <1>3, <1>4, <1>5, <1>6, <1>7, <1>8, <1>9, <1>10 DEF Write

LEMMA NextInv == IInv /\ [Next]_vars => IInv'
<1> SUFFICES ASSUME IInv, [Next]_vars PROVE IInv'
  OBVIOUS
<1>1. CASE \E cl \in Clients : Write(cl)
  BY <1>1, WriteInv
<1>2. CASE \E cl \in Clients : Search(cl)
  BY <1>2, SearchHitInv, SearchLexicalInv, SearchDenseInv, SearchFailInv DEF Search
<1>3. CASE \E c \in Conns : Reopen(c)
  BY <1>3, ReopenInv
<1>4. CASE UNCHANGED vars
  <2>1. TypeOK' /\ TasksSound'
    BY <1>4 DEF vars, dbvars, cachevars, IInv, TypeOK, TasksSound, Segment
  <2>2. UNCHANGED <<dbvars, cachevars>> /\ objects \subseteq objects'
    BY <1>4 DEF vars
  <2> QED
    BY <2>1, <2>2, TaskStep DEF IInv
<1> QED
  BY <1>1, <1>2, <1>3, <1>4 DEF Next

\* The invariant holds throughout every behaviour of the index.
THEOREM Invariance == Spec => []IInv
BY InitInv, NextInv, PTL DEF Spec

\* Every variable keeps its type.
THEOREM TypeCorrect == Spec => []TypeOK
BY Invariance, PTL DEF IInv

\* No embedding outlives the documents it was computed from, and a profile is
\* marked complete exactly when its vectors are there.
THEOREM VectorsAlwaysCurrent == Spec => []VectorsCurrent
BY Invariance, PTL DEF IInv

\* A published manifest names an existing segment with the committed vectors.
THEOREM PlacementsAlwaysFaithful == Spec => []PlacementFaithful
BY Invariance, PTL DEF IInv

\* The caches of a connection that has seen the last commit hold the truth.
THEOREM CachesAlwaysCoherent == Spec => []CachesCoherent
BY Invariance, PTL DEF IInv

LEMMA InitRefines == Init => Abstract!Init
BY DEF Init, Abstract!Init

LEMMA WriteRefines ==
  ASSUME IInv, NEW cl \in Clients, Write(cl)
  PROVE  Abstract!Next \/ UNCHANGED Abstract!avars
<1>1. ASSUME NEW g \in Gens, NEW l \in Layouts, ReplaceScope(cl, g, l)
      PROVE  Abstract!Replace(g, l)
  BY <1>1 DEF ReplaceScope, Abstract!Replace
<1>2. ASSUME NEW r \in Runs, EmbedPublish(cl, r)
      PROVE  task[cl].id \in Ids /\ Abstract!Publish(task[cl].id, r)
  BY <1>2 DEF EmbedPublish, At, SourceUnchanged, IInv, TasksSound, Ids, Abstract!Publish
<1>3. ASSUME NEW r \in Runs, LegacyPublish(cl, r)
      PROVE  task[cl].id \in Ids /\ Abstract!Publish(task[cl].id, r)
  BY <1>3 DEF LegacyPublish, At, SourceUnchanged, IInv, TasksSound, Ids, Abstract!Publish
<1>4. ASSUME \/ \E p \in Profiles : EmbedStart(cl, p)
             \/ EmbedFail(cl)
             \/ \E m \in Models : LegacyStart(cl, m)
             \/ LegacyNothingMissing(cl)
             \/ LegacyFail(cl)
             \/ \E p \in Profiles, root \in Roots : ExportStart(cl, p, root)
             \/ ExportCreate(cl)
             \/ ExportPublish(cl)
             \/ ExportFail(cl)
      PROVE  UNCHANGED Abstract!avars
  BY <1>4 DEF EmbedStart, EmbedFail, LegacyStart, LegacyNothingMissing, LegacyFail,
     ExportStart, ExportCreate, ExportPublish, ExportFail, dbvars, Abstract!avars
<1> QED
  BY <1>1, <1>2, <1>3, <1>4 DEF Write, Abstract!Next

LEMMA SearchRefines ==
  ASSUME IInv, NEW cl \in Clients, Search(cl)
  PROVE  Abstract!Next
<1>1. \E k \in Keys : reply' = Abstract!Truth(k)
  <2>1. \A i \in Ids : i \in Keys
    BY DEF Keys
  <2>2. Lexical \in Keys
    BY DEF Keys
  <2> QED
    BY <2>1, <2>2, SearchHitInv, SearchLexicalInv, SearchDenseInv, SearchFailInv
       DEF Search
<1>2. UNCHANGED dbvars
  BY DEF Search, SearchHit, SearchLexical, SearchDense, SearchFail, Miss, Searches
<1> QED
  BY <1>1, <1>2 DEF dbvars, Keys, Abstract!Next, Abstract!Query

LEMMA NextRefines == IInv /\ [Next]_vars => [Abstract!Next]_(Abstract!avars)
<1> SUFFICES ASSUME IInv, [Next]_vars
             PROVE  Abstract!Next \/ UNCHANGED Abstract!avars
  OBVIOUS
<1>1. CASE \E cl \in Clients : Write(cl)
  BY <1>1, WriteRefines
<1>2. CASE \E cl \in Clients : Search(cl)
  BY <1>2, SearchRefines
<1>3. CASE \E c \in Conns : Reopen(c)
  BY <1>3 DEF Reopen, dbvars, Abstract!avars
<1>4. CASE UNCHANGED vars
  BY <1>4 DEF vars, dbvars, Abstract!avars
<1> QED
  BY <1>1, <1>2, <1>3, <1>4 DEF Next

\* Whatever connection, cache or segment serves a query, the answer is the one
\* the committed documents and embeddings give: DerivedIndex implements
\* AbstractIndex.
THEOREM Refinement == Spec => AbstractSpec
BY Invariance, InitRefines, NextRefines, PTL DEF Spec, AbstractSpec, Abstract!Spec
=============================================================================

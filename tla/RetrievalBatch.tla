--------------------------- MODULE RetrievalBatch ---------------------------
(***************************************************************************)
(* How one connection computes its channels for a query, alone, in a batch *)
(* and with an overlapped encoder: SearchIndex._search, _dense_search,     *)
(* _lexical_channels, search_many and search_overlap (thm/retrieval.py),   *)
(* in hybrid mode.                                                         *)
(*                                                                         *)
(* The three share fields of the connection: the cache of query vectors,   *)
(* what a batch has prepared for _search (_batch_dense, _batch_lexical)    *)
(* and the future of an overlapped encoding (_query_future).  A call holds *)
(* the connection's lock and one snapshot of the database throughout, and  *)
(* any encoding may raise.  What ranks is represented by the query and the *)
(* generation that it was computed from.                                   *)
(***************************************************************************)
EXTENDS Naturals, Sequences, SequencesExt

CONSTANTS
  Queries,
  CacheSize,   \* query vectors kept (256)
  ChunkSize,   \* query_batch_size
  MaxBatch,    \* bound: queries in a batch
  Generations, \* bound: 0 .. the last generation of the scope
  Nil

VARIABLES
  generation,
  cache,       \* the queries whose vectors are kept, oldest first
  dense,       \* _batch_dense: [of, at], or Nil
  lexical,     \* _batch_lexical: the queries prepared, at a generation, or Nil
  future,      \* _query_future: the query in encoding, or Nil
  call,        \* the call in execution: its kind and the queries still to do
  chunk,       \* of a batch: the queries of the chunk; their vectors; the next
  answer       \* of the last answered query: [of, dense, lexical], or Nil

vars == <<generation, cache, dense, lexical, future, call, chunk, answer>>

Idle == [kind |-> "none", queries |-> << >>]
NoChunk == [queries |-> << >>, vectors |-> << >>]
At(q) == [of |-> q, at |-> generation]
Cached(q) == q \in ToSet(cache)

\* An insertion moves nothing: a query that is in the cache keeps its age.
Kept(c, q) ==
  LET added == IF q \in ToSet(c) THEN c ELSE Append(c, q)
  IN  IF Len(added) > CacheSize THEN Tail(added) ELSE added

-----------------------------------------------------------------------------
(* _search                                                                 *)

\* _dense_search: the ranking that the batch has prepared for this query; or the
\* vector is cached, or the one of the future, or encoded now.
DenseOf(batch, q) ==
  IF batch # Nil /\ batch.of = q THEN batch.ranking
  ELSE IF Cached(q) \/ future = Nil THEN At(q)
  ELSE At(future)

\* _lexical_channels, unless the batch has prepared them.
LexicalOf(q) == IF lexical # Nil /\ q \in lexical.queries
                  THEN [of |-> q, at |-> lexical.at] ELSE At(q)

Ranked(batch, q) == [query |-> At(q), dense |-> DenseOf(batch, q), lexical |-> LexicalOf(q)]
Needs(q) == ~(dense # Nil /\ dense.of = q) /\ ~Cached(q)

\* How every call ends, also one that raises.
Release ==
  /\ call' = Idle /\ chunk' = NoChunk
  /\ dense' = Nil /\ lexical' = Nil /\ future' = Nil

-----------------------------------------------------------------------------
(* search and search_overlap                                               *)

\* Another connection writes: this one sees it between its calls only, and
\* drops its caches, but for the vectors of queries.
Replace ==
  /\ call = Idle
  /\ generation + 1 \in Generations
  /\ generation' = generation + 1
  /\ UNCHANGED <<cache, dense, lexical, future, call, chunk, answer>>

Search(q) ==
  /\ call = Idle
  /\ answer' = Ranked(dense, q)
  /\ cache' = IF Needs(q) THEN Kept(cache, q) ELSE cache
  /\ UNCHANGED <<generation, dense, lexical, future, call, chunk>>

Overlap(q) ==
  /\ call = Idle /\ ~Cached(q)
  /\ future' = q
  /\ call' = [kind |-> "overlap", queries |-> <<q>>]
  /\ UNCHANGED <<generation, cache, dense, lexical, chunk, answer>>

OverlapEnds_KeepsFuture ==
  /\ call.kind = "overlap"
  /\ LET q == Head(call.queries)
     IN  answer' = Ranked(dense, q) /\ cache' = Kept(cache, q)
  /\ call' = Idle
  /\ UNCHANGED <<generation, dense, lexical, future, chunk>>

OverlapEnds ==
  /\ call.kind = "overlap"
  /\ LET q == Head(call.queries)
     IN  answer' = Ranked(dense, q) /\ cache' = Kept(cache, q)
  /\ future' = Nil
  /\ call' = Idle
  /\ UNCHANGED <<generation, dense, lexical, chunk>>

-----------------------------------------------------------------------------
(* search_many                                                             *)

SearchMany(queries) ==
  /\ call = Idle
  /\ call' = [kind |-> "many", queries |-> queries]
  /\ UNCHANGED <<generation, cache, dense, lexical, future, chunk, answer>>

\* The queries that are not cached, each once.
Misses(queries) ==
  LET add(found, q) == IF Cached(q) \/ q \in ToSet(found) THEN found ELSE Append(found, q)
  IN  FoldLeft(add, << >>, queries)

VectorsOf_FromCache(queries) ==
  LET later == FoldLeft(Kept, cache, Misses(queries))
  IN  [i \in DOMAIN queries |-> IF queries[i] \in ToSet(later) THEN queries[i] ELSE Nil]

\* The vectors of a chunk, by position: those of the cache are taken before the
\* new ones are put into it, and may push them out.
VectorsOf(queries) == [i \in DOMAIN queries |-> queries[i]]

\* One chunk is encoded, with its lexical channels prepared meanwhile if the
\* batch overlaps and there is something to encode.
Encode ==
  /\ call.kind = "many" /\ chunk = NoChunk /\ call.queries # << >>
  /\ LET n == IF Len(call.queries) < ChunkSize THEN Len(call.queries) ELSE ChunkSize
         queries == SubSeq(call.queries, 1, n)
     IN  /\ chunk' = [queries |-> queries, vectors |-> VectorsOf(queries)]
         /\ call' = [call EXCEPT !.queries = SubSeq(@, n + 1, Len(@))]
         /\ cache' = FoldLeft(Kept, cache, Misses(queries))
         /\ \/ lexical' = [queries |-> {}, at |-> generation]
            \/ /\ Misses(queries) # << >>
               /\ lexical' = [queries |-> ToSet(queries), at |-> generation]
  /\ UNCHANGED <<generation, dense, future, answer>>

\* The ranking of the next query of the chunk is handed to _search.
Row ==
  /\ chunk.queries # << >>
  /\ LET q == Head(chunk.queries)
         prepared == [of |-> q, ranking |-> At(Head(chunk.vectors))]
     IN  dense' = prepared /\ answer' = Ranked(prepared, q)
  /\ chunk' = [queries |-> Tail(chunk.queries), vectors |-> Tail(chunk.vectors)]
  /\ UNCHANGED <<generation, cache, lexical, future, call>>

ManyEnds_KeepsBatch ==
  /\ call.kind = "many" /\ chunk = NoChunk /\ call.queries = << >>
  /\ call' = Idle
  /\ UNCHANGED <<generation, cache, dense, lexical, future, chunk, answer>>

ManyEnds ==
  /\ call.kind = "many" /\ chunk = NoChunk /\ call.queries = << >>
  /\ Release
  /\ UNCHANGED <<generation, cache, answer>>

\* The encoder, the lexical search or the provider raises.
Fails ==
  /\ call # Idle
  /\ Release
  /\ UNCHANGED <<generation, cache, answer>>

Init ==
  /\ generation = 0
  /\ cache = << >>
  /\ dense = Nil /\ lexical = Nil /\ future = Nil
  /\ call = Idle /\ chunk = NoChunk
  /\ answer = Nil

Batches == BoundedSeq(Queries, MaxBatch) \ {<< >>}

Next ==
  \/ Replace
  \/ \E q \in Queries : Search(q)
  \/ \E q \in Queries : Overlap(q)
  \/ OverlapEnds
  \/ \E queries \in Batches : SearchMany(queries)
  \/ Encode
  \/ Row
  \/ ManyEnds
  \/ Fails

Spec == Init /\ [][Next]_vars

-----------------------------------------------------------------------------
(* Properties                                                              *)

Rankings == [of : Queries \cup {Nil}, at : Generations]

TypeOK ==
  /\ generation \in Generations
  /\ cache \in BoundedSeq(Queries, CacheSize)
  /\ dense \in [of : Queries, ranking : Rankings] \cup {Nil}
  /\ lexical \in [queries : SUBSET Queries, at : Generations] \cup {Nil}
  /\ future \in Queries \cup {Nil}
  /\ answer \in [query : Rankings, dense : Rankings, lexical : Rankings] \cup {Nil}

\* Whatever is cached, prepared by a batch, overlapped, pushed out of the cache
\* or left behind by a call that raised, each answer is ranked by the channels
\* of its own query, over the rows of the generation that it names.
RankedByOwnQuery ==
  answer # Nil => answer.dense = answer.query /\ answer.lexical = answer.query
=============================================================================

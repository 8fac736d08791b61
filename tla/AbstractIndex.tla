--------------------------- MODULE AbstractIndex ---------------------------
(***************************************************************************)
(* What a derived THM retrieval index promises to those who query it,      *)
(* whichever connection, cache or physical placement serves the query:     *)
(* one committed set of documents, at most one published embedding per     *)
(* embedding identity, and answers computed from exactly those.            *)
(* DerivedIndex (thm/retrieval.py, thm/physical/segments.py) implements it.*)
(***************************************************************************)
CONSTANTS
  Ids,        \* embedding identities: profiles and legacy model identities
  Lexical,    \* the query key that needs no embedding
  Gens,       \* document sets; a generation is the fingerprint of its set
  EmptyGen,   \* the generation of the empty document set
  Runs,       \* what an encoder run may return for the same texts
  Layouts,    \* how SQLite numbers the rows of a document set
  Nil, Failed

VARIABLES
  gen,        \* the committed generation, Nil before the first
  layout,     \* the row numbers of its documents
  vectors,    \* the published embedding of each identity, or Nil
  reply       \* the latest answer given to a query

avars == <<gen, layout, vectors, reply>>

Embeddings == [of : Gens, run : Runs]

\* The matrix that answers a dense query: these vectors against these rows.
Answer(g, l, v) == [of |-> g, rows |-> l, data |-> v]

\* The one right answer to a query in the committed state.
Truth(k) ==
  IF gen = Nil THEN Failed
  ELSE IF k = Lexical THEN Answer(gen, layout, Nil)
  ELSE IF gen = EmptyGen \/ vectors[k] = Nil THEN Failed
  ELSE Answer(gen, layout, vectors[k])

Init ==
  /\ gen = Nil
  /\ layout \in Layouts
  /\ vectors = [i \in Ids |-> Nil]
  /\ reply = Nil

Replace(g, l) ==
  /\ g # gen
  /\ gen' = g
  /\ layout' = l
  /\ vectors' = [i \in Ids |-> Nil]
  /\ UNCHANGED reply

\* An embedding is published for the documents it was computed from.
Publish(i, r) ==
  /\ gen # Nil
  /\ vectors' = [vectors EXCEPT ![i] = [of |-> gen, run |-> r]]
  /\ UNCHANGED <<gen, layout, reply>>

Query(k) ==
  /\ reply' = Truth(k)
  /\ UNCHANGED <<gen, layout, vectors>>

Next ==
  \/ \E g \in Gens, l \in Layouts : Replace(g, l)
  \/ \E i \in Ids, r \in Runs : Publish(i, r)
  \/ \E k \in Ids \cup {Lexical} : Query(k)

Spec == Init /\ [][Next]_avars
=============================================================================

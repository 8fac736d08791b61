---------------------------- MODULE ShardedIndex ----------------------------
(***************************************************************************)
(* The index over several devices, thm/runtime/fabric/multidevice.py: the  *)
(* rows are dealt to the providers in turn, a rebuild replaces all shards  *)
(* at once, and a search merges the rankings of the shards.  The lock is   *)
(* held through each method.  Closing a shard may raise; what is left is   *)
(* retired again before the next rebuild.                                  *)
(***************************************************************************)
EXTENDS Naturals, FiniteSets, SequencesExt

CONSTANTS
  NProviders,
  NRows,
  Scores,     \* what a row may score for the query
  NBuilds     \* rebuilds, each of a generation of its own

Providers == 0..(NProviders - 1)
Rows == 0..(NRows - 1)
Shards == {h \in (1..NBuilds) \X Providers : h[2] < NRows}

VARIABLES
  shards, retired,   \* the shards that serve, and those that could not be closed
  disposed,          \* the shards that are closed
  build,             \* rebuilds so far
  score,             \* of each row of the generation that serves
  closed,
  reply              \* the last ranking by these shards: [score, k, rows]

vars == <<shards, retired, disposed, build, score, closed, reply>>

Init ==
  /\ shards = {} /\ retired = {} /\ disposed = {}
  /\ build = 0
  /\ score = [r \in Rows |-> 0]
  /\ closed = FALSE
  /\ reply = <<>>

\* _retire: every one is tried, and those that raise are kept for a retry.
Retire(due) ==
  \E failed \in SUBSET due :
    /\ retired' = failed
    /\ disposed' = disposed \cup (due \ failed)

Refused ==
  /\ build < NBuilds /\ build' = build + 1
  /\ UNCHANGED <<shards, score, closed, reply>>

\* What was left cannot be closed now either: nothing is built.
BuildBlocked ==
  /\ ~closed
  /\ Refused
  /\ Retire(retired)
  /\ retired' # {}

\* A provider raises, or allocates more than its budget: what was built goes.
BuildFails ==
  /\ ~closed
  /\ Refused
  /\ \E n \in 0..NProviders :
       LET new == {h \in Shards : h[1] = build' /\ h[2] < n} IN
       \E failed \in SUBSET new :
         /\ retired' = failed
         /\ disposed' = disposed \cup retired \cup (new \ failed)

\* The new shards are in place before the old ones are retired.
Built ==
  /\ ~closed
  /\ build < NBuilds /\ build' = build + 1
  /\ shards' = {h \in Shards : h[1] = build'}
  /\ score' \in [Rows -> Scores]
  /\ \E failed \in SUBSET shards :
       /\ retired' = failed
       /\ disposed' = disposed \cup retired \cup (shards \ failed)
  /\ reply' = <<>>
  /\ UNCHANGED closed

\* By score, then in the order of the rows: the nth of a ranking has n - 1 of
\* its rows before it.
Before(r, q) == score[r] > score[q] \/ (score[r] = score[q] /\ r < q)
Rank(r, rows) == Cardinality({q \in rows : Before(q, r)})
Top(rows, k) == [n \in 1..k |-> CHOOSE r \in rows : Rank(r, rows) = n - 1]
Least(m, n) == IF m < n THEN m ELSE n

\* Each shard returns the best rows of its own, as many as were asked for.
Best_Share(i, k) ==
  LET own == {r \in Rows : r % NProviders = i}
  IN  ToSet(Top(own, Least((k + NProviders - 1) \div NProviders, Cardinality(own))))
Best(i, k) ==
  LET own == {r \in Rows : r % NProviders = i}
  IN  ToSet(Top(own, Least(k, Cardinality(own))))

Search(k) ==
  /\ ~closed /\ shards # {}
  /\ reply' = [score |-> score, k |-> k,
               rows |-> Top(UNION {Best(h[2], k) : h \in shards}, k)]
  /\ UNCHANGED <<shards, retired, disposed, build, score, closed>>

Close_Once ==
  /\ Retire(shards)
  /\ shards' = {}
  /\ closed' = TRUE
  /\ UNCHANGED <<build, score, reply>>

\* close() may be called again, for what could not be closed before.
Close ==
  /\ Retire(shards \cup retired)
  /\ shards' = {}
  /\ closed' = TRUE
  /\ UNCHANGED <<build, score, reply>>

Next ==
  \/ BuildBlocked \/ BuildFails \/ Built
  \/ \E k \in 1..NRows : Search(k)
  \/ Close

Spec == Init /\ [][Next]_vars

-----------------------------------------------------------------------------
(* Properties                                                              *)

TypeOK ==
  /\ shards \subseteq Shards /\ retired \subseteq Shards /\ disposed \subseteq Shards
  /\ build \in 0..NBuilds
  /\ score \in [Rows -> Scores \cup {0}]
  /\ closed \in BOOLEAN

\* The merge of the shards' rankings is the ranking of the whole matrix: the
\* nth row has exactly n - 1 rows before it, equal scores by row order.
GlobalRanking ==
  reply # <<>> =>
    /\ Len(reply.rows) = reply.k
    /\ \A n \in 1..reply.k :
         LET r == reply.rows[n] IN
         Cardinality({q \in Rows : \/ reply.score[q] > reply.score[r]
                                   \/ reply.score[q] = reply.score[r] /\ q < r}) = n - 1

Status(h) ==
  IF h \in shards THEN "live"
  ELSE IF h \in retired THEN "retiring"
  ELSE IF h \in disposed THEN "released" ELSE "absent"

Lease == INSTANCE LeasedResource WITH
  Resources <- Shards,
  Users <- {},
  status <- [h \in Shards |-> Status(h)],
  holders <- [h \in Shards |-> {}]

\* No shard is lost between the tables, closed while it serves, or used again.
ShardLeases == Lease!Spec
=============================================================================

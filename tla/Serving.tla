------------------------------- MODULE Serving -------------------------------
(***************************************************************************)
(* The answers, beside the owners they are computed with (Owners): the     *)
(* scheduler of explicit profiles (RuntimeScheduler), the calls of one     *)
(* connection (RetrievalBatch), the worker that measures and serves a      *)
(* model (MeasurementWorker), an evaluation (EvaluationRun) and the        *)
(* harness server (HarnessServer).  They share no state.                   *)
(***************************************************************************)
EXTENDS Owners, Integers, Sequences

CONSTANTS
  Direct, Submitted, Profiles, Slots, PoolSize, Fallback, Sparse,     \* RuntimeScheduler
  Queries, CacheSize, ChunkSize, MaxBatch, LastGeneration,            \* RetrievalBatch
  ScopeGenerations, MaxWrites, Versions, Repeats,                     \* MeasurementWorker
  Tasks, Sources, Maximum, Traces, Observations, MaxSteps, Wall,      \* EvaluationRun
  MaxMessages                                                         \* HarnessServer

VARIABLES
  step, profile, answer, slots, encoder, phase, readers,
  generation, cache, dense, lexical, future, call, chunk, ranked,
  scope, writes, model, question, doing, replica, baseline, candidate, made,
  seen, pairs, consistent, result, delivered,
  todo, rows, receipt, parent, worker, trace, memory, saved, clock,
  vectors, opened, given, asked, told, serving

Scheduler == INSTANCE RuntimeScheduler

Connection == INSTANCE RetrievalBatch WITH
  Generations <- 0..LastGeneration, answer <- ranked

Measuring == INSTANCE MeasurementWorker WITH
  Generations <- ScopeGenerations, Contents <- Versions, None <- Nil,
  source <- scope, task <- question, step <- doing, artifact <- made, answer <- result

Evaluation == INSTANCE EvaluationRun WITH snapshot <- saved, None <- Nil

Server == INSTANCE HarnessServer WITH
  Null <- Nil, dense <- vectors, open <- opened, held <- given

schedulervars == <<step, profile, answer, slots, encoder, phase, readers>>
connectionvars == <<generation, cache, dense, lexical, future, call, chunk, ranked>>
measuringvars == <<scope, writes, model, question, doing, replica, baseline, candidate,
                   made, seen, pairs, consistent, result, delivered>>
evaluationvars == <<todo, rows, receipt, parent, worker, trace, memory, saved, clock>>
servervars == <<vectors, opened, given, asked, told, serving>>

\* Each takes its steps, whatever the others do.
Serving ==
  /\ Owning /\ Scheduler!Spec /\ Connection!Spec /\ Measuring!Spec
  /\ Evaluation!Spec /\ Server!Spec

ASSUME ServingAssumption ==
  /\ IsFiniteSet(Submitted) /\ Direct \cap Submitted = {} /\ Slots \in Nat
  /\ Nil \notin Direct \cup Submitted \cup Queries
  /\ Sparse \notin Direct \cup Submitted
  /\ Scores \subseteq Int /\ ChunkSize \in Nat /\ LastGeneration \in Nat
  /\ Versions \subseteq Nat /\ 1 \in Versions
  /\ Nil \notin Versions /\ Nil \notin ScopeGenerations
  /\ Repeats \in Nat \ {0} /\ MaxWrites \in Nat
  /\ IsFiniteSet(Tasks) /\ Sources \subseteq Seq(Tasks)
  /\ MaxSteps \in Nat \ {0} /\ Wall \in Nat /\ MaxMessages \in Nat

-----------------------------------------------------------------------------
(* Properties                                                              *)

\* No request is answered with what was computed for another one, whatever was
\* late, cached, prepared for a batch or left behind, nor over anything closed;
\* a search over the shards ranks as one over the whole matrix does; and what a
\* worker measures, compares and serves is of one generation and of the model that
\* it was asked for (model_worker.py, shadow_worker.py).
AnswersBelong ==
  /\ Scheduler!SearchesApart /\ Connection!RankedByOwnQuery /\ Devices!GlobalRanking
  /\ Measuring!ConsistentIsComparable /\ Measuring!ServesReferenceSource
  /\ Measuring!DeliveredIsAsked

\* What is reported was done: a campaign counts an outcome once, a run's result
\* comes from a worker that is gone with its memory closed, and each request of
\* the server has its one answer, whatever fails (thm/evaluation, mcp_server.py,
\* mcp_legacy_server.py, harness.py).
ReportsAreTrue ==
  /\ Evaluation!OutcomesAddUp /\ Evaluation!ResultIsFinal /\ Evaluation!MemoryIsWhatWasSeen
  /\ Server!NothingLost /\ Server!RequestsAnswered

\* A snapshot that is published is not overwritten (evaluation/memory.py: save).
SnapshotsStay == Evaluation!SnapshotIsKept
=============================================================================

-------------------------------- MODULE Owners --------------------------------
(***************************************************************************)
(* The owners of processes, memory, indexes and sessions, side by side:    *)
(* the model portfolio, the allocation pool (AllocationPool), the resident *)
(* indexes (ResidentHandles), the index over several devices               *)
(* (ShardedIndex), the extension sessions (ExtensionSession) and the       *)
(* parent of a worker's process group (WorkerGroup).  They share no state, *)
(* so that the system is the conjunction of the six.                       *)
(***************************************************************************)
EXTENDS ModelPortfolio

CONSTANTS
  Users,                                        \* threads that lease
  Allocations, AllocationSize(_), Capacity,     \* AllocationPool
  IndexKeys, KeyGen(_), KeySize(_), Budget, Replicas,      \* ResidentHandles
  NDevices, NRows, Scores, NBuilds,             \* ShardedIndex
  Files, ContentSize(_), MaxBytes, NSessions, MaxCalls,    \* ExtensionSession
  Helpers, Foreign, GroupBudget, MaxIO, Leader             \* WorkerGroup

VARIABLES
  allocated, evicted, released, leases, poolClosed,
  keyOf, kept, hosted, loaded, evicting, inflight, at,
  shards, retired, disposed, build, score, indexClosed, reply,
  source, current, binding, state, listed, staged, held, artifact, calls,
  group, io, waited, counters, hidepid, watcher, watching, sample, total

Pool == INSTANCE AllocationPool WITH Size <- AllocationSize, closed <- poolClosed

Handles == INSTANCE ResidentHandles WITH
  Keys <- IndexKeys, GenOf <- KeyGen, Size <- KeySize, Handles <- Replicas,
  open <- loaded, leases <- inflight

Devices == INSTANCE ShardedIndex WITH NProviders <- NDevices, closed <- indexClosed

Sessions == INSTANCE ExtensionSession WITH Size <- ContentSize

Group == INSTANCE WorkerGroup WITH
  Budget <- GroupBudget, state <- group, evidence <- counters, parent <- watcher,
  stage <- watching, seen <- total

portfoliovars == vars
poolvars == <<allocated, evicted, released, leases, poolClosed>>
handlevars == <<keyOf, kept, hosted, loaded, evicting, inflight, at>>
devicevars == <<shards, retired, disposed, build, score, indexClosed, reply>>
sessionvars == <<source, current, binding, state, listed, staged, held, artifact, calls>>
groupvars == <<group, io, waited, counters, hidepid, watcher, watching, sample, total>>

\* Each owner takes its steps, whatever the others do.
Owning ==
  Spec /\ Pool!Spec /\ Handles!Spec /\ Devices!Spec /\ Sessions!Spec /\ Group!Spec

ASSUME OwnersAssumption ==
  /\ Nil \notin Replicas \cup IndexKeys
  /\ NDevices \in Nat /\ NRows \in Nat /\ NBuilds \in Nat
  /\ NSessions \in Nat /\ MaxCalls \in Nat
  /\ \A a \in Allocations : AllocationSize(a) \in Nat
  /\ \A k \in IndexKeys : KeySize(k) \in Nat
  /\ IsFiniteSet(Files) /\ \A c \in Sessions!Contents : ContentSize(c) \in Nat
  /\ Capacity \in Nat /\ Budget \in Nat /\ MaxBytes \in Nat
  /\ Leader \notin Helpers /\ IsFiniteSet(Helpers) /\ Nil \notin Nat
  /\ GroupBudget \in Nat /\ MaxIO \in Nat

-----------------------------------------------------------------------------
(* Properties                                                              *)

\* What an owner holds is in its tables and within its budget, whatever releases
\* fail (allocation.py, indexes.py), and a session of an SDK works on the content
\* that was declared (extensions.py).
ResourcesAccounted ==
  Pool!Accounted /\ Handles!MemoryAccounted /\ Sessions!ArtifactsOwned

\* Whatever the members of a worker's group do, whoever they run as and whatever
\* /proc hides: an accepted result comes from a leader that has exited within its
\* budget and left nothing of its own running, and a group that was stopped is
\* empty (explorer.py: _run; resources.py: stop_owned_process_tree).
WorkersContained == Group!AcceptedIsAlone /\ Group!StoppedIsEmpty

\* Physical memory, an index, a shard and a session of an SDK are created once,
\* given back once, never while somebody holds them, and never handed out again
\* once their end has begun: each of the owners implements LeasedResource.
ResourcesLeased ==
  /\ Pool!PoolLeases /\ Handles!HandleLeases /\ Devices!ShardLeases
  /\ Sessions!SessionLeases
=============================================================================

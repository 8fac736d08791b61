--------------------------- MODULE AllocationPool ---------------------------
(***************************************************************************)
(* The pool of caller-owned physical memory, thm/physical/allocation.py.   *)
(* The pool's lock is held through each method; a lease is held between    *)
(* the two critical sections of acquire().  The release callback of an     *)
(* allocation belongs to its caller, and may raise: the pool keeps the     *)
(* allocation then, evicted, until a later eviction or close() retries.    *)
(***************************************************************************)
EXTENDS Naturals, FiniteSetsExt

CONSTANTS
  Allocations,   \* identities, uuid4: each is given out once
  Users,         \* the threads that may hold leases
  Size(_),       \* the bytes of each allocation
  Capacity

VARIABLES
  allocated,   \* the allocations the pool owns
  evicted,     \* those whose eviction was asked for
  released,    \* those whose release callback has returned
  leases,      \* the holders of each allocation: inflight counts them
  closed

vars == <<allocated, evicted, released, leases, closed>>

Init ==
  /\ allocated = {} /\ evicted = {} /\ released = {}
  /\ leases = [a \in Allocations |-> {}]
  /\ closed = FALSE

Bytes(s) == MapThenSumSet(Size, s)

\* What is evicted and not yet released still counts against the capacity.
Fits_LiveOnly(a) == Bytes((allocated \ evicted) \cup {a}) <= Capacity
Fits(a) == Bytes(allocated \cup {a}) <= Capacity

Allocate(a) ==
  /\ ~closed
  /\ a \notin allocated \cup released
  /\ Fits(a)
  /\ allocated' = allocated \cup {a}
  /\ UNCHANGED <<evicted, released, leases, closed>>

\* A lease of another generation or owner is refused as an evicted one is.
Acquire(a, u) ==
  /\ a \in allocated \ evicted
  /\ ~closed
  /\ u \notin leases[a]
  /\ leases' = [leases EXCEPT ![a] = @ \cup {u}]
  /\ UNCHANGED <<allocated, evicted, released, closed>>

\* _release for some of those due: the callbacks of the others raise.
Release(due) ==
  \E gone \in SUBSET due :
    /\ allocated' = allocated \ gone
    /\ released' = released \cup gone

Unleased(s) == {a \in s : leases[a] = {}}
Evictable_Leased(s) == s
Evictable(s) == Unleased(s)

\* The end of a lease: the last one releases an allocation already evicted.
Leave(a, u) ==
  /\ u \in leases[a]
  /\ leases' = [leases EXCEPT ![a] = @ \ {u}]
  /\ Release(IF a \in evicted /\ leases[a] = {u} THEN {a} ELSE {})
  /\ UNCHANGED <<evicted, closed>>

Evict(a) ==
  /\ a \in allocated
  /\ evicted' = evicted \cup {a}
  /\ Release(Evictable({a}))
  /\ UNCHANGED <<leases, closed>>

\* close() evicts what is left, past the callbacks that raise; it may be
\* called again.
Close ==
  /\ closed' = TRUE
  /\ evicted' = evicted \cup allocated
  /\ Release(Evictable(allocated))
  /\ UNCHANGED leases

Next ==
  \/ \E a \in Allocations : Allocate(a) \/ Evict(a)
  \/ \E a \in Allocations, u \in Users : Acquire(a, u) \/ Leave(a, u)
  \/ Close

Spec == Init /\ [][Next]_vars

-----------------------------------------------------------------------------
(* Properties                                                              *)

TypeOK ==
  /\ allocated \subseteq Allocations /\ released \subseteq Allocations
  /\ evicted \subseteq allocated \cup released
  /\ leases \in [Allocations -> SUBSET Users]
  /\ closed \in BOOLEAN

\* The memory the pool has not given back, in use or stuck behind a release
\* that failed, never exceeds the capacity; a lease keeps its memory owned;
\* and what a closed pool still owns is only leased or failed memory.
Accounted ==
  /\ Bytes(allocated) <= Capacity
  /\ \A a \in Allocations : leases[a] # {} => a \in allocated
  /\ allocated \cap released = {}
  /\ closed => allocated \subseteq evicted

Status(a) ==
  IF a \in released THEN "released"
  ELSE IF a \in evicted THEN "retiring"
  ELSE IF a \in allocated THEN "live" ELSE "absent"

Lease == INSTANCE LeasedResource WITH
  Resources <- Allocations,
  status <- [a \in Allocations |-> Status(a)],
  holders <- leases

\* An allocation is released at most once, after its last lease, and none is
\* leased once evicted, whatever callbacks raise and whoever closes the pool.
PoolLeases == Lease!Spec
=============================================================================

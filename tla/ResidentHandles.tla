-------------------------- MODULE ResidentHandles --------------------------
(***************************************************************************)
(* The resident indexes of one device: ResidentHandleManager, the provider *)
(* that builds them (ExactHost, clean_failed_build) and the searches of    *)
(* ResidentExecutor, in thm/runtime/fabric/indexes.py and service.py.  The *)
(* manager's lock is held from the look-up of an index to its publication, *)
(* and is free between that and the lease, and during the search.  The     *)
(* order of eviction, by last use in the code, is left open.               *)
(***************************************************************************)
EXTENDS Naturals, FiniteSetsExt

CONSTANTS
  Keys,       \* index identities
  GenOf(_),   \* the generation each one names
  Size(_),    \* the bytes of its index
  Budget,     \* the memory the manager may fill
  Handles,    \* index replicas; each is built once
  Users,      \* searching threads
  Nil

VARIABLES
  keyOf,      \* the identity each replica was built for, Nil before
  kept,       \* manager.handles
  hosted,     \* provider.handles
  open,       \* the replicas whose data is held
  evicting,
  leases,     \* who searches each replica: inflight counts them
  at          \* where each thread is: [step, key]

vars == <<keyOf, kept, hosted, open, evicting, leases, at>>

Idle == [step |-> "idle", key |-> Nil]

Init ==
  /\ keyOf = [h \in Handles |-> Nil]
  /\ kept = [k \in Keys |-> Nil] /\ hosted = [k \in Keys |-> Nil]
  /\ open = {} /\ evicting = {}
  /\ leases = [h \in Handles |-> {}]
  /\ at = [u \in Users |-> Idle]

Resident(m) == {h \in Handles : \E k \in Keys : m[k] = h}
Bytes(s) == MapThenSumSet(LAMBDA h : Size(keyOf[h]), s)
Without(m, s) == [k \in Keys |-> IF m[k] \in s THEN Nil ELSE m[k]]

\* What can be closed at once.
Unused_Leased(s) == s
Unused(s) == {h \in s : leases[h] = {}}

\* What a loop over the candidates removes, one after the other until enough.
Evictions(candidates, Enough(_)) ==
  {s \in SUBSET candidates :
     /\ s = candidates \/ Enough(s)
     /\ s = {} \/ \E h \in s : ~Enough(s \ {h})}

\* _remove of each: what is leased is marked, and goes with its last lease.
Remove(s) ==
  /\ kept' = Without(kept, Unused(s)) /\ hosted' = Without(hosted, Unused(s))
  /\ open' = open \ Unused(s)
  /\ evicting' = evicting \cup (s \ Unused(s))

\* invalidate(scope, generation) of a search for generation g.
Stale(g) == {h \in Resident(kept) : GenOf(keyOf[h]) # g}

Raise(u) == at' = [at EXCEPT ![u] = Idle]

\* The lock is taken: the indexes of other generations go, and an index that
\* is there is a hit, one that waits for its last lease included.  Otherwise it
\* does not fit, or its build fails and clean_failed_build undoes it.
LookUp(u, k) ==
  /\ at[u] = Idle
  /\ Remove(Stale(GenOf(k)))
  /\ at' = IF kept[k] = Nil THEN at ELSE [at EXCEPT ![u] = [step |-> "acquire", key |-> k]]
  /\ UNCHANGED <<keyOf, leases>>

\* A replica is built, and published in place of unused ones.  What was
\* removed stays removed when the rest is in use and there is no room.
Room_Unleased(s, k) == Bytes(Resident(kept) \ (s \cup evicting)) + Size(k) <= Budget
Room(s, k) == Bytes(Resident(kept) \ s) + Size(k) <= Budget

Build(u, k, h) ==
  LET stale == Stale(GenOf(k))
      Enough(s) == Room(s \cup Unused(stale), k)
  IN
  /\ at[u] = Idle /\ kept[k] = Nil /\ keyOf[h] = Nil
  /\ Size(k) <= Budget
  /\ keyOf' = [keyOf EXCEPT ![h] = k]
  /\ evicting' = evicting \cup (stale \ Unused(stale))
  /\ \E s \in Evictions(Unused(Resident(kept) \ stale), Enough) :
       LET gone == s \cup Unused(stale)
           New(m) == [Without(m, gone) EXCEPT ![k] = IF Enough(s) THEN h ELSE Nil]
       IN
       /\ kept' = New(kept) /\ hosted' = New(hosted)
       /\ open' = (open \ gone) \cup {g \in {h} : Enough(s)}
       /\ at' = IF Enough(s) THEN [at EXCEPT ![u] = [step |-> "acquire", key |-> k]] ELSE at
  /\ UNCHANGED leases

\* acquire(): the index may have been removed since, or be on its way out.
Leasable_Kept(k) == kept[k] # Nil
Leasable(k) == kept[k] # Nil /\ kept[k] \notin evicting

Acquire(u) ==
  LET k == at[u].key IN
  /\ at[u].step = "acquire"
  /\ IF Leasable(k)
     THEN /\ leases' = [leases EXCEPT ![kept[k]] = @ \cup {u}]
          /\ at' = [at EXCEPT ![u] = [step |-> "search", key |-> k]]
     ELSE UNCHANGED leases /\ Raise(u)
  /\ UNCHANGED <<keyOf, kept, hosted, open, evicting>>

\* The search ends, by an answer or an exception; its handle may go with it.
Leave(u) ==
  /\ at[u].step = "search"
  /\ \E h \in Handles :
       LET gone == {h} \cap evicting \cap {g \in Handles : leases[g] = {u}} IN
       /\ u \in leases[h]
       /\ leases' = [leases EXCEPT ![h] = @ \ {u}]
       /\ kept' = Without(kept, gone) /\ hosted' = Without(hosted, gone)
       /\ open' = open \ gone
       /\ evicting' = evicting \ gone
  /\ Raise(u)
  /\ UNCHANGED keyOf

\* pressure(): leased indexes are marked, and count until they are closed.
Pressure(available) ==
  LET Enough(s) == Bytes(Resident(kept) \ Unused(s)) <= available IN
  /\ \E s \in Evictions(Resident(kept), Enough) : Remove(s)
  /\ UNCHANGED <<keyOf, leases, at>>

\* invalidate() of everything, also by close().
Invalidate ==
  /\ Remove(Resident(kept))
  /\ UNCHANGED <<keyOf, leases, at>>

Next ==
  \/ \E u \in Users, k \in Keys : LookUp(u, k)
  \/ \E u \in Users, k \in Keys, h \in Handles : Build(u, k, h)
  \/ \E u \in Users : Acquire(u) \/ Leave(u)
  \/ \E available \in 0..Budget : Pressure(available)
  \/ Invalidate

Spec == Init /\ [][Next]_vars

-----------------------------------------------------------------------------
(* Properties                                                              *)

TypeOK ==
  /\ keyOf \in [Handles -> Keys \cup {Nil}]
  /\ kept \in [Keys -> Handles \cup {Nil}] /\ hosted \in [Keys -> Handles \cup {Nil}]
  /\ open \subseteq Handles /\ evicting \subseteq Handles
  /\ leases \in [Handles -> SUBSET Users]
  /\ at \in [Users -> [step : {"idle", "acquire", "search"}, key : Keys \cup {Nil}]]

\* Whatever is open is in both tables and fits the budget together, the
\* indexes that are only waiting for their last lease included; and such an
\* index does have a lease, or it would block its identity for good.
MemoryAccounted ==
  /\ open = Resident(kept) /\ hosted = kept
  /\ Bytes(open) <= Budget
  /\ \A h \in evicting : h \in open /\ leases[h] # {}

Status(h) ==
  IF keyOf[h] = Nil THEN "absent"
  ELSE IF h \notin open THEN "released"
  ELSE IF h \in evicting THEN "retiring" ELSE "live"

Lease == INSTANCE LeasedResource WITH
  Resources <- Handles,
  status <- [h \in Handles |-> Status(h)],
  holders <- leases

\* No index is closed under a search, nor searched once it is on its way out.
HandleLeases == Lease!Spec
=============================================================================

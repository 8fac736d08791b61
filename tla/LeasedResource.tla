--------------------------- MODULE LeasedResource ---------------------------
(***************************************************************************)
(* What every owner of memory or of an index in THM promises to those who  *)
(* use it: a resource is created once and released at most once, never     *)
(* while a lease of it is held, and no lease is given out once its         *)
(* retirement has begun.  A release that fails leaves it retiring.         *)
(* AllocationPool (thm/physical/allocation.py), ResidentHandles            *)
(* (thm/runtime/fabric/indexes.py), ShardedIndex (multidevice.py) and      *)
(* ExtensionSession (extensions.py) implement it.                          *)
(***************************************************************************)
EXTENDS Naturals

CONSTANTS Resources, Users

VARIABLES
  status,    \* where each resource is in its life
  holders    \* who holds a lease of it

Age == [absent |-> 1, live |-> 2, retiring |-> 3, released |-> 4]

Init ==
  /\ status = [r \in Resources |-> "absent"]
  /\ holders = [r \in Resources |-> {}]

\* What may happen to a resource in a step of its owner.
Evolves(r) ==
  /\ Age[status[r]] <= Age[status'[r]]   \* a life goes forward only
  /\ holders'[r] \subseteq Users
  /\ holders'[r] \ holders[r] # {} => status[r] = "live" /\ status'[r] = "live"
  /\ status'[r] \in {"absent", "released"} => holders'[r] = {}

Next == \A r \in Resources : Evolves(r)

Spec == Init /\ [][Next]_<<status, holders>>
=============================================================================

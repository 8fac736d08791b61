------------------------------ MODULE Memories ------------------------------
(***************************************************************************)
(* What is written down and has to stay, side by side: exported and        *)
(* migrated segments (SegmentMigration), the index of memory entries of    *)
(* scripts/thm.py (MemoryEngine), the ledger of observed mentions          *)
(* (AnchorScan) and the compiled engines (EngineCache).  They share no     *)
(* state, so that the system is the conjunction of the four.               *)
(***************************************************************************)
EXTENDS SegmentMigration

CONSTANTS
  Procs,       \* the processes of the command line, and those that load engines
  EntryTexts, Ids, Legacy, LastStage, LastDay, MaxRevision,      \* MemoryEngine
  MentionTexts, Required, Reach, Cap, Bounds, Days, Sessions,    \* AnchorScan
  MaxRecords, MaxDay, MaxVersion, MaxScans,
  Builds, MaxSource, MaxDriver, MaxDamaged, Damaged              \* EngineCache

VARIABLES
  sources, today, index, previous, lock, pc, local, next, claim, acked,
  records, date, version, scan, ledger,
  bundle, driver, engines, stage, prepared, content, engine, context

Engine == INSTANCE MemoryEngine WITH Texts <- EntryTexts, None <- Nil

Mentions == INSTANCE AnchorScan WITH Texts <- MentionTexts, today <- date

Engines == INSTANCE EngineCache WITH
  Processes <- Procs, Runs <- Builds,
  source <- bundle, cache <- engines, pc <- stage, artifact <- prepared, value <- content

migrationvars == vars
enginevars == <<sources, today, index, previous, lock, pc, local, next, claim, acked>>
mentionvars == <<records, date, version, scan, ledger>>
compiledvars == <<bundle, driver, engines, stage, prepared, content, engine, context>>

\* Each component takes its steps, whatever the others do.
Components == Spec /\ Engine!Spec /\ Mentions!Spec /\ Engines!Spec

\* What index.json may hold: the events of an entry, the entry, the table.
EventIds == Ids \cup (Engine!Kinds \cup {"legacy"}) \X Nat
Events == [id : EventIds, kind : Engine!Kinds \cup {"unverified"}, day : Nat]
EntryType ==
  [status : {"active", "deleted"}, pinned : BOOLEAN, stage : 0..LastStage,
   events : SUBSET Events, from : [stage : 0..LastStage, events : SUBSET Events]]
IndexType == [revision : Nat, entries : UNION {[T -> EntryType] : T \in SUBSET EntryTexts}]

\* The version 1 index is as the migration demands it, each event with the id it
\* has or gets there, and no event newer than the first day.
ASSUME MemoriesAssumption ==
  /\ LastStage \in Nat /\ LastDay \in Nat /\ MaxRevision \in Nat
  /\ DOMAIN Legacy \subseteq EntryTexts
  /\ \A t \in DOMAIN Legacy :
       /\ Legacy[t].pinned \in BOOLEAN /\ Legacy[t].stage \in 0..LastStage
       /\ IsFiniteSet(Legacy[t].events)
       /\ \A f \in Legacy[t].events :
            f.id \in EventIds /\ f.kind \in Engine!Kinds /\ f.evidence \in BOOLEAN /\ f.day = 0
       /\ \A f, g \in Legacy[t].events : f.id = g.id => f = g
  /\ MaxSource \in Nat /\ MaxDriver \in Nat
  /\ Nil \notin Procs /\ Nil \notin IndexType
  /\ Nil \notin Engines!Engines /\ Damaged \notin Engines!Engines

-----------------------------------------------------------------------------
(* Properties                                                              *)

\* Every component's variables stay in their types.
TypesOK == TypeOK /\ Engine!TypeOK /\ Engines!TypeOK

\* An acknowledged event is in the index once, its day counted once (thm.py), a
\* mention in the ledger once (observations.py), and an engine that is loaded was
\* built of the bundle and for the driver that its process uses, whoever edits,
\* upgrades or stops (rtx.py, store.py).
MemoriesKept ==
  /\ Engine!CountedOnce /\ Engine!AcknowledgedIsKept
  /\ Mentions!StoredOnce
  /\ Engines!EngineFits

\* A scan that did not look at everything says so (observations.py, sources.py).
ScanIsHonest == Mentions!TypeOK /\ Mentions!ReceiptIsHonest

\* No process undoes what another one wrote: entries keep their events and
\* tombstones (thm.py), and a published engine stays what it is (store.py).
MemoriesOnlyGrow == Engine!OnlyGrows /\ Engines!PublishedStays
=============================================================================

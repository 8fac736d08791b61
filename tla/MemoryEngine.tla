---------------------------- MODULE MemoryEngine ----------------------------
(***************************************************************************)
(* The index of memory entries kept by scripts/thm.py: several processes   *)
(* of the command line, and programs that use Engine.save, read and        *)
(* replace one index.json under an advisory file lock.  The two source     *)
(* files belong to the host, which edits them at any time; a process may   *)
(* be killed, or fail to write, between any two of its file operations.    *)
(*                                                                         *)
(* Dates count from the first day of a behaviour, which stands for those   *)
(* before it.  An event's kind stands for its type, note and evidence,     *)
(* which must agree when an id is reused.                                  *)
(***************************************************************************)
EXTENDS Naturals, FiniteSets, Functions

CONSTANTS
  Procs,
  Texts,       \* the texts of entries that the source files may hold
  Ids,         \* event ids given by callers
  Legacy,      \* the version 1 index there is to adopt: by text, the entries
               \* that have just one source
  LastStage,   \* len(REVIEW_LADDER) - 1
  LastDay, MaxRevision,
  None

VARIABLES
  sources,    \* the texts in MEMORY.md and USER.md
  today,
  index,      \* index.json, None if there is none
  previous,   \* index.previous.json
  lock,       \* the process that has index.lock
  pc,
  local,      \* what a process has read before it asks for the lock
  next,       \* what the process with the lock is about to write
  claim,      \* and the event, <<text, event>>, it will then acknowledge
  acked       \* the events that were acknowledged to a caller

vars == <<sources, today, index, previous, lock, pc, local, next, claim, acked>>

Kinds == {"hit", "confirm"}
Empty == [revision |-> 0, entries |-> [t \in {} |-> 0]]
Data(file) == IF file = None THEN Empty ELSE file

Init ==
  /\ sources \in SUBSET Texts
  /\ today = 0
  /\ index = None /\ previous = None
  /\ lock = None
  /\ pc = [p \in Procs |-> "idle"]
  /\ local = [p \in Procs |-> None]
  /\ next = None /\ claim = None
  /\ acked = {}

Files == <<index, previous>>

\* The host edits its memory files.
EditSources ==
  /\ sources' \in {s \in SUBSET Texts : Cardinality((s \ sources) \cup (sources \ s)) = 1}
  /\ UNCHANGED <<today, index, previous, lock, pc, local, next, claim, acked>>

Midnight ==
  /\ today < LastDay
  /\ today' = today + 1
  /\ UNCHANGED <<sources, index, previous, lock, pc, local, next, claim, acked>>

\* What a command reads of the sources, or a program of the index, before the
\* lock: seed() all texts, register() one of them, migrate() the legacy texts
\* that are found, and a user of Engine.save the index itself.
Read(p, stage, what) ==
  /\ pc[p] = "idle"
  /\ pc' = [pc EXCEPT ![p] = stage]
  /\ local' = [local EXCEPT ![p] = what]
  /\ UNCHANGED <<sources, today, index, previous, lock, next, claim, acked>>

ReadSeed(p) == Read(p, "seed", sources)
ReadRegister(p) == \E t \in sources : Read(p, "seed", {t})
ReadMigrate(p) == Read(p, "migrate", DOMAIN Legacy \cap sources)
ReadIndex(p) == index # None /\ Read(p, "edit", index)

\* from is a history: what an entry of version 1 came with.
NewEntry == [status |-> "active", pinned |-> FALSE, stage |-> 0, events |-> {},
             from |-> [stage |-> 0, events |-> {}]]

Entries == Data(index).entries

\* With the lock, and the index loaded and changed in memory: save it.
Save(p, entries, event) ==
  /\ lock = None /\ Data(index).revision < MaxRevision
  /\ lock' = p
  /\ pc' = [pc EXCEPT ![p] = "previous"]
  /\ local' = [local EXCEPT ![p] = None]
  /\ next' = [revision |-> Data(index).revision + 1, entries |-> entries]
  /\ claim' = event
  /\ UNCHANGED <<sources, today, index, previous, acked>>

\* Nothing to save: the lock is released, and event is in the index already.
Answer(p, event) ==
  /\ lock = None
  /\ pc' = [pc EXCEPT ![p] = "idle"]
  /\ local' = [local EXCEPT ![p] = None]
  /\ acked' = acked \cup ({event} \ {None})
  /\ UNCHANGED <<sources, today, index, previous, lock, next, claim>>

\* A text that is known is not added again, though its entry be a tombstone.
Added_Tombstones(texts) ==
  [t \in texts \cup DOMAIN Entries |->
     IF t \in DOMAIN Entries /\ (Entries[t].status = "active" \/ t \notin texts)
     THEN Entries[t] ELSE NewEntry]
Added(texts) ==
  [t \in texts \cup DOMAIN Entries |-> IF t \in DOMAIN Entries THEN Entries[t] ELSE NewEntry]

SeedOrRegister(p) ==
  /\ pc[p] = "seed"
  /\ IF Added(local[p]) # Entries THEN Save(p, Added(local[p]), None) ELSE Answer(p, None)

\* A confirmation adopted without evidence does not count.
ConfirmedToday_ById(e, kind, id) == kind = "confirm" /\ \E f \in e.events : f.id = id
ConfirmedToday(e, kind, id) ==
  kind = "confirm" /\ \E f \in e.events : f.kind = "confirm" /\ f.day = today

WithEvent(e, event) ==
  [e EXCEPT !.events = @ \cup {event},
            !.stage = IF event.kind = "confirm" /\ @ < LastStage THEN @ + 1 ELSE @]

\* hit or confirm.  An id is given by the caller or made of the day and what is
\* said; a repetition is acknowledged whatever has become of the entry.
Feedback(p, t, kind, id) ==
  LET event == [id |-> id, kind |-> kind, day |-> today]
      old == {f \in Entries[t].events : f.id = id}
  IN /\ pc[p] = "idle" /\ t \in DOMAIN Entries
     /\ IF old # {}
        THEN \E f \in old : f.kind = kind /\ Answer(p, <<t, f>>)
        ELSE /\ Entries[t].status = "active" /\ t \in sources
             /\ IF ConfirmedToday(Entries[t], kind, id)
                THEN Answer(p, None)
                ELSE Save(p, [Entries EXCEPT ![t] = WithEvent(@, event)], <<t, event>>)

Pin(p, t, value) ==
  /\ pc[p] = "idle" /\ t \in DOMAIN Entries
  /\ IF Entries[t].pinned # value
     THEN Save(p, [Entries EXCEPT ![t].pinned = value], None)
     ELSE Answer(p, None)

Unchanged_Revision(snapshot) == snapshot.revision <= Data(index).revision
Unchanged(snapshot) == snapshot = index

\* Engine.save: here a program marks an entry of its snapshot as deleted.
SaveSnapshot(p) ==
  /\ pc[p] = "edit"
  /\ IF Unchanged(local[p])
     THEN \E t \in DOMAIN local[p].entries :
            Save(p, [local[p].entries EXCEPT ![t].status = "deleted"], None)
     ELSE Answer(p, None)

\* A confirmation needs evidence.
AdoptedEvent(f) ==
  [id |-> f.id, day |-> f.day,
   kind |-> IF f.kind = "confirm" /\ ~f.evidence THEN "unverified" ELSE f.kind]

Adopted_Anew(t) ==
  [NewEntry EXCEPT !.pinned = Legacy[t].pinned, !.stage = Legacy[t].stage,
     !.from = [stage |-> Legacy[t].stage, events |-> {AdoptedEvent(f) : f \in Legacy[t].events}]]

\* An entry keeps its events, stage and pin; one of high cost is pinned.
Adopted(t) ==
  LET from == [stage |-> Legacy[t].stage,
               events |-> {AdoptedEvent(f) : f \in Legacy[t].events}]
  IN  [status |-> "active", pinned |-> Legacy[t].pinned, stage |-> from.stage,
       events |-> from.events, from |-> from]

\* The index must not exist yet; the entries that were not found stay without
\* a source and take no part.
Migrate(p) ==
  /\ pc[p] = "migrate"
  /\ IF index = None THEN Save(p, [t \in local[p] |-> Adopted(t)], None) ELSE Answer(p, None)

KeepPrevious(p) ==
  /\ pc[p] = "previous"
  /\ previous' = IF index = None THEN previous ELSE index
  /\ pc' = [pc EXCEPT ![p] = "replace"]
  /\ UNCHANGED <<sources, today, index, lock, local, next, claim, acked>>

Replace(p) ==
  /\ pc[p] = "replace"
  /\ index' = next
  /\ pc' = [pc EXCEPT ![p] = "read back"]
  /\ UNCHANGED <<sources, today, previous, lock, local, next, claim, acked>>

Released(p) ==
  /\ pc' = [pc EXCEPT ![p] = "idle"]
  /\ local' = [local EXCEPT ![p] = None]
  /\ lock' = None /\ next' = None /\ claim' = None

Finish(p) ==
  /\ pc[p] = "read back"
  /\ Released(p)
  /\ acked' = acked \cup ({claim} \ {None})
  /\ UNCHANGED <<sources, today, index, previous>>

\* Killed, or an operation of the file system raises: before the replacement
\* or after it, when the outcome is reported as uncertain.
Stop(p) ==
  /\ lock = p
  /\ Released(p)
  /\ UNCHANGED <<sources, today, index, previous, acked>>

Next ==
  \/ EditSources \/ Midnight
  \/ \E p \in Procs :
       \/ ReadSeed(p) \/ ReadRegister(p) \/ ReadMigrate(p) \/ ReadIndex(p)
       \/ SeedOrRegister(p) \/ SaveSnapshot(p) \/ Migrate(p)
       \/ KeepPrevious(p) \/ Replace(p) \/ Finish(p) \/ Stop(p)
       \/ \E t \in Texts :
            \/ \E value \in BOOLEAN : Pin(p, t, value)
            \/ \E kind \in Kinds : \E id \in Ids \cup {<<kind, today>>} : Feedback(p, t, kind, id)

Spec == Init /\ [][Next]_vars

-----------------------------------------------------------------------------
(* Properties                                                              *)

EntryOK(e) ==
  /\ e.status \in {"active", "deleted"} /\ e.pinned \in BOOLEAN
  /\ e.stage \in 0..LastStage
  /\ \A f \in e.events : f.kind \in Kinds \cup {"unverified"} /\ f.day \in 0..today

TypeOK ==
  /\ sources \subseteq Texts
  /\ \A file \in {index, previous, next} \ {None} :
       /\ file.revision \in 1..MaxRevision /\ DOMAIN file.entries \subseteq Texts
       /\ \A t \in DOMAIN file.entries : EntryOK(file.entries[t])
  /\ lock \in Procs \cup {None}
  /\ \A p \in Procs : pc[p] \in {"previous", "replace", "read back"} <=> lock = p

\* However often a caller repeats itself after an uncertain outcome, and
\* whatever other processes do: an id is recorded once, an adopted event stays,
\* a confirmation is recorded only on a day that has no other one with evidence,
\* and the review stage is the number of those recorded since it was adopted.
CountedOnce ==
  \A t \in DOMAIN Entries :
    LET e == Entries[t]
        confirms == {f \in e.events \ e.from.events : f.kind = "confirm"}
        stage == e.from.stage + Cardinality(confirms)
    IN  /\ \A f, g \in e.events : f.id = g.id => f = g
        /\ e.from.events \subseteq e.events
        /\ \A f \in confirms, g \in e.events : g.kind = "confirm" /\ f.day = g.day => f = g
        /\ e.stage = IF stage < LastStage THEN stage ELSE LastStage

\* What was acknowledged is in the index, and its predecessor beside it.
AcknowledgedIsKept ==
  /\ \A a \in acked : a[1] \in DOMAIN Entries /\ a[2] \in Entries[a[1]].events
  /\ previous # None => index # None /\ previous.revision \in {index.revision - 1, index.revision}
  /\ index # None /\ index.revision > 1 => previous # None

\* No process undoes what another has committed, and a tombstone stays one.
Grows(old, new) ==
  /\ new.revision = old.revision + 1
  /\ \A t \in DOMAIN old.entries :
       /\ t \in DOMAIN new.entries
       /\ old.entries[t].events \subseteq new.entries[t].events
       /\ old.entries[t].status = "deleted" =>
            new.entries[t] = [old.entries[t] EXCEPT !.pinned = new.entries[t].pinned]
OnlyGrows == [][Grows(Data(index), Data(index'))]_index
=============================================================================

------------------------------ MODULE MCMemory ------------------------------
(***************************************************************************)
(* One run for what is written down and has to stay: exported and migrated *)
(* segments, the index of memory entries of scripts/thm.py, the ledger of  *)
(* observed mentions, and the compiled engines.  They share no state, so a *)
(* behaviour takes the steps of one of them, its part; the others stay as  *)
(* they began.                                                             *)
(***************************************************************************)
EXTENDS Memories, Sequences, TLC

VARIABLE part

\* Three anchors close together; one alias occurring twice; four occurrences of
\* which only the last are close together.  A longer one never fits.
Of(alias, from, to) == [alias |-> alias, from |-> from, to |-> to]
MCTexts ==
  { {Of(1, 0, 1), Of(2, 0, 2), Of(4, 2, 3)},
    {Of(1, 0, 1), Of(1, 1, 2), Of(2, 1, 2), Of(3, 2, 5)},
    {Of(1, 0, 1), Of(1, 1, 2), Of(1, 5, 6), Of(2, 5, 7), Of(4, 7, 8)} }
\* Enough of everything, and too little of each in turn.
Bound(n, m, b) == [rows |-> n, records |-> m, bytes |-> b]
MCBounds == {Bound(2, 2, 2), Bound(1, 2, 2), Bound(2, 1, 2), Bound(2, 2, 1)}

\* A version 1 entry with a confirmation that has no evidence, and an event whose
\* id a caller may use again.
OldEvent(id, kind) == [id |-> id, kind |-> kind, day |-> 0, evidence |-> FALSE]
MCLegacy ==
  [t \in EntryTexts |->
     [pinned |-> TRUE, stage |-> 0,
      events |-> {OldEvent(<<"legacy", 0>>, "confirm")} \cup {OldEvent(i, "hit") : i \in Ids}]]

allvars == <<part, migrationvars, enginevars, mentionvars, compiledvars>>

MCInit ==
  /\ part \in {"migration", "engine", "mentions", "engines"}
  /\ Init /\ Engine!Init /\ Mentions!Init /\ Engines!Init
  /\ part # "engine" => sources = {}

\* A step of part p alone.
Alone(p) ==
  /\ part = p /\ UNCHANGED part
  /\ IF p = "migration" THEN TRUE ELSE UNCHANGED migrationvars
  /\ IF p = "engine" THEN TRUE ELSE UNCHANGED enginevars
  /\ IF p = "mentions" THEN TRUE ELSE UNCHANGED mentionvars
  /\ IF p = "engines" THEN TRUE ELSE UNCHANGED compiledvars

\* The bounds of the others run out; a migration can always be resumed.
Ended == part # "migration" /\ UNCHANGED allvars

\* Bound: an edit of the bundle and an upgrade of every process exclude each other.
OneVersion == bundle' = 0 \/ \E w \in Procs : driver'[w] = 0

\* Bounds: after a crash migrations are resumed and vectors embedded, but the scope is
\* not replaced and nothing is exported or planned; nor is the scope replaced when
\* every journal has its plan.
MCNext ==
  \/ \E g \in Gens :
       Alone("migration") /\ crashes = 0 /\ (\E j \in Journals : plans[j] = Nil)
         /\ ReplaceScope(g)
  \/ \E r \in Runs : Alone("migration") /\ Embed(r)
  \/ \E w \in Workers : Alone("migration") /\ crashes = 0 /\ Start(w)
  \/ \E w \in Workers, j \in Journals : Alone("migration") /\ ResumeCheck(w, j)
  \/ \E w \in Workers : Alone("migration") /\ Proceed(w)
  \/ \E w \in Workers : Alone("migration") /\ Crash(w)
  \/ \E r \in Readers : Alone("migration") /\ ReadManifest(r)
  \/ \E r \in Readers : Alone("migration") /\ ReadEnd(r)
  \/ Alone("engine") /\ Engine!EditSources
  \/ Alone("engine") /\ Engine!Midnight
  \/ \E p \in Procs : Alone("engine") /\ Engine!ReadSeed(p)
  \/ \E p \in Procs : Alone("engine") /\ Engine!ReadRegister(p)
  \/ \E p \in Procs : Alone("engine") /\ Engine!ReadMigrate(p)
  \/ \E p \in Procs : Alone("engine") /\ Engine!ReadIndex(p)
  \/ \E p \in Procs : Alone("engine") /\ Engine!SeedOrRegister(p)
  \/ \E p \in Procs : Alone("engine") /\ Engine!SaveSnapshot(p)
  \/ \E p \in Procs : Alone("engine") /\ Engine!Migrate(p)
  \/ \E p \in Procs : Alone("engine") /\ Engine!KeepPrevious(p)
  \/ \E p \in Procs : Alone("engine") /\ Engine!Replace(p)
  \/ \E p \in Procs : Alone("engine") /\ Engine!Finish(p)
  \/ \E p \in Procs : Alone("engine") /\ Engine!Stop(p)
  \/ \E p \in Procs, value \in BOOLEAN : Alone("engine") /\ Engine!Pin(p, "t1", value)
  \/ \E p \in Procs, kind \in Engine!Kinds : Alone("engine") /\
       \E id \in Ids \cup {<<kind, today>>} : Engine!Feedback(p, "t1", kind, id)
  \/ \E late \in BOOLEAN : Alone("mentions") /\ Mentions!Look(late)
  \/ \E n \in 1..2, m \in 1..2, b \in 1..2 :
       Alone("mentions") /\ n + m + b >= 5 /\ Mentions!Read(Bound(n, m, b))
  \/ Alone("mentions") /\ Mentions!Finish
  \/ Alone("mentions") /\ Mentions!Save
  \/ Alone("mentions") /\ Mentions!Leave
  \/ Alone("mentions") /\ Mentions!Tomorrow
  \/ Alone("mentions") /\ Mentions!Revise
  \/ \E s \in Sessions, text \in MCTexts, role \in {"assistant", "user"} :
       Alone("mentions") /\ Mentions!Arrive(role, text, s)
  \/ Alone("mentions") /\ \E s \in Sessions, i \in DOMAIN records : Mentions!Branch(i, s)
  \/ \E w \in Procs : Alone("engines") /\ Engines!Prepare(w)
  \/ \E w \in Procs : Alone("engines") /\ Engines!Begin(w)
  \/ \E w \in Procs : Alone("engines") /\ Engines!Build(w)
  \/ \E w \in Procs : Alone("engines") /\ Engines!Verify(w)
  \/ \E w \in Procs : Alone("engines") /\ Engines!Publish(w)
  \/ \E w \in Procs : Alone("engines") /\ Engines!Link(w)
  \/ \E w \in Procs, how \in {"engine", "nothing", "no context"} :
       Alone("engines") /\ Engines!Deserialize(w, how)
  \/ \E w \in Procs : Alone("engines") /\ Engines!Compile(w)
  \/ \E w \in Procs : Alone("engines") /\ Engines!Close(w)
  \/ \E w \in Procs : Alone("engines") /\ Engines!Restart(w) /\ OneVersion
  \/ Alone("engines") /\ Engines!Edit /\ OneVersion
  \/ \E k \in Engines!Keys : Alone("engines") /\ Engines!Rot(k)
  \/ Ended

MCSpec == MCInit /\ [][MCNext]_allvars

\* The processes, journals, sessions, roots and generations may be exchanged.
MCSymmetry ==
  Permutations(Workers) \cup Permutations(Journals) \cup Permutations(Roots)
    \cup Permutations(Gens)
=============================================================================

-------------------------- MODULE MeasurementWorker --------------------------
(***************************************************************************)
(* The child processes that measure an alternative and serve with it:      *)
(* a replay of one query with another index provider                       *)
(* (thm/runtime/fabric/shadow_worker.py), and an alternate model with a    *)
(* disposable copy of the index (model_worker.py, TorchInference of        *)
(* inference.py), which goes on to answer requests.  The scope they        *)
(* measure is written meanwhile, back to earlier contents too, for a       *)
(* generation is a fingerprint of contents.                                *)
(***************************************************************************)
EXTENDS Naturals, FiniteSets

CONSTANTS
    Generations,    \* of the scope
    MaxWrites,      \* bound on the writes of the scope
    Contents,       \* of the local model directory, in the order they come
    Repeats,        \* pairs of searches measured
    None            \* nothing

VARIABLES
    source, writes,  \* the scope's generation in the source index
    model,           \* the contents of the model directory: a number
    task,            \* what the parent asked for: [kind, generation, model]
    step,            \* of the worker
    replica,         \* generation of the disposable copy
    baseline, candidate,    \* contents of the two models loaded
    artifact,        \* source_sha of the prepared artifact
    seen, pairs,     \* the results of this repeat; of all repeats
    consistent,      \* all_repeats_consistent
    answer,          \* of the request in execution: [asked, generation]
    delivered        \* what the parent last gave to its caller

world == <<source, writes, model>>
loaded == <<replica, baseline, candidate, artifact>>
measured == <<seen, pairs, consistent>>
serving == <<answer, delivered>>
vars == <<source, writes, model, task, step, replica, baseline, candidate, artifact,
          seen, pairs, consistent, answer, delivered>>

Sides == {"baseline", "candidate"}
Unseen == [s \in Sides |-> None]

Init ==
    /\ source \in Generations /\ writes = 0 /\ model = 1
    /\ \E kind \in {"replay", "model"} :
         task = [kind |-> kind, generation |-> source, model |-> 1]
    /\ step = "start" /\ replica = None /\ baseline = None /\ candidate = None
    /\ artifact = None /\ seen = Unseen /\ pairs = {} /\ consistent = TRUE
    /\ answer = None /\ delivered = None

\* The worker goes on when a check holds; otherwise it raises, reports that and
\* closes what it has opened.
GoesOn(from, check, to) ==
    /\ step = from
    /\ step' = IF check THEN to ELSE "failed"
    /\ UNCHANGED <<task, world, serving>>

----------------------------------------------------------------------------
\* The model worker prepares.

Replay ==
    /\ GoesOn("start", TRUE, "measure") /\ task.kind = "replay"
    /\ UNCHANGED <<loaded, measured>>

Backup ==
    /\ GoesOn("start", TRUE, "copied") /\ task.kind = "model"
    /\ replica' = source
    /\ UNCHANGED <<baseline, candidate, artifact, measured>>

CheckSnapshot ==
    /\ GoesOn("copied", source = task.generation, "reference")
    /\ UNCHANGED <<loaded, measured>>

LoadReference ==
    /\ GoesOn("reference", TRUE, "compare profile")
    /\ baseline' = model
    /\ UNCHANGED <<replica, candidate, artifact, measured>>

CheckReference ==
    /\ GoesOn("compare profile", model = baseline /\ baseline = task.model, "manifest")
    /\ UNCHANGED <<loaded, measured>>

CheckManifest ==
    /\ GoesOn("manifest", model = task.model, "prepare")
    /\ UNCHANGED <<loaded, measured>>

Prepare ==
    /\ GoesOn("prepare", TRUE, "load")
    /\ artifact' = model
    /\ UNCHANGED <<replica, baseline, candidate, measured>>

\* load verifies the artifact's source before it reads it, and after.
Verified == model = artifact

Verify ==
    /\ GoesOn("load", Verified, "read")
    /\ UNCHANGED <<loaded, measured>>

Load ==
    /\ GoesOn("read", TRUE, "loaded")
    /\ candidate' = model
    /\ UNCHANGED <<replica, baseline, artifact, measured>>

\* The copy is then embedded with the model.
Embed ==
    /\ GoesOn("loaded", Verified, "measure")
    /\ UNCHANGED <<loaded, measured>>

----------------------------------------------------------------------------
\* Measuring.

\* Mutant: a replay takes results of any generation.
Accepted_Any(generation) == TRUE

\* A replay refuses a result that is not of the generation asked for.
Accepted(generation) == task.kind = "replay" => generation = task.generation

\* A search of one side, in either order: the replay reads the source with both,
\* the model worker reads its copy with the candidate.
Measure(s) ==
    LET generation == IF s = "candidate" /\ task.kind = "model" THEN replica ELSE source
    IN  /\ GoesOn("measure", Accepted(generation), "measure")
        /\ seen[s] = None
        /\ seen' = [seen EXCEPT ![s] = generation]
        /\ UNCHANGED <<loaded, pairs, consistent>>

\* Mutant: only the ranking is compared.
Same_Ranking(agree) == agree

\* SemanticGuard.compare: the same generation, and the same selection.
Same(agree) == seen.baseline = seen.candidate /\ agree

Compare ==
    \E agree \in BOOLEAN :
        /\ GoesOn("measure", TRUE, IF Cardinality(pairs) + 1 = Repeats THEN "final" ELSE "measure")
        /\ \A s \in Sides : seen[s] # None
        /\ pairs' = pairs \cup {[n |-> Cardinality(pairs), of |-> seen]}
        /\ seen' = Unseen
        /\ consistent' = (consistent /\ Same(agree))
        /\ UNCHANGED loaded

\* Mutant: the model directory is not looked at again.
Unchanged_Once == TRUE

\* The model worker reads the manifest of its source once more.
Unchanged == task.kind = "model" => model = task.model

\* The measurements are reported; a replay is over.
Report ==
    /\ GoesOn("final", Unchanged, IF task.kind = "model" THEN "ready" ELSE "over")
    /\ UNCHANGED <<loaded, measured>>

----------------------------------------------------------------------------
\* Serving: only a measurement that agreed is promoted by the parent, which
\* asks for the generation it has read.

Ask ==
    /\ step = "ready" /\ consistent
    /\ step' = IF source = task.generation THEN "asked" ELSE "failed"
    /\ answer' = [asked |-> source, generation |-> None]
    /\ UNCHANGED <<task, world, loaded, measured, delivered>>

\* The worker reads the source's generation itself.
CheckSource ==
    /\ GoesOn("asked", source = task.generation, "search")
    /\ UNCHANGED <<loaded, measured>>

Search ==
    /\ step = "search" /\ step' = "answered"
    /\ answer' = [answer EXCEPT !.generation = replica]
    /\ UNCHANGED <<task, world, loaded, measured, delivered>>

\* Mutant: an answer is what was asked for.
Stamped_AsAsked == TRUE

\* The service compares the generation that every result carries.
Stamped == answer.generation = answer.asked

Deliver ==
    /\ step = "answered" /\ step' = "ready"
    /\ delivered' = IF Stamped THEN answer ELSE delivered
    /\ answer' = None
    /\ UNCHANGED <<task, world, loaded, measured>>

\* A process may end at any point: a failure, a limit, a preemption.
Fail ==
    /\ step \notin {"failed", "over"} /\ step' = "failed"
    /\ UNCHANGED <<task, world, loaded, measured, serving>>

----------------------------------------------------------------------------
\* The world.

Write(g) ==
    /\ writes < MaxWrites /\ g # source
    /\ source' = g /\ writes' = writes + 1
    /\ UNCHANGED <<model, task, step, loaded, measured, serving>>

Edit ==
    /\ model + 1 \in Contents
    /\ model' = model + 1
    /\ UNCHANGED <<source, writes, task, step, loaded, measured, serving>>

Next ==
    \/ Replay \/ Backup \/ CheckSnapshot \/ LoadReference \/ CheckReference
    \/ CheckManifest \/ Prepare \/ Verify \/ Load \/ Embed
    \/ \E s \in Sides : Measure(s)
    \/ Compare \/ Report
    \/ Ask \/ CheckSource \/ Search \/ Deliver \/ Fail
    \/ \E g \in Generations : Write(g)
    \/ Edit

Spec == Init /\ [][Next]_vars

----------------------------------------------------------------------------
Known == Contents \cup {None}

TypeOK ==
    /\ source \in Generations /\ writes \in 0..MaxWrites /\ model \in Contents
    /\ task \in [kind : {"replay", "model"}, generation : Generations, model : Contents]
    /\ replica \in Generations \cup {None} /\ {baseline, candidate, artifact} \subseteq Known
    /\ seen \in [Sides -> Generations \cup {None}] /\ consistent \in BOOLEAN
    /\ Cardinality(pairs) <= Repeats

\* A measurement that is reported as consistent has compared, in every repeat, two
\* results of one generation, and a replay those of the generation its measurement
\* will be stored for, however the scope was written meanwhile, back to its old
\* contents too (shadow_worker.py:46-47, 56-57; model_worker.py:99-101;
\* optimizer.py:82-84).
ConsistentIsComparable ==
    step \in {"over", "ready"} /\ consistent =>
      \A p \in pairs : /\ p.of.baseline = p.of.candidate
                       /\ task.kind = "replay" => p.of.candidate = task.generation

\* A model that was measured and may serve was loaded from the contents the task
\* names, those the reference was loaded from, although the directory may have been
\* edited at any point in between (model_worker.py:23-30, 80-81, 102-103;
\* inference.py:71-76, 133-143).
ServesReferenceSource ==
    step \in {"ready", "asked", "search", "answered"} =>
      candidate = task.model /\ baseline = task.model

\* What is given to a caller was found in documents of the generation asked for,
\* also when the scope has been written and written back between the copy and the
\* check of its generation (model_worker.py:72-75, 122-130; service.py:299-307).
DeliveredIsAsked ==
    delivered # None => delivered.generation = delivered.asked
=============================================================================

------------------------------ MODULE MCService ------------------------------
(***************************************************************************)
(* One run for what the runtime serves with: an execution of the service   *)
(* with the explorer behind it, the preparation and calibration of local   *)
(* models, and the way of measurements to a choice.  A behaviour takes the *)
(* steps of one of them, its part; the others stay as they began.          *)
(***************************************************************************)
EXTENDS Services, TLC

VARIABLE part

allvars == <<part, servicevars, modelvars, choicevars>>

\* Candidates 1 and 2 are each better at something, 3 is not measured in full,
\* and 4 gains nothing; 5 is a model.  They may be accepted or rejected, and 1 may
\* fail.
MCExplored == ProfileKeys \X Candidates
MCFailing == ProfileKeys \X {1}
Measure(p95, cpu, startup, transfer) ==
  [p95 |-> p95, cpu |-> cpu, startup |-> startup, transfer |-> transfer,
   noise |-> 0, enough |-> TRUE, fits |-> TRUE]
MCMeasured(c) ==
  CASE c = 1 -> {Measure(1, 1, 2, Nil)}
    [] c = 2 -> {Measure(1, 2, Nil, 1)}
    [] c = 3 -> {Measure(1, Nil, 1, 2)}
    [] c = 4 -> {Measure(3, 1, 1, Nil)}
    [] c = 5 -> {Measure(1, 1, 1, 1)}

MCInit ==
  /\ part \in {"service", "models", "choice"}
  /\ Init /\ Models!Init /\ Choice!Init

\* A step of part p alone.
Alone(p) ==
  /\ part = p /\ UNCHANGED part
  /\ IF p = "service" THEN TRUE ELSE UNCHANGED servicevars
  /\ IF p = "models" THEN TRUE ELSE UNCHANGED modelvars
  /\ IF p = "choice" THEN TRUE ELSE UNCHANGED choicevars

\* The bounds of the others run out; the service always has something to do.
Ended == part # "service" /\ UNCHANGED allvars

\* Bounds: of a second commit and a task of the explorer only one happens.  The source
\* is not loaded and no calibration begins while a preparation, a load or a calibration
\* is under way: none reads what another has in hand, and each is interleaved with
\* edits; and a calibration keeps at most two candidates.  Models are measured first.
MCNext ==
  \/ Alone("service") /\ Execute
  \/ Alone("service") /\ Background
  \/ Alone("service") /\ NewSession
  \/ \E new \in [gen : Gens, run : Runs \cup {Nil}, place : Targets] :
       Alone("service") /\ (changes = 0 \/ tasks = 0) /\ Commit(new)
  \/ Alone("service") /\ CooldownEnds
  \/ \E p \in Preparers :
       Alone("models") /\ load.pc # "reading" /\ tune.pc = "idle" /\ Models!Prepare(p)
  \/ \E p \in Preparers : Alone("models") /\ Models!CopyStarts(p)
  \/ \E p \in Preparers, f \in Files : Alone("models") /\ Models!Copy(p, f)
  \/ \E p \in Preparers : Alone("models") /\ Models!Export(p)
  \/ \E p \in Preparers : Alone("models") /\ Models!Publish(p)
  \/ \E p \in Preparers, f \in Files \cup {Receipt} :
       Alone("models") /\ Models!MoveFile(p, f)
  \/ \E p \in Preparers : Alone("models") /\ Models!Crash(p)
  \/ /\ Alone("models") /\ (\A p \in Preparers : conv[p].pc = "idle") /\ tune.pc = "idle"
     /\ Models!LoadStarts
  \/ \E f \in Files : Alone("models") /\ Models!Read(f)
  \/ Alone("models") /\ Models!LoadEnds
  \/ Alone("models") /\ Models!Unload
  \/ /\ Alone("models") /\ (\A p \in Preparers : conv[p].pc = "idle") /\ load.pc # "reading"
     /\ Models!TuneStarts
  \/ Alone("models") /\ Models!MeasureReference
  \/ /\ Alone("models") /\ tune.pc = "trials" /\ Cardinality(tune.trials) < 2
     /\ Models!Trial
  \/ Alone("models") /\ Models!TuneEnds
  \/ Alone("models") /\ Models!Invalidate
  \/ Alone("models") /\ Models!Open
  \/ Alone("models") /\ Models!CloseSession
  \/ \E f \in Files : Alone("models") /\ Models!Edit(f)
  \/ Alone("models") /\ Models!Upgrade
  \/ \E k \in ProfileKeys, c \in Candidates \ Portfolio :
       Alone("choice") /\ Choice!Publish(k, c)
  \/ \E k \in ProfileKeys, c \in Portfolio :
       Alone("choice") /\ now = 0 /\ Choice!PublishModel(k, c)
  \/ \E k \in ProfileKeys, c \in Candidates : Alone("choice") /\ Choice!Fail(k, c)
  \/ \E k \in ProfileKeys : Alone("choice") /\ Choice!Invalidate(k)
  \/ Alone("choice") /\ Choice!Tick
  \/ Ended

MCSpec == MCInit /\ [][MCNext]_allvars

Symmetry == Permutations(Gens) \cup Permutations(Runs) \cup Permutations(Files)
=============================================================================

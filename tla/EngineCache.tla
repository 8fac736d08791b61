---------------------------- MODULE EngineCache ----------------------------
(***************************************************************************)
(* Compiled inference engines shared by the processes of a machine         *)
(* (TensorRTRTXInference in thm/runtime/fabric/rtx.py, LocalInferenceBase  *)
(* in inference.py, CompiledArtifactStore in store.py).  An engine is      *)
(* built from a local model bundle, takes long, and is kept in a directory *)
(* under a key of everything it depends on; a builder need not give the    *)
(* same bytes twice.  The bundle may be edited at any time, bytes on disk  *)
(* may rot, and a process may stop between any two steps and start again,  *)
(* perhaps after an upgrade of the driver.  Tensors, shapes, compiler      *)
(* options and loads without a directory are left out.                     *)
(***************************************************************************)
EXTENDS Naturals, FiniteSets

CONSTANTS
  Processes,
  MaxSource,   \* bound: versions of the bundle
  MaxDriver,   \* bound: versions of the driver and the vendor's library
  MaxDamaged,  \* bound: files damaged at a time
  Runs,        \* the different bytes a build may give
  Damaged,     \* a file whose bytes do not match its checksum
  Nil

VARIABLES
  source,    \* the version of the model bundle
  driver,    \* the driver each process has loaded
  cache,     \* the file under each key: none, damaged, or an engine
  pc,        \* where each process is in load
  artifact,  \* the bundle version a process has prepared
  value,     \* the engine it has in hand
  engine,    \* what the engine is for that it has deserialized: a key
  context    \* and the engine that its execution context belongs to

inhand == <<pc, artifact, value>>
loaded == <<engine, context>>
vars == <<source, driver, cache, inhand, loaded>>

Engines == [of : 0..MaxSource, driver : 0..MaxDriver, run : Runs]
Keys == (0..MaxSource) \X (0..MaxDriver)
Key_Source(p) == <<artifact[p], 0>>
Key(p) == <<artifact[p], driver[p]>>

Init ==
  /\ source = 0 /\ driver = [p \in Processes |-> 0]
  /\ cache = [k \in Keys |-> Nil]
  /\ pc = [p \in Processes |-> "idle"]
  /\ artifact = [p \in Processes |-> Nil] /\ value = artifact
  /\ engine = artifact /\ context = artifact
----------------------------------------------------------------------------
Goes(p, to) == pc' = [pc EXCEPT ![p] = to]

Intact(v) == v \notin {Nil, Damaged}

\* What load returns: damaged bytes do not match the checksum before them.
Readable_Unchecked(v) == v # Nil

Readable(v) == Intact(v)

\* prepare: the bundle's digest is taken once.  What is loaded stays.
Prepare(p) ==
  /\ pc[p] = "idle" /\ artifact[p] # source
  /\ artifact' = [artifact EXCEPT ![p] = source]
  /\ UNCHANGED <<source, driver, cache, pc, value, loaded>>

\* load: the bundle is the prepared one, or an exception; a stored engine is
\* taken, a missing one built, and a damaged one an exception too.
Begin(p) ==
  /\ pc[p] = "idle" /\ artifact[p] = source
  /\ \/ Readable(cache[Key(p)]) /\ Goes(p, "ready") /\ value' = [value EXCEPT ![p] = cache[Key(p)]]
     \/ cache[Key(p)] = Nil /\ Goes(p, "build") /\ UNCHANGED value
  /\ UNCHANGED <<source, driver, cache, artifact, loaded>>

\* The parser reads the bundle as it is by now.
Build(p) ==
  /\ pc[p] = "build" /\ Goes(p, "built")
  /\ \E r \in Runs : value' = [value EXCEPT ![p] = [of |-> source, driver |-> driver[p], run |-> r]]
  /\ UNCHANGED <<source, driver, cache, artifact, loaded>>

\* The second _verify, before the engine is kept or used.
Unedited_Trusted(p) == TRUE

Unedited(p) == artifact[p] = source

Verify(p) ==
  /\ pc[p] = "built"
  /\ Goes(p, IF Unedited(p) THEN "publish" ELSE "idle")
  /\ value' = IF Unedited(p) THEN value ELSE [value EXCEPT ![p] = Nil]
  /\ UNCHANGED <<source, driver, cache, artifact, loaded>>

\* publish looks for the file and compares it with its own bytes; where there is
\* none it links its own, exclusively, and compares when another came first.
Compared(p) ==
  IF cache[Key(p)] = value[p] THEN Goes(p, "ready") /\ UNCHANGED value
  ELSE Goes(p, "idle") /\ value' = [value EXCEPT ![p] = Nil]

Publish(p) ==
  /\ pc[p] = "publish"
  /\ IF cache[Key(p)] # Nil THEN Compared(p) ELSE Goes(p, "link") /\ UNCHANGED value
  /\ UNCHANGED <<source, driver, cache, artifact, loaded>>

Occupied_Replaces(k) == FALSE

Occupied(k) == cache[k] # Nil

Link(p) ==
  /\ pc[p] = "link"
  /\ IF Occupied(Key(p)) THEN Compared(p) /\ UNCHANGED cache
     ELSE /\ cache' = [cache EXCEPT ![Key(p)] = value[p]]
          /\ Goes(p, "ready") /\ UNCHANGED value
  /\ UNCHANGED <<source, driver, artifact, loaded>>

\* The vendor's runtime may give no engine, and then the context of the one
\* before stays; where no context can be made of it, everything is closed.
Deserialized(how, k, before) ==
  CASE how = "nothing" -> [engine |-> Nil, context |-> before]
    [] how = "no context" -> [engine |-> Nil, context |-> Nil]
    [] OTHER -> [engine |-> k, context |-> k]

Deserialize(p, how) ==
  /\ pc[p] = "ready" /\ Goes(p, "idle")
  /\ LET key == <<value[p].of, value[p].driver>>
         after == Deserialized(how, key, context[p])
     IN  /\ engine' = [engine EXCEPT ![p] = after.engine]
         /\ context' = [context EXCEPT ![p] = after.context]
  /\ value' = [value EXCEPT ![p] = Nil]
  /\ UNCHANGED <<source, driver, cache, artifact>>

\* compile stops here: the engine is in the directory for the next load.
Compile(p) ==
  /\ pc[p] = "ready" /\ Goes(p, "idle") /\ value' = [value EXCEPT ![p] = Nil]
  /\ UNCHANGED <<source, driver, cache, artifact, loaded>>

Closed(p) == engine' = [engine EXCEPT ![p] = Nil] /\ context' = [context EXCEPT ![p] = Nil]

Close(p) ==
  /\ pc[p] = "idle" /\ context[p] # Nil /\ Closed(p)
  /\ UNCHANGED <<source, driver, cache, inhand>>

\* A process ends at whatever point it is, and another starts.
Restart(p) ==
  /\ Goes(p, "idle") /\ Closed(p)
  /\ artifact' = [artifact EXCEPT ![p] = Nil] /\ value' = [value EXCEPT ![p] = Nil]
  /\ \E d \in driver[p]..MaxDriver : driver' = [driver EXCEPT ![p] = d]
  /\ UNCHANGED <<source, cache>>

\* The world around: the bundle's owner, and the disk.
Edit == source < MaxSource /\ source' = source + 1 /\ UNCHANGED <<driver, cache, inhand, loaded>>
Rot(k) ==
  /\ Intact(cache[k])
  /\ Cardinality({j \in Keys : cache[j] = Damaged}) < MaxDamaged
  /\ cache' = [cache EXCEPT ![k] = Damaged]
  /\ UNCHANGED <<source, driver, inhand, loaded>>

Next ==
  \/ \E p \in Processes : Prepare(p) \/ Begin(p) \/ Build(p) \/ Verify(p) \/ Publish(p) \/ Link(p)
  \/ \E p \in Processes, how \in {"engine", "nothing", "no context"} : Deserialize(p, how)
  \/ \E p \in Processes : Compile(p) \/ Close(p) \/ Restart(p)
  \/ Edit \/ \E k \in Keys : Rot(k)

Spec == Init /\ [][Next]_vars
----------------------------------------------------------------------------
TypeOK ==
  /\ source \in 0..MaxSource /\ driver \in [Processes -> 0..MaxDriver]
  /\ cache \in [Keys -> Engines \cup {Nil, Damaged}]
  /\ pc \in [Processes -> {"idle", "build", "built", "publish", "link", "ready"}]
  /\ artifact \in [Processes -> (0..MaxSource) \cup {Nil}]
  /\ value \in [Processes -> Engines \cup {Nil, Damaged}]
  /\ engine \in [Processes -> Keys \cup {Nil}] /\ context \in [Processes -> Keys \cup {Nil}]

\* An engine is stored under the version it was built from and the driver it was
\* built for, so that what a process is about to load, found or built, is of the
\* version it has prepared, and what it executes is one engine throughout, of its
\* own driver (store.py:171-226, "keyed by every compiler/device/model
\* dependency"; rtx.py:34-93).
EngineFits ==
  /\ \A k \in Keys : Intact(cache[k]) => <<cache[k].of, cache[k].driver>> = k
  /\ \A p \in Processes :
       /\ pc[p] \in {"publish", "link", "ready"} =>
            value[p] # Damaged /\ value[p].of = artifact[p]
       /\ engine[p] # Nil => engine[p] = context[p] /\ engine[p][2] = driver[p]

\* Bytes once published are never replaced by others (store.py:199, "must never
\* silently replace different bytes").
PublishedStays == [][\A k \in Keys : Intact(cache[k]) => cache'[k] \in {cache[k], Damaged}]_vars
=============================================================================

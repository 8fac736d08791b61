----------------------------- MODULE Calibration -----------------------------
(***************************************************************************)
(* Derived models and runtime profiles (thm/runtime/prepare.py, autotune.py*)
(* profiles.py and backends/__init__.py): a local model is converted by a  *)
(* worker into a content-addressed directory, candidates are measured      *)
(* against the reference and one of them becomes a profile, and a session  *)
(* opens an encoder for a profile that is still fresh.  Meanwhile anyone   *)
(* may edit the source model, file by file, upgrade the host or be killed. *)
(*                                                                         *)
(* A manifest is the content of the files itself, so that digests are      *)
(* equal when the bytes are.  An edit always makes new bytes: that a file  *)
(* is changed and changed back between two manifests goes unseen by them.  *)
(***************************************************************************)
EXTENDS Integers, FiniteSets

CONSTANTS
    Files,          \* the files of the model
    Preparers,      \* processes that prepare derived models
    Policies,       \* the policies a calibration may be asked for
    MaxRuns,        \* bound: preparations, crashed ones included
    MaxEdits,       \* bound: edits of the source and changes of the host
    Receipt,        \* thm-preparation.json
    None            \* nothing

VARIABLES
    source,     \* the version of every file of the source model
    host,       \* the hardware
    changes,    \* how many of both there have been
    conv,       \* of every preparer
    runs,       \* how many there have been
    cache,      \* the reserved directories of the cache, by content
    load,       \* the encoder of the source model being loaded
    tune,       \* the calibration
    profile,    \* the calibrated profile
    session     \* the profile and the encoder of an open session

vars == <<source, host, changes, conv, runs, cache, load, tune, profile, session>>

Contents == [Files -> 0..MaxEdits]
Idle == [pc |-> "idle"]

----------------------------------------------------------------------------
\* Conversion.

Init ==
    /\ source = [f \in Files |-> 0] /\ host = 0 /\ changes = 0
    /\ conv = [p \in Preparers |-> Idle] /\ runs = 0 /\ cache = << >>
    /\ load = Idle /\ tune = Idle /\ profile = None /\ session = None

\* A process records the manifest of the source and starts a worker.
Prepare(p) ==
    /\ conv[p] = Idle /\ runs < MaxRuns
    /\ runs' = runs + 1
    /\ conv' = [conv EXCEPT ![p] = [pc |-> "worker", named |-> source]]
    /\ UNCHANGED <<source, host, changes, cache, load, tune, profile, session>>

Converting(p, pc) == conv[p].pc = pc /\ UNCHANGED <<source, host, changes, runs, load, tune, profile, session>>

\* The worker works on a private copy of the source it was told of.
CopyStarts(p) ==
    /\ Converting(p, "worker") /\ UNCHANGED cache
    /\ conv' = [conv EXCEPT ![p] =
                  IF source # @.named THEN Idle
                  ELSE [pc |-> "copying", named |-> @.named, private |-> << >>]]

Copy(p, f) ==
    /\ Converting(p, "copying") /\ UNCHANGED cache
    /\ f \notin DOMAIN conv[p].private
    /\ conv' = [conv EXCEPT ![p].private =
                  [g \in DOMAIN @ \cup {f} |-> IF g = f THEN source[f] ELSE @[g]]]

\* Mutant: the source is not looked at again after the conversion.
Verified_Once(p) == TRUE

\* Is the source still the one that was named?
Verified(p) == source = conv[p].named

\* The copy is converted; the receipt names the source and the bytes made of it.
Export(p) ==
    /\ Converting(p, "copying") /\ UNCHANGED cache
    /\ DOMAIN conv[p].private = Files
    /\ conv' = [conv EXCEPT ![p] =
                  IF Verified(p) THEN [pc |-> "staged", named |-> @.named, derived |-> @.private]
                  ELSE Idle]

\* mkdir reserves the directory the content gives its name to, once for ever.
Publish(p) ==
    LET d == conv[p].derived
    IN  /\ Converting(p, "staged")
        /\ IF d \in DOMAIN cache
           THEN cache' = cache /\ conv' = [conv EXCEPT ![p] = Idle]
           ELSE /\ cache' = [x \in DOMAIN cache \cup {d} |->
                               IF x = d THEN [named |-> conv[p].named, files |-> {}] ELSE cache[x]]
                /\ conv' = [conv EXCEPT ![p].pc = "moving"]

\* The staged files and the receipt follow one by one, in no particular order.
MoveFile(p, f) ==
    LET d == conv[p].derived
        all == cache[d].files \cup {f} = Files \cup {Receipt}
    IN  /\ Converting(p, "moving")
        /\ f \in (Files \cup {Receipt}) \ cache[d].files
        /\ cache' = [cache EXCEPT ![d].files = @ \cup {f}]
        /\ conv' = [conv EXCEPT ![p] = IF all THEN Idle ELSE @]

\* A preparer dies or runs out of time: what it has reserved stays as it is.
Crash(p) ==
    /\ conv[p] # Idle
    /\ conv' = [conv EXCEPT ![p] = Idle]
    /\ UNCHANGED <<source, host, changes, runs, cache, load, tune, profile, session>>

----------------------------------------------------------------------------
\* Encoders.

\* Mutant: the receipt is trusted.
Loadable_ByReceipt(d) == d \in DOMAIN cache /\ Receipt \in cache[d].files

\* A derived model is loaded when its receipt names the bytes that are there.
Loadable(d) == d \in DOMAIN cache /\ Receipt \in cache[d].files /\ Files \subseteq cache[d].files

Loading(pc) == load.pc = pc /\ UNCHANGED <<source, host, changes, conv, runs, cache, tune, profile, session>>

\* What a derived model would be loaded as.
Artifacts == {[source |-> cache[d].named, derived |-> d] : d \in {x \in DOMAIN cache : Loadable(x)}}

\* A source model is read between two manifests.
LoadStarts == Loading("idle") /\ load' = [pc |-> "reading", named |-> source, bytes |-> << >>]

Read(f) ==
    /\ Loading("reading") /\ f \notin DOMAIN load.bytes
    /\ load' = [load EXCEPT !.bytes = [g \in DOMAIN @ \cup {f} |-> IF g = f THEN source[f] ELSE @[g]]]

\* Mutant: the bytes are not looked at again after loading.
Unchanged_Once == TRUE

Unchanged == source = load.named

LoadEnds ==
    /\ Loading("reading") /\ DOMAIN load.bytes = Files
    /\ load' = IF Unchanged THEN [load EXCEPT !.pc = "ready"] ELSE Idle

Unload == Loading("ready") /\ load' = Idle

----------------------------------------------------------------------------
\* Calibration.

Tuning(pc) == tune.pc = pc /\ UNCHANGED <<source, host, changes, conv, runs, cache, load, session>>

\* The hardware and the source it is for are recorded, ...
TuneStarts ==
    /\ Tuning("idle") /\ profile = None
    /\ \E policy \in Policies :
         tune' = [pc |-> "reference", policy |-> policy, host |-> host, source |-> source, trials |-> {}]
    /\ UNCHANGED profile

\* ... the reference is measured in a process of its own, which must have loaded
\* that source, ...
MeasureReference ==
    /\ Tuning("reference") /\ UNCHANGED profile
    /\ tune' = IF source = tune.source THEN [tune EXCEPT !.pc = "trials"] ELSE Idle

\* Mutant: a candidate is compared whatever it was converted from.
Gate_AnySource(e, parity) == parity

\* The semantic gate: the same source, and the same rankings and evidence within
\* the numeric envelope.
Gate(e, parity) == e.source = tune.source /\ parity

\* ... and so are candidates, each with the derived model it was given or, with
\* other threads, batches and scorer, the source model as it is now; what a
\* candidate does to rankings and time is the candidate's.  A policy that allows
\* it keeps a candidate that drifts, but not one of another source.
Trial ==
    /\ Tuning("trials") /\ UNCHANGED profile
    /\ \E e \in Artifacts \cup {[source |-> source, derived |-> None]},
          parity \in BOOLEAN, faster \in BOOLEAN :
         /\ Gate(e, parity \/ tune.policy = "auto-throughput")
         /\ tune' = [tune EXCEPT !.trials = @ \cup
                       {[derived |-> e.derived, strict |-> Gate(e, parity), faster |-> faster]}]

\* Mutant: the safe policies, too, keep the best of the candidates.
Eligible_Best == tune.trials

\* The safe policies keep the reference unless a candidate is faster.
Eligible ==
    IF tune.policy = "auto-throughput" THEN tune.trials ELSE {t \in tune.trials : t.faster}

\* The fastest eligible candidate wins, or the reference; and the source must
\* not have changed by the end.
TuneEnds ==
    /\ Tuning("trials") /\ tune' = Idle
    /\ \E w \in IF Eligible = {} THEN {None} ELSE
                 {t \in Eligible : (\E u \in Eligible : u.faster) => t.faster} :
         profile' =
           IF source # tune.source THEN None
           ELSE [policy |-> tune.policy, host |-> tune.host, source |-> tune.source,
                 derived |-> IF w = None THEN None ELSE w.derived,
                 strict |-> w = None \/ w.strict, faster |-> w # None /\ w.faster]

\* invalidate-profile: its marker keeps the profile from being loaded again.
Invalidate ==
    /\ profile # None
    /\ profile' = None
    /\ UNCHANGED <<source, host, changes, conv, runs, cache, load, tune, session>>

----------------------------------------------------------------------------
\* Sessions.

\* The source and the artifact of an encoder that could be at hand.
Encoders ==
    Artifacts \cup (IF load.pc = "ready" THEN {[source |-> load.named, derived |-> None]} ELSE {})

\* Mutant: only the hardware is compared.
Fresh_Host(e) == host = profile.host

\* require_fresh: hardware, source and derived model are those calibrated.
Fresh(e) == host = profile.host /\ e.source = profile.source /\ e.derived = profile.derived

Open ==
    \E e \in Encoders :
        /\ session = None /\ profile # None /\ Fresh(e)
        /\ session' = [profile |-> profile, encoder |-> e,
                       bytes |-> IF e.derived = None THEN load.bytes ELSE e.derived]
        /\ UNCHANGED <<source, host, changes, conv, runs, cache, load, tune, profile>>

CloseSession ==
    /\ session # None /\ session' = None
    /\ UNCHANGED <<source, host, changes, conv, runs, cache, load, tune, profile>>

----------------------------------------------------------------------------
\* The world.

Edit(f) ==
    /\ changes < MaxEdits
    /\ changes' = changes + 1 /\ source' = [source EXCEPT ![f] = changes + 1]
    /\ UNCHANGED <<host, conv, runs, cache, load, tune, profile, session>>

Upgrade ==
    /\ changes < MaxEdits
    /\ changes' = changes + 1 /\ host' = changes + 1
    /\ UNCHANGED <<source, conv, runs, cache, load, tune, profile, session>>

Next ==
    \/ \E p \in Preparers : Prepare(p)
    \/ \E p \in Preparers : CopyStarts(p)
    \/ \E p \in Preparers, f \in Files : Copy(p, f)
    \/ \E p \in Preparers : Export(p)
    \/ \E p \in Preparers : Publish(p)
    \/ \E p \in Preparers, f \in Files \cup {Receipt} : MoveFile(p, f)
    \/ \E p \in Preparers : Crash(p)
    \/ LoadStarts
    \/ \E f \in Files : Read(f)
    \/ LoadEnds
    \/ Unload
    \/ TuneStarts
    \/ MeasureReference
    \/ Trial
    \/ TuneEnds
    \/ Invalidate
    \/ Open
    \/ CloseSession
    \/ \E f \in Files : Edit(f)
    \/ Upgrade

Spec == Init /\ [][Next]_vars

----------------------------------------------------------------------------
TypeOK ==
    /\ source \in Contents /\ host \in 0..MaxEdits /\ changes \in 0..MaxEdits
    /\ \A p \in Preparers : conv[p].pc \in {"idle", "worker", "copying", "staged", "moving"}
    /\ runs \in 0..MaxRuns /\ DOMAIN cache \subseteq Contents
    /\ \A d \in DOMAIN cache : cache[d].named \in Contents /\ cache[d].files \subseteq Files \cup {Receipt}
    /\ load.pc \in {"idle", "reading", "ready"} /\ tune.pc \in {"idle", "reference", "trials"}

\* What an encoder says it was made of is what it was made of: a derived model
\* that can be loaded is complete and was converted from the source its receipt
\* names, and an encoder of a source model has read the bytes its identity names,
\* whatever was edited, killed or published twice on the way (prepare.py:14-96,
\* backends/__init__.py:44-83, "source model changed during conversion", "model
\* bytes changed during loading").
EncodersAreWhatTheySay ==
    /\ \A d \in DOMAIN cache : Loadable(d) => cache[d].named = d /\ Files \subseteq cache[d].files
    /\ load.pc = "ready" => load.bytes = load.named

\* A profile is of one source: a candidate that was converted from another one,
\* an old artifact left in the cache, never wins a calibration.  A safe policy's
\* profile has parity with the reference, and unless it is the reference it was
\* faster (autotune.py:102-106, 215-222).
ProfileOfOneSource ==
    /\ profile # None /\ profile.derived # None => cache[profile.derived].named = profile.source
    /\ profile # None /\ profile.policy # "auto-throughput" =>
         profile.strict /\ (profile.derived # None => profile.faster)

\* A session runs the bytes its profile was calibrated for (profiles.py:49-50,
\* scheduler.py:27-31, "runtime profile stale; explicitly recalibrate").
SessionRunsCalibrated ==
    session # None =>
      session.bytes = session.profile.source /\ session.encoder.derived = session.profile.derived
=============================================================================

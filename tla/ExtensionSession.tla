-------------------------- MODULE ExtensionSession --------------------------
(***************************************************************************)
(* The sessions of an SDK seam: ExtensionSession and the staging of its    *)
(* artifact (thm/runtime/fabric/extensions.py), NativeExtensionSeam        *)
(* (native.py) and the bindings of sdk_extensions.py.                      *)
(*                                                                         *)
(* A session is serial, under its own lock; the artifact's files belong to *)
(* another program, which may rewrite them between any two reads.  Any     *)
(* call of a binding may raise, or return after the session's deadline.    *)
(***************************************************************************)
EXTENDS Naturals, FiniteSetsExt, Functions

CONSTANTS
  Files,
  Size(_),     \* the bytes of a content of a file
  MaxBytes,    \* max_input_bytes
  NSessions,
  MaxCalls

Contents == {"declared", "other", "large"}
Sessions == 1..NSessions

\* Of each binding: the call from which close() has something to give back,
\* and whether close() may raise with it still open.
PJRT    == [at |-> "load", mayKeep |-> FALSE]
Neuron  == [at |-> "compile", mayKeep |-> FALSE]
TTNN    == [at |-> "prepare", mayKeep |-> TRUE]
OpenCL  == [at |-> "prepare", mayKeep |-> TRUE]
DiskANN == [at |-> "compile", mayKeep |-> FALSE]
Bindings == {PJRT, Neuron, TTNN, OpenCL, DiskANN}

VARIABLES
  source,    \* the files as they are now
  current,   \* the seam's session, 0 if none: sessions are numbered in order
  binding,   \* of each session
  state,
  listed,    \* the files' sizes when prepare() listed them; Nothing: not in it
  staged,    \* the current session's private copy, as far as it has come
  held,      \* the sessions whose binding has something to give back
  artifact,  \* the content a session works on, Nothing if none
  calls      \* of the current session

vars == <<source, current, binding, state, listed, staged, held, artifact, calls>>

Nothing == [f \in {} |-> 0]
Live == {"prepared", "compiled", "loaded"}
Ended == {"quarantined", "invalidated", "closed"}

Init ==
  /\ source \in [Files -> Contents]
  /\ current = 0
  /\ binding = [s \in Sessions |-> PJRT]
  /\ state = [s \in Sessions |-> "absent"]
  /\ listed = Nothing /\ staged = Nothing
  /\ held = {}
  /\ artifact = [s \in Sessions |-> Nothing]
  /\ calls = 0

Rewrite(f) ==
  /\ source' \in {[source EXCEPT ![f] = c] : c \in Contents \ {source[f]}}
  /\ UNCHANGED <<current, binding, state, listed, staged, held, artifact, calls>>

\* configure closes the seam's session first; if that raised, the session is
\* closed all the same, and the next configure replaces it.
Configure(b) ==
  /\ current # 0 => state[current] = "closed"
  /\ current < NSessions
  /\ current' = current + 1
  /\ binding' = [binding EXCEPT ![current'] = b]
  /\ state' = [state EXCEPT ![current'] = "new"]
  /\ calls' = 0
  /\ UNCHANGED <<source, listed, staged, held, artifact>>

\* No other call of the session runs while prepare() has its lock.
In(s, where) == current = s /\ s # 0 /\ listed = Nothing /\ state[s] \in where

Discarded_ByCaller == UNCHANGED staged
Discarded == staged' = Nothing

\* The end of a session: its binding is closed, and whether or not that
\* raises, the session lets go of what it has.
Ends(s, how, open) ==
  /\ state' = [state EXCEPT ![s] = how]
  /\ \E kept \in {FALSE, open /\ binding[s].mayKeep} :
       held' = IF kept THEN held \cup {s} ELSE held \ {s}
  /\ artifact' = [artifact EXCEPT ![s] = Nothing]
  /\ Discarded

Failed_Renewed == "new"
Failed == "quarantined"

\* _call: a binding's function returns in time, or else the session is
\* quarantined, with or without what that function was to acquire.
Call(s, stage, content) ==
  \/ /\ artifact' = [artifact EXCEPT ![s] = content]
     /\ held' = IF binding[s].at = stage THEN held \cup {s} ELSE held
     /\ UNCHANGED staged
     /\ state' = [state EXCEPT ![s] =
          CASE stage = "prepare" -> "prepared" [] stage = "compile" -> "compiled"
            [] OTHER -> "loaded"]
  \/ \E acquired \in {FALSE, binding[s].at = stage} :
       Ends(s, Failed, s \in held \/ acquired)

\* bounded_artifact_digest, first pass: the listing.
List(s) ==
  /\ In(s, {"new"})
  /\ MapThenSumSet(LAMBDA f : Size(source[f]), Files) <= MaxBytes
  /\ listed' = [f \in Files |-> Size(source[f])]
  /\ UNCHANGED <<source, current, binding, state, staged, held, artifact, calls>>

\* Second pass: each file is copied as it is read, unless it has changed size.
Copy(f) ==
  /\ listed # Nothing /\ f \notin DOMAIN staged
  /\ IF Size(source[f]) = listed[f]
     THEN /\ staged' = [g \in DOMAIN staged \cup {f} |-> IF g = f THEN source[f] ELSE staged[g]]
          /\ UNCHANGED listed
     ELSE listed' = Nothing /\ Discarded
  /\ UNCHANGED <<source, current, binding, state, held, artifact, calls>>

Declared == [f \in Files |-> "declared"]

\* What the binding is given to read.
Input_Original == source
Input == staged

Prepare(s) ==
  /\ listed # Nothing /\ DOMAIN staged = Files /\ s = current
  /\ listed' = Nothing
  /\ IF staged = Declared
     THEN Call(s, "prepare", Input)
     ELSE Discarded /\ UNCHANGED <<state, held, artifact>>
  /\ UNCHANGED <<source, current, binding, calls>>

Compile(s) ==
  /\ In(s, {"prepared"})
  /\ Call(s, "compile", artifact[s])
  /\ UNCHANGED <<source, current, binding, listed, calls>>

Load(s) ==
  /\ In(s, {"compiled"})
  /\ Call(s, "load", artifact[s])
  /\ UNCHANGED <<source, current, binding, listed, calls>>

Execute(s) ==
  /\ In(s, {"loaded"})
  /\ calls < MaxCalls
  /\ calls' = calls + 1
  /\ Call(s, "execute", artifact[s])
  /\ UNCHANGED <<source, current, binding, listed>>

\* By the caller, or by a call for another generation, driver or dependency.
Invalidate(s) ==
  /\ In(s, {"new", "quarantined", "invalidated"} \cup Live)
  /\ Ends(s, "invalidated", s \in held)
  /\ UNCHANGED <<source, current, binding, listed, calls>>

Close(s) ==
  /\ In(s, {"new", "quarantined", "invalidated"} \cup Live)
  /\ Ends(s, "closed", s \in held)
  /\ UNCHANGED <<source, current, binding, listed, calls>>

Next ==
  \/ \E f \in Files : Rewrite(f) \/ Copy(f)
  \/ \E b \in Bindings : Configure(b)
  \/ \E s \in Sessions :
       \/ List(s) \/ Prepare(s) \/ Compile(s) \/ Load(s) \/ Execute(s)
       \/ Invalidate(s) \/ Close(s)

Spec == Init /\ [][Next]_vars

-----------------------------------------------------------------------------
(* Properties                                                              *)

TypeOK ==
  /\ source \in [Files -> Contents]
  /\ current \in 0..NSessions
  /\ binding \in [Sessions -> Bindings]
  /\ state \in [Sessions -> {"absent", "new"} \cup Live \cup Ended]
  /\ listed = Nothing \/ DOMAIN listed = Files
  /\ DOMAIN staged \subseteq Files
  /\ held \subseteq Sessions
  /\ calls \in 0..MaxCalls

\* However the files are rewritten meanwhile, a session works on the declared
\* content; and no session that has ended, or been refused its artifact, keeps
\* a copy, or anything open that its binding could give back.
ArtifactsOwned ==
  /\ \A s \in Sessions :
       /\ state[s] \in Live => artifact[s] = Declared
       /\ state[s] \in Ended /\ s \in held => binding[s].mayKeep
       /\ state[s] = "new" => s \notin held
  /\ staged # Nothing => listed # Nothing \/ state[current] \in Live
  /\ MapThenSumSet(LAMBDA f : Size(staged[f]), DOMAIN staged) <= MaxBytes

Lease == INSTANCE LeasedResource WITH
  Resources <- Sessions,
  Users <- {},
  status <- [s \in Sessions |->
    CASE state[s] \in Live -> "live"
      [] state[s] \in Ended -> IF s \in held THEN "retiring" ELSE "released"
      [] OTHER -> "absent"],
  holders <- [s \in Sessions |-> {}]

\* What a session acquired is given back once, after its end, and a session
\* that has ended never works again, whatever its binding's close() does.
SessionLeases == Lease!Spec
=============================================================================

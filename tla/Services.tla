------------------------------ MODULE Services ------------------------------
(***************************************************************************)
(* What the runtime serves with: the executions of the service with the    *)
(* explorer behind them (RuntimeService), the local models that are        *)
(* prepared, calibrated and opened (Calibration), and the way of a         *)
(* measurement to the choice of a session (MeasuredChoice).  They are      *)
(* modelled without shared state: the system is the conjunction of them.   *)
(***************************************************************************)
EXTENDS RuntimeService, Integers

CONSTANTS
  Files, Preparers, Policies, MaxRuns, MaxEdits, Receipt,     \* Calibration
  ProfileKeys, Candidates, Portfolio, Explored, Failing, Measured(_),    \* MeasuredChoice
  Baseline, AbsoluteMin, Hysteresis, Cooldown, Pause, MaxPause, MaxAge,
  MaxObservations, MaxTime, MaxFailures

VARIABLES
  files, host, edits, conv, preparations, derived, load, tune, profile, opened,
  rows, quarantine, invalidated, lastSwitch, now

Models == INSTANCE Calibration WITH
  None <- Nil, source <- files, changes <- edits, runs <- preparations,
  cache <- derived, session <- opened

Choice == INSTANCE MeasuredChoice WITH Keys <- ProfileKeys, None <- Nil

servicevars == vars
modelvars == <<files, host, edits, conv, preparations, derived, load, tune, profile, opened>>
choicevars == <<rows, quarantine, invalidated, lastSwitch, now>>

\* Each takes its steps, whatever the others do.
Apart == Spec /\ Models!Spec /\ Choice!Spec

\* No content of the files is taken for nothing.
ASSUME ServicesAssumption ==
  MaxRuns \in Nat /\ MaxEdits \in Nat /\ Nil \notin Models!Contents

\* A replay has a p95; the costs are natural numbers where they were measured.
ASSUME ChoiceAssumption ==
  /\ Nil \notin Nat /\ Candidates \subseteq Nat \ {0}
  /\ Explored \subseteq ProfileKeys \X Candidates /\ Failing \subseteq Explored
  /\ \A c \in Candidates : \A m \in Measured(c) :
       m.p95 \in Nat /\ {m.cpu, m.startup, m.transfer} \subseteq Nat \cup {Nil}
  /\ Cooldown \in Nat /\ MaxAge \in Nat /\ MaxObservations \in Nat
  /\ MaxTime \in Nat /\ MaxFailures \in Nat \ {0}

-----------------------------------------------------------------------------
(* Properties, beside RuntimeService's SessionChoiceStable                 *)

\* Every component's variables stay in their types.
TypesOK == TypeOK /\ Models!TypeOK /\ Choice!TypeOK

\* Between the commits of other processes and with an explorer that may be killed
\* at any point, an execution answers from what is committed, for one generation,
\* and no candidate is blamed for a preemption (service.py: _execute; indexes.py;
\* explorer.py).
ServesAsCommitted == OneGeneration /\ ServesCommittedVectors /\ PreemptionIsNoFailure

\* A model, a derived model and a profile were made of the bytes they are used
\* for, whoever edits, upgrades, dies or publishes twice in between (prepare.py,
\* autotune.py, profiles.py, backends/__init__.py).
ModelsAreGenuine ==
  /\ Models!EncodersAreWhatTheySay /\ Models!ProfileOfOneSource
  /\ Models!SessionRunsCalibrated

\* A choice of a session was accepted for its key, lately, and has not failed since
\* but long ago; what nothing measured hides no better point; two switches are a
\* cooldown apart; and a store that is full gives up its oldest evidence
\* (optimizer.py: MaterialGainGate, ParetoFrontier; store.py: put, observations).
EvidenceCounts ==
  /\ [](Choice!FrontierCovers /\ Choice!SelectedHasEvidence)
  /\ Choice!AcceptedApart /\ Choice!EvidenceKept
=============================================================================

------------------------------ MODULE Backends ------------------------------
(***************************************************************************)
(* What a background worker or a late call may disturb, beside the storage *)
(* backends with their transport workers (StorageBackend): the memory      *)
(* provider of an agent (AgentProvider).  They share no state, so that the *)
(* system is the conjunction of the two.                                   *)
(***************************************************************************)
EXTENDS StorageBackend

CONSTANTS
  Homes, Sessions, Settings, LiveCap, MaxJobs         \* AgentProvider

VARIABLES
  config, jobs, stored, imported, provider, boundary

Agent == INSTANCE AgentProvider

storagevars == vars
agentvars == <<config, jobs, stored, imported, provider, boundary>>

\* Each takes its steps, whatever the others do.
Apart == Spec /\ Agent!Spec

\* A setting's live context is a part of its budget (hermes_plugin.py:
\* min(budget // 3, 256)).
ASSUME BackendsAssumption ==
  /\ Nil \notin Nat /\ Nil \notin Homes \cup Sessions
  /\ \A s \in Settings :
       /\ s.budget \in Nat /\ s.sync \in BOOLEAN
       /\ LiveCap[s.budget] \in 0..s.budget

-----------------------------------------------------------------------------
(* Properties, beside StorageBackend's own                                 *)

\* Every component's variables stay in their types.
TypesOK == TypeOK /\ Agent!TypeOK

\* Whichever session and profile are current when a queued message is stored or
\* something is recalled, the text of a session that the agent names is only in
\* that session's scope, and what the provider reports was derived in the
\* session it reports it for (hermes_plugin.py: sync_turn, on_session_end,
\* prefetch, initialize, on_session_switch).
SessionsApart == Agent!LiveScopesOwned /\ Agent!StateOfSession
=============================================================================

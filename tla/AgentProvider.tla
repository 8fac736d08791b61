--------------------------- MODULE AgentProvider ---------------------------
(***************************************************************************)
(* The memory provider of an agent: thm/hermes_plugin.py (THMProvider) and *)
(* thm/hermes_v14_plugin.py (the provider with a warm directory).          *)
(*                                                                         *)
(* Every method runs under the provider's lock.  The agent calls them from *)
(* its main thread, except sync_turn, which its queue runs in the          *)
(* background, one job at a time.  initialize and on_session_switch of the *)
(* later version take the lock twice, so that a job may run in between.    *)
(* Contexts are represented by their sizes.                                *)
(***************************************************************************)
EXTENDS Naturals, Sequences

CONSTANTS
  Homes,       \* profiles of the agent, each with its database
  Sessions,
  Settings,    \* [budget, sync, warm]: what a profile may configure
  LiveCap,     \* what a live scope may take of a budget: min(budget // 3, 256)
  MaxJobs,     \* bound: jobs waiting in the agent's queue
  Nil

VARIABLES
  config,      \* of each profile: its settings
  jobs,        \* what waits in the agent's queue: the session it is of, and
               \* whether the agent names that session to sync_turn
  stored,      \* of each profile and live scope: whose messages are in it, and
               \* whether the scope is the one of a session that was named
  imported,    \* the profiles whose database was imported
  provider,    \* the fields of the provider
  boundary     \* the warm directory is still to be derived

vars == <<config, jobs, stored, imported, provider, boundary>>

HasDatabase(h) == h \in imported \/ \E s \in Sessions : stored[h][s] # Nil
SetProvider(fields) ==
  provider' = [f \in DOMAIN provider |->
                 IF f \in DOMAIN fields THEN fields[f] ELSE provider[f]]

-----------------------------------------------------------------------------
(* Session boundaries                                                      *)

Configure(h, settings) ==
  /\ config' = [config EXCEPT ![h] = settings]
  /\ UNCHANGED <<jobs, stored, imported, provider, boundary>>

Import(h) ==
  /\ imported' = imported \cup {h}
  /\ UNCHANGED <<config, jobs, stored, provider, boundary>>

Initialize_KeepsRuntime(h, s) ==
  /\ ~boundary
  /\ SetProvider([home |-> h, session |-> s, budget |-> config[h].budget,
                  sync |-> config[h].sync, last |-> Nil,
                  index |-> IF HasDatabase(h) THEN h ELSE Nil, failed |-> FALSE])
  /\ boundary' = TRUE
  /\ UNCHANGED <<config, jobs, stored, imported>>

Initialize(h, s) ==
  /\ ~boundary
  /\ SetProvider([home |-> h, session |-> s, budget |-> config[h].budget,
                  sync |-> config[h].sync, last |-> Nil, runtime |-> Nil,
                  index |-> IF HasDatabase(h) THEN h ELSE Nil, failed |-> FALSE])
  /\ boundary' = TRUE
  /\ UNCHANGED <<config, jobs, stored, imported>>

\* It raises for the scope, before it has changed anything but the runtime; or
\* for the budget, the mode or the model, halfway.
InitializeFails(h, s) ==
  /\ ~boundary
  /\ \/ SetProvider([runtime |-> Nil, failed |-> TRUE])
     \/ SetProvider([home |-> h, session |-> s, budget |-> config[h].budget,
                     runtime |-> Nil, failed |-> TRUE])
  /\ UNCHANGED <<config, jobs, stored, imported, boundary>>

Switch_KeepsLast(s) ==
  /\ ~boundary
  /\ SetProvider([session |-> s])
  /\ boundary' = TRUE
  /\ UNCHANGED <<config, jobs, stored, imported>>

Switch(s) ==
  /\ ~boundary
  /\ SetProvider([session |-> s, last |-> Nil])
  /\ boundary' = TRUE
  /\ UNCHANGED <<config, jobs, stored, imported>>

\* _refresh_warm_directory; the block stays empty when there is no budget for
\* it, nothing to show, or an error.
RefreshWarmDirectory ==
  /\ boundary
  /\ \/ SetProvider([block |-> Nil])
     \/ /\ provider.home # Nil /\ config[provider.home].warm
        /\ SetProvider([block |-> [home |-> provider.home, session |-> provider.session]])
  /\ boundary' = FALSE
  /\ UNCHANGED <<config, jobs, stored, imported>>

Shutdown ==
  /\ ~boundary
  /\ SetProvider([block |-> Nil, runtime |-> Nil, last |-> Nil, index |-> Nil])
  /\ UNCHANGED <<config, jobs, stored, imported, boundary>>

OnMemoryWrite ==
  /\ ~boundary
  /\ SetProvider([last |-> Nil])
  /\ UNCHANGED <<config, jobs, stored, imported, boundary>>

-----------------------------------------------------------------------------
(* Turns                                                                   *)

\* A turn ends: the agent queues what was said in it.
Say(named) ==
  /\ ~boundary
  /\ provider.session # Nil
  /\ Len(jobs) < MaxJobs
  /\ jobs' = Append(jobs, [session |-> provider.session, named |-> named])
  /\ UNCHANGED <<config, stored, imported, provider, boundary>>

LiveScope_Current(job) == provider.session

\* The session that is named, or else the one that is current when the job runs.
LiveScope(job) == IF job.named THEN job.session ELSE provider.session

\* _sync_messages; sync is FALSE for a profile without it and outside the
\* primary agent.
Store(session, scope, named) ==
  IF provider.sync
    THEN stored' = [stored EXCEPT ![provider.home][scope] =
                      [session |-> session, named |-> named]]
    ELSE UNCHANGED stored

Sync ==
  /\ jobs # << >>
  /\ jobs' = Tail(jobs)
  /\ Store(Head(jobs).session, LiveScope(Head(jobs)), Head(jobs).named)
  /\ UNCHANGED <<config, imported, provider, boundary>>

\* on_session_end, on_pre_compress: the agent hands over what was said in the
\* current session, which is stored at once.
SyncNow ==
  /\ ~boundary
  /\ provider.session # Nil
  /\ Store(provider.session, provider.session, TRUE)
  /\ UNCHANGED <<config, jobs, imported, provider, boundary>>

SyncFails ==
  /\ jobs # << >>
  /\ jobs' = Tail(jobs)
  /\ UNCHANGED <<config, stored, imported, provider, boundary>>

-----------------------------------------------------------------------------
(* Prefetch                                                                *)

PrefetchNothing(s) ==
  /\ ~boundary
  /\ s = provider.session /\ provider.home # Nil => ~HasDatabase(provider.home)
  /\ SetProvider([last |-> Nil])
  /\ UNCHANGED <<config, jobs, stored, imported, boundary>>

\* The sizes that a search may return within a budget: none for a scope that
\* is not indexed, or for no budget.
Found(h, s, budget) == IF stored[h][s] = Nil THEN {0} ELSE 0..budget

\* What is left of the budget beside the live context and a separator.
Room(budget, live) ==
  IF live = 0 THEN budget ELSE IF live + 1 > budget THEN 0 ELSE budget - live - 1

Compose_Joined(budget, live, base, extra) ==
  IF live = 0 \/ base = 0 THEN live + base ELSE live + base + 1 + extra

\* The joined context may count for more than its pieces; the base context is
\* given up then.
Compose(budget, live, base, extra) ==
  LET joined == IF live = 0 \/ base = 0 THEN live + base ELSE live + base + 1 + extra
  IN  IF joined <= budget THEN joined ELSE live

\* Whether what is recalled may be within the budget, and beyond it.
Fitting(h, budget, live) ==
  {Compose(budget, live, base, extra) <= budget :
     base \in IF h \in imported THEN 0..Room(budget, live) ELSE {0}, extra \in 0..1}

\* h is the open database: the one of the last initialize that did not fail.
Prefetch(s) ==
  /\ ~boundary
  /\ s = provider.session
  /\ provider.home # Nil /\ HasDatabase(provider.home)
  /\ LET h == IF provider.index = Nil THEN provider.home ELSE provider.index
         B == provider.budget
     IN  \E live \in IF provider.sync THEN Found(h, s, LiveCap[B]) ELSE {0} :
         \E fits \in Fitting(h, B, live) :
           LET of == IF live = 0 THEN Nil ELSE stored[h][s]
               found == [session |-> s, home |-> h, live |-> of, fits |-> fits]
           IN  SetProvider([index |-> h, runtime |-> h, last |-> found])
  /\ UNCHANGED <<config, jobs, stored, imported, boundary>>

\* A search raised: last was reset before.
PrefetchFails(s) ==
  /\ ~boundary
  /\ s = provider.session
  /\ provider.home # Nil /\ HasDatabase(provider.home)
  /\ LET h == IF provider.index = Nil THEN provider.home ELSE provider.index
     IN  SetProvider([last |-> Nil, index |-> h, runtime |-> h])
  /\ UNCHANGED <<config, jobs, stored, imported, boundary>>

Init ==
  /\ config \in [Homes -> Settings]
  /\ jobs = << >>
  /\ stored = [h \in Homes |-> [s \in Sessions |-> Nil]]
  /\ imported = {}
  /\ provider = [home |-> Nil, session |-> Nil, budget |-> 0, sync |-> FALSE,
                 index |-> Nil, runtime |-> Nil, last |-> Nil, block |-> Nil,
                 failed |-> FALSE]
  /\ boundary = FALSE

Next ==
  \/ \E h \in Homes, settings \in Settings : Configure(h, settings)
  \/ \E h \in Homes : Import(h)
  \/ \E h \in Homes, s \in Sessions : Initialize(h, s)
  \/ \E h \in Homes, s \in Sessions : InitializeFails(h, s)
  \/ \E s \in Sessions : Switch(s)
  \/ RefreshWarmDirectory
  \/ Shutdown
  \/ OnMemoryWrite
  \/ \E named \in BOOLEAN : Say(named)
  \/ Sync
  \/ SyncNow
  \/ SyncFails
  \/ \E s \in Sessions : PrefetchNothing(s)
  \/ \E s \in Sessions : Prefetch(s)
  \/ \E s \in Sessions : PrefetchFails(s)

Spec == Init /\ [][Next]_vars

-----------------------------------------------------------------------------
(* Properties                                                              *)

Texts == [session : Sessions, named : BOOLEAN]
Results == [session : Sessions, home : Homes, live : Texts \cup {Nil}, fits : BOOLEAN]

TypeOK ==
  /\ config \in [Homes -> Settings]
  /\ stored \in [Homes -> [Sessions -> Texts \cup {Nil}]]
  /\ imported \subseteq Homes
  /\ provider.last \in Results \cup {Nil}
  /\ provider.index \in Homes \cup {Nil} /\ provider.runtime \in Homes \cup {Nil}

\* What is in a live scope is the text of its own session, and only that is
\* recalled for it, whichever session is current when the background sync runs;
\* unless the agent had not named the session whose text it queued.
OwnText(s, text) == text # Nil /\ text.named => text.session = s

LiveScopesOwned ==
  /\ \A h \in Homes, s \in Sessions : OwnText(s, stored[h][s])
  /\ provider.last # Nil => OwnText(provider.last.session, provider.last.live)

\* Between boundaries, and unless initialize has failed, what the provider
\* reports and injects was derived in this session, of this profile, within the
\* budget, by a runtime whose database is the open one.
StateOfSession ==
  /\ provider.runtime # Nil => provider.runtime = provider.index
  /\ provider.failed \/ boundary \/
       /\ provider.last # Nil =>
            /\ provider.last.session = provider.session
            /\ provider.last.home = provider.home
            /\ provider.last.fits
       /\ provider.block # Nil =>
            provider.block = [home |-> provider.home, session |-> provider.session]
=============================================================================

----------------------------- MODULE MCBackends -----------------------------
(***************************************************************************)
(* One run for the two components of Backends: the storage backends with   *)
(* their transport workers, and the memory provider of an agent.  A        *)
(* behaviour takes the steps of one of them, its part; the other stays as  *)
(* it began.                                                               *)
(***************************************************************************)
EXTENDS Backends, TLC

VARIABLE part

\* A profile with both features and room for a live scope beside another one,
\* or a small one with neither; the former may be cut down to the latter.
Setting(on) == [budget |-> IF on THEN 3 ELSE 1, sync |-> on, warm |-> on]
MCSettings == {Setting(TRUE), Setting(FALSE)}
MCLiveCap == <<0, 0, 1>>

allvars == <<part, storagevars, agentvars>>

MCInit ==
  /\ part \in {"storage", "stop", "agent", "unnamed"}
  /\ Init /\ Agent!Init
  /\ part # "agent" => config = [h \in Homes |-> Setting(TRUE)]

\* A step of part p of the storage, and one of the provider.
Alone(p) == part = p /\ UNCHANGED <<part, agentvars>>
Provider == part \in {"agent", "unnamed"} /\ UNCHANGED <<part, storagevars>>

\* Bounds, beside the timeouts.  In part "storage" a worker dies by itself or an
\* object is damaged; in part "stop" the worker of one backend that is used
\* cannot be stopped.
OneFault == part = "storage" => crashes' + damage' <= 1 /\ refusals' = refusals
Storage(b) ==
  \/ Alone("storage")
  \/ /\ Alone("stop") /\ crashes' = 0
     /\ \A c \in Backends \ {b} :
          /\ state[c] = "ready" /\ call[c] = Resting /\ current[c] = Nil
          /\ \A t \in Transactions : journal[t].owner # c

\* Slots are alike: a new worker takes the least that is free.
LeastSlot ==
  \A b \in Backends : current'[b] \notin {current[b], Nil} =>
    \A s \in Slots : s < current'[b] => process[b][s].alive

\* In part "agent" every session is named; in part "unnamed" one profile is used.
OneProfile ==
  IF part = "agent"
    THEN \A i \in DOMAIN jobs' : jobs'[i].named
    ELSE /\ provider.home \in {provider'.home, Nil}
         /\ \A h \in Homes \ {provider'.home} :
              h \notin imported' /\ config'[h] = Setting(TRUE)

MCNext ==
  \/ \E b \in Backends : Storage(b) /\ Operate(b) /\ OneFault /\ LeastSlot
  \/ \E b \in Backends, s \in Slots : Storage(b) /\ Work(b, s) /\ OneFault
  \/ \E k \in Keys : Alone("storage") /\ Damage(k) /\ OneFault
  \/ \E h \in Homes : Provider /\ Agent!Configure(h, Setting(FALSE)) /\ OneProfile
  \/ \E h \in Homes : Provider /\ Agent!Import(h) /\ OneProfile
  \/ \E h \in Homes, s \in Sessions : Provider /\ Agent!Initialize(h, s) /\ OneProfile
  \/ \E h \in Homes, s \in Sessions : Provider /\ Agent!InitializeFails(h, s) /\ OneProfile
  \/ \E s \in Sessions : Provider /\ Agent!Switch(s) /\ OneProfile
  \/ Provider /\ Agent!RefreshWarmDirectory /\ OneProfile
  \/ Provider /\ Agent!Shutdown /\ OneProfile
  \/ Provider /\ Agent!OnMemoryWrite /\ OneProfile
  \/ \E named \in BOOLEAN : Provider /\ Agent!Say(named) /\ OneProfile
  \/ Provider /\ Agent!Sync /\ OneProfile
  \/ Provider /\ Agent!SyncNow /\ OneProfile
  \/ Provider /\ Agent!SyncFails /\ OneProfile
  \/ \E s \in Sessions : Provider /\ Agent!PrefetchNothing(s) /\ OneProfile
  \/ \E s \in Sessions : Provider /\ Agent!Prefetch(s) /\ OneProfile
  \/ \E s \in Sessions : Provider /\ Agent!PrefetchFails(s) /\ OneProfile

MCSpec == MCInit /\ [][MCNext]_allvars

\* Profiles and sessions are named after the backends and the transactions.
Symmetry == Permutations(Backends) \cup Permutations(Transactions)
=============================================================================

---------------------------- MODULE RuntimeService ----------------------------
(***************************************************************************)
(* How the zero-touch runtime chooses, executes and improves: the pins of  *)
(* a session, one execution with its fallback and its replanning, the      *)
(* resident indexes of a provider, and the shadow explorer that measures   *)
(* candidates in the background (thm/runtime/fabric/service.py, store.py,  *)
(* explorer.py, indexes.py and thm/physical/joint.py), for an auto-safe    *)
(* policy and one device.                                                  *)
(*                                                                         *)
(* An execution holds the service's lock and the lock of its SearchIndex   *)
(* from beginning to end, and so does a callback of the explorer hold the  *)
(* former: these are steps of one thread.  Concurrent with it are other    *)
(* processes that commit to the index, between any two statements that are *)
(* not in one transaction, the explorer's thread, and arriving requests.   *)
(***************************************************************************)
EXTENDS Naturals, Sequences, FiniteSets

CONSTANTS
  Settings,      \* scope, workload and retrieval settings of a request
  Gens, Runs,    \* generations of the source; embeddings of one generation
  Targets,       \* placements of the vectors; Local is the database itself
  Local,
  NProviders,    \* index providers, discovered one after the other from the first
  Stored,        \* those an earlier process observed to be materially faster
  Batch,         \* queries executed together
  PinCap,        \* keys, and anchors, a session remembers (128 in the code)
  HandleCap,     \* resident indexes that fit the budget of a provider
  MaxChanges,    \* bound: how often other processes commit
  MaxTasks,      \* bound: tasks of the explorer
  MaxCooldowns,  \* bound: how many candidates are in a cooldown
  Reference,     \* the choice of no candidate
  Nil

ASSUME ServiceAssumption ==
  /\ Local \in Targets
  /\ {NProviders, Batch, PinCap, HandleCap} \subseteq Nat \ {0}
  /\ {MaxChanges, MaxTasks, MaxCooldowns} \subseteq Nat
  /\ Nil \notin Gens \cup Runs \cup Targets /\ Reference \notin 1..NProviders
  /\ Stored \subseteq 1..NProviders

Providers == 1..NProviders
Choices == Providers \cup {Reference}
\* A profile key; its anchor is what discovery does not change.
Keys == [set : Settings, gen : Gens, place : Targets, known : SUBSET Providers]
Anchors == [set : Settings, gen : Gens, place : Targets]
Anchor(k) == [set |-> k.set, gen |-> k.gen, place |-> k.place]
Vectors == [gen : Gens, run : Runs]
\* A matrix of vectors in memory, by the commit after which it was loaded.
Matrices == [data : Vectors, load : 0..MaxChanges]

VARIABLES
  index,       \* what is committed: generation, vectors (or Nil), placement
  changes,     \* commits of other processes
  known,       \* the providers that have been discovered
  cursor,      \* discovery_cursor: the provider that is next
  done,        \* discovery_done
  accepted,    \* <<key, provider>> observed to be materially faster
  cooldown,    \* <<key, provider>> quarantined
  pinned,      \* RuntimeService.pinned, in insertion order
  anchors,     \* RuntimeService.session_pins, in insertion order
  first,       \* history: the first choice for each anchor that is remembered
  request,     \* the execution that holds the lock
  resident,    \* the resident indexes of each provider
  shadow,      \* BoundedShadowExplorer: its thread, its child and its flags
  tasks        \* tasks of the explorer so far

discovery == <<known, cursor, done>>
background == <<discovery, accepted, shadow, tasks>>
session == <<pinned, anchors, first>>
vars == <<index, changes, background, cooldown, session, request, resident>>

NoRequest == [step |-> "idle", set |-> Nil, gen |-> Nil, key |-> Nil, choice |-> Reference,
              plan |-> Nil, results |-> <<>>, mode |-> "first"]
NoTask == [step |-> "none", task |-> Nil, preempted |-> FALSE, killed |-> FALSE,
           foreground |-> FALSE]

At(s) == request.step = s
Goto(s) == request' = [request EXCEPT !.step = s]

-----------------------------------------------------------------------------
(* Commits of other processes, as DerivedIndex details them                *)

\* replace_scope, embed, or export and resume; or the three of them.  Vectors
\* that are not there have no placement.
Commit(new) ==
  /\ changes < MaxChanges
  /\ new # index
  /\ new.run = Nil => new.place = Local
  /\ new.gen # index.gen => new.run \in {Nil, index.run}
  /\ new.gen = index.gen => new.run = index.run \/ new.place = index.place
  /\ index' = new
  /\ changes' = changes + 1
  /\ UNCHANGED <<background, cooldown, session, request, resident>>

-----------------------------------------------------------------------------
(* An execution: _key and _select                                          *)

\* _execute; its first statement reads the generation.
Begin(s) ==
  /\ At("idle")
  /\ request' = [NoRequest EXCEPT !.step = "placement", !.set = s, !.gen = index.gen]
  /\ UNCHANGED <<index, changes, background, cooldown, session, resident>>

\* The placement is read by a statement of its own.
ReadPlacement ==
  /\ At("placement")
  /\ request' = [request EXCEPT
       !.key = [set |-> request.set, gen |-> request.gen, place |-> index.place, known |-> known],
       !.step = IF request.mode = "first" THEN "select" ELSE "plan"]
  /\ UNCHANGED <<index, changes, background, cooldown, session, resident>>

\* Dictionaries keep the order of insertion; a new value keeps its place.
Lookup(table, name) == {i \in DOMAIN table : table[i].name = name}
Has(table, name) == Lookup(table, name) # {}
Place(table, name) == CHOOSE i \in Lookup(table, name) : TRUE
ValueOf(table, name) == table[Place(table, name)].value
Put(table, name, value) ==
  IF Has(table, name)
  THEN [i \in DOMAIN table |-> IF table[i].name = name THEN [name |-> name, value |-> value]
                               ELSE table[i]]
  ELSE Append(table, [name |-> name, value |-> value])
Without(table, name) ==
  IF Has(table, name)
  THEN LET i == Place(table, name)
       IN  SubSeq(table, 1, i - 1) \o SubSeq(table, i + 1, Len(table))
  ELSE table

\* The bug of never dropping the oldest entry.
Trimmed_Never(table) == table

\* The oldest entry makes room for a new one.
Trimmed(table) == IF Len(table) >= PinCap THEN Tail(table) ELSE table

Chosen(p) == request' = [request EXCEPT !.choice = p, !.step = "plan"]

SelectPinned ==
  /\ At("select")
  /\ Has(pinned, request.key)
  /\ Chosen(ValueOf(pinned, request.key))
  /\ UNCHANGED <<index, changes, background, cooldown, session, resident>>

\* Accepted, discovered and not in a cooldown.
Eligible(k) ==
  {p \in known : <<k, p>> \in accepted /\ <<k, p>> \notin cooldown}

\* The session has chosen for the anchor of this key.
Remembered(k) == Has(anchors, Anchor(k))

\* The bug of choosing anew for a key that discovery changed.
Inherited_Anew(k, prior) ==
  IF prior.key # k /\ Eligible(k) # {} THEN CHOOSE p \in Eligible(k) : TRUE ELSE prior.choice

\* The choice stays with the very key it was made for.
Inherited(k, prior) == IF prior.key = k THEN prior.choice ELSE Reference

SelectAnchored ==
  LET k == request.key
      choice == Inherited(k, ValueOf(anchors, Anchor(k)))
  IN
  /\ At("select")
  /\ ~Has(pinned, k) /\ Remembered(k)
  /\ pinned' = Put(pinned, k, choice)
  /\ Chosen(choice)
  /\ UNCHANGED <<index, changes, background, cooldown, anchors, first, resident>>

\* Which of the eligible candidates is on the frontier and meets the deadline,
\* if any, is a matter of measurements.
SelectFresh ==
  LET k == request.key IN
  /\ At("select")
  /\ ~Has(pinned, k) /\ ~Remembered(k)
  /\ \E choice \in Eligible(k) \cup {Reference} :
       LET kept == Trimmed(anchors) IN
       /\ pinned' = Put(Trimmed(pinned), k, choice)
       /\ anchors' = Put(kept, Anchor(k), [key |-> k, choice |-> choice])
       /\ first' = {f \in first : Has(kept, f[1])}
                     \cup IF \E f \in first : f[1] = Anchor(k) THEN {} ELSE {<<Anchor(k), choice>>}
       /\ Chosen(choice)
  /\ UNCHANGED <<index, changes, background, cooldown, resident>>

NewSession ==
  /\ At("idle")
  /\ pinned' = <<>> /\ anchors' = <<>> /\ first' = {}
  /\ UNCHANGED <<index, changes, background, cooldown, request, resident>>

-----------------------------------------------------------------------------
(* An execution: planning, searching, falling back, planning again         *)

Raise ==
  /\ request' = NoRequest
  /\ UNCHANGED <<index, changes, background, cooldown, session, resident>>

\* JointComputeDataPlanner.plan: the generation, then the placement, which
\* must not be of another one.
PlanGeneration ==
  /\ At("plan")
  /\ request' = [request EXCEPT !.plan = [gen |-> index.gen, place |-> Nil],
                                !.step = "plan-placement"]
  /\ UNCHANGED <<index, changes, background, cooldown, session, resident>>

Foreign == index.place # Local /\ index.gen # request.plan.gen

PlanPlacement ==
  /\ At("plan-placement")
  /\ ~Foreign
  /\ request' = [request EXCEPT !.plan.place = index.place,
                                !.step = IF request.mode = "fallback" THEN "validate" ELSE "search"]
  /\ UNCHANGED <<index, changes, background, cooldown, session, resident>>

PlanRaises == At("plan-placement") /\ Foreign /\ Raise

\* What a search of the committed index returns; truth is what it should be.
Result(v) == [gen |-> index.gen, data |-> v, truth |-> [gen |-> index.gen, run |-> index.run]]
Committed == [gen |-> index.gen, run |-> index.run]
Searchable == index.run # Nil

\* A batch is searched in one snapshot; after a failure, and after planning
\* again, its queries are searched one after the other.
Searched(r) ==
  LET rs == IF request.mode = "first" THEN [i \in 1..Batch |-> r] ELSE Append(request.results, r)
  IN  request' = [request EXCEPT !.results = rs,
        !.step = IF Len(rs) < Batch THEN "search"
                 ELSE IF request.mode = "fallback" THEN "fallen-back" ELSE "validate"]

SearchReference ==
  /\ At("search")
  /\ request.choice = Reference \/ request.mode # "first"
  /\ Searchable
  /\ Searched(Result(Committed))
  /\ UNCHANGED <<index, changes, background, cooldown, session, resident>>

\* SearchIndex loads its matrix again after any commit of another process
\* (retrieval.py:230-234), which makes a new object of it.
Loaded == [data |-> Committed, load |-> changes]

\* The bug of taking what was built of the same generation.
Hits_ByGeneration(handles) == {h \in handles : h.data.gen = index.gen}

\* The resident index that was built of this very matrix: an equal generation
\* does not do, nor an equal address, since the old object is gone.
Hits(handles) == {h \in handles : h.load = Loaded.load}
Least(m, n) == IF m < n THEN m ELSE n

\* ResidentExecutor.search: the indexes of other generations are dropped; one
\* is built for this matrix if there is none, in place of others if need be.
SearchResident ==
  LET p == request.choice
      kept == {h \in resident[p] : h.data.gen = index.gen}
      Room == {h \in SUBSET kept : Cardinality(h) = Least(Cardinality(kept), HandleCap - 1)}
  IN
  /\ At("search") /\ request.mode = "first" /\ p # Reference
  /\ Searchable
  /\ \/ \E h \in Hits(kept) :
          /\ Searched(Result(h.data))
          /\ resident' = [resident EXCEPT ![p] = kept]
     \/ /\ Hits(kept) = {}
        /\ Searched(Result(Committed))
        /\ \E h \in Room : resident' = [resident EXCEPT ![p] = h \cup {Loaded}]
  /\ UNCHANGED <<index, changes, background, cooldown, session>>

\* ProfileStore.failure
Quarantine(t) ==
  /\ cooldown' = cooldown \cup {t}
  /\ Cardinality(cooldown') <= MaxCooldowns

\* The candidate raises, by its own fault or because the index cannot be
\* searched: it is quarantined, and the reference answers.
SearchFails ==
  /\ At("search") /\ request.mode = "first" /\ request.choice # Reference
  /\ Quarantine(<<request.key, request.choice>>)
  /\ request' = [request EXCEPT !.mode = "fallback"]
  /\ UNCHANGED <<index, changes, background, session, resident>>

SearchRaises ==
  /\ At("search")
  /\ request.choice = Reference \/ request.mode # "first"
  /\ ~Searchable
  /\ Raise

\* Only when the reference has answered is the choice of the session undone.
FallenBack ==
  /\ At("fallen-back")
  /\ pinned' = Put(pinned, request.key, Reference)
  /\ request' = [request EXCEPT !.choice = Reference, !.step = "plan"]
  /\ UNCHANGED <<index, changes, background, cooldown, anchors, first, resident>>

\* The bug of comparing the first result of a batch alone.
Consistent_First == request.results[1].gen = request.key.gen
Consistent == \A i \in DOMAIN request.results : request.results[i].gen = request.key.gen

ValidateGeneration ==
  /\ At("validate") /\ request.mode # "replan"
  /\ Goto(IF index.gen = request.plan.gen THEN "validate-placement" ELSE "replan")
  /\ UNCHANGED <<index, changes, background, cooldown, session, resident>>

ValidatePlacement ==
  /\ At("validate-placement")
  /\ Goto(IF index.place = request.plan.place /\ Consistent THEN "explore" ELSE "replan")
  /\ UNCHANGED <<index, changes, background, cooldown, session, resident>>

\* The source or the placement changed: once more, with the reference, from
\* the generation of this moment.
Replan ==
  /\ At("replan")
  /\ pinned' = Without(pinned, request.key)
  /\ request' = [request EXCEPT !.gen = index.gen, !.choice = Reference, !.results = <<>>,
                                !.mode = "replan", !.step = "placement"]
  /\ UNCHANGED <<index, changes, background, cooldown, anchors, first, resident>>

\* After that nothing but the generation of the results is compared.
Replanned ==
  /\ At("validate") /\ request.mode = "replan"
  /\ IF Consistent THEN Goto("explore") ELSE request' = NoRequest
  /\ UNCHANGED <<index, changes, background, cooldown, session, resident>>

-----------------------------------------------------------------------------
(* The end of an execution: _maybe_explore                                 *)

\* There is a queue, pressure, a budget not yet due, ...
ExploreNothing ==
  /\ At("explore")
  /\ request' = NoRequest
  /\ UNCHANGED <<index, changes, background, cooldown, session, resident>>

\* Discovery comes first, then the replay of a request by a candidate.
TasksFor(k) ==
  IF ~done THEN {<<"discover">>}
  ELSE {<<"replay", k, p>> : p \in {q \in known : <<k, q>> \notin cooldown}}

Explore ==
  /\ At("explore")
  /\ shadow.step = "none" /\ tasks < MaxTasks
  /\ \E t \in TasksFor(request.key) : shadow' = [NoTask EXCEPT !.step = "start", !.task = t]
  /\ tasks' = tasks + 1
  /\ request' = NoRequest
  /\ UNCHANGED <<index, changes, discovery, accepted, cooldown, session, resident>>

-----------------------------------------------------------------------------
(* The explorer                                                            *)

Shadow(s) == shadow' = [shadow EXCEPT !.step = s]
ShadowOnly == UNCHANGED <<index, changes, discovery, accepted, tasks, cooldown, session,
                          request, resident>>

Launch ==
  /\ shadow.step = "start"
  /\ Shadow(IF shadow.preempted THEN "raised" ELSE "run")
  /\ ShadowOnly

\* The child answers; or it is late, over its budget, or wrong.
ChildEnds ==
  /\ shadow.step = "run"
  /\ \E s \in {"result", "raised"} : Shadow(s)
  /\ ShadowOnly

\* A request arrives while the explorer's thread is alive.
Preempt ==
  /\ shadow.step # "none" /\ ~shadow.preempted
  /\ shadow' = [shadow EXCEPT !.preempted = TRUE]
  /\ ShadowOnly

\* The bug of killing the child before the preemption is noted.
Kill_First ==
  /\ shadow.step = "run"
  /\ shadow' = [shadow EXCEPT !.step = "raised", !.killed = TRUE]
  /\ ShadowOnly

\* A thread of its own kills the child, if that still runs.
Kill ==
  /\ shadow.step = "run" /\ shadow.preempted
  /\ shadow' = [shadow EXCEPT !.step = "raised", !.killed = TRUE]
  /\ ShadowOnly

\* The handler of the explorer's thread names the reason.
Defer ==
  /\ shadow.step = "raised"
  /\ shadow' = [shadow EXCEPT !.step = "deferred", !.foreground = shadow.preempted]
  /\ ShadowOnly

\* _discovered and _publish run in the explorer's thread under the service's
\* lock.
Returns ==
  /\ At("idle")
  /\ shadow' = NoTask
  /\ UNCHANGED <<index, changes, tasks, session, request, resident>>

Target == <<shadow.task[2], shadow.task[3]>>

Discovered ==
  /\ shadow.step = "result" /\ shadow.task[1] = "discover"
  /\ Returns
  /\ known' = known \cup ({cursor} \cap Providers)
  /\ cursor' = cursor + 1
  /\ done' = (cursor' > NProviders)
  /\ UNCHANGED <<accepted, cooldown>>

\* The replay agreed, and was materially faster.
PublishAccepted ==
  /\ shadow.step = "result" /\ shadow.task[1] = "replay"
  /\ Returns
  /\ accepted' = accepted \cup {Target}
  /\ UNCHANGED <<discovery, cooldown>>

\* It was not (or soon after another switch), or it did not agree, which is a
\* failure.
PublishRejected ==
  /\ shadow.step = "result" /\ shadow.task[1] = "replay"
  /\ Returns
  /\ accepted' = accepted \ {Target}
  /\ \/ UNCHANGED cooldown
     \/ Quarantine(Target)
  /\ UNCHANGED discovery

\* A child that was preempted is no failure of its candidate; discovery passes
\* over a provider that fails.
Deferred ==
  /\ shadow.step = "deferred"
  /\ Returns
  /\ \/ shadow.foreground /\ UNCHANGED <<cursor, cooldown>>
     \/ ~shadow.foreground /\ shadow.task[1] = "discover"
        /\ cursor' = cursor + 1 /\ UNCHANGED cooldown
     \/ ~shadow.foreground /\ shadow.task[1] = "replay"
        /\ Quarantine(Target) /\ UNCHANGED cursor
  /\ UNCHANGED <<known, done, accepted>>

-----------------------------------------------------------------------------
(* Time                                                                    *)

CooldownEnds ==
  /\ \E t \in cooldown : cooldown' = cooldown \ {t}
  /\ UNCHANGED <<index, changes, background, session, request, resident>>

\* The store of an earlier process may hold observations already: it made them
\* after the discovery of every provider.
Init ==
  /\ index \in [gen : Gens, run : Runs, place : {Local}]
  /\ changes = 0 /\ tasks = 0
  /\ known = {1} /\ cursor = 2 /\ done = FALSE
  /\ accepted = {k \in Keys : k.known = Providers} \X Stored
  /\ cooldown = {}
  /\ pinned = <<>> /\ anchors = <<>> /\ first = {}
  /\ request = NoRequest
  /\ resident = [p \in Providers |-> {}]
  /\ shadow = NoTask

Execute ==
  \/ \E s \in Settings : Begin(s)
  \/ ReadPlacement
  \/ SelectPinned
  \/ SelectAnchored
  \/ SelectFresh
  \/ PlanGeneration
  \/ PlanPlacement
  \/ PlanRaises
  \/ SearchReference
  \/ SearchResident
  \/ SearchFails
  \/ SearchRaises
  \/ FallenBack
  \/ ValidateGeneration
  \/ ValidatePlacement
  \/ Replan
  \/ Replanned
  \/ ExploreNothing
  \/ Explore

Background ==
  \/ Launch
  \/ ChildEnds
  \/ Preempt
  \/ Kill
  \/ Defer
  \/ Discovered
  \/ PublishAccepted
  \/ PublishRejected
  \/ Deferred

Next ==
  \/ Execute
  \/ Background
  \/ NewSession
  \/ \E new \in [gen : Gens, run : Runs \cup {Nil}, place : Targets] : Commit(new)
  \/ CooldownEnds

Spec == Init /\ [][Next]_vars

-----------------------------------------------------------------------------
(* Properties                                                              *)

TypeOK ==
  /\ index \in [gen : Gens, run : Runs \cup {Nil}, place : Targets]
  /\ changes \in 0..MaxChanges /\ tasks \in 0..MaxTasks
  /\ known \subseteq Providers /\ cursor \in 2..NProviders + 1 + MaxTasks /\ done \in BOOLEAN
  /\ accepted \subseteq Keys \X Providers /\ cooldown \subseteq Keys \X Providers
  /\ \A i \in DOMAIN pinned : pinned[i] \in [name : Keys, value : Choices]
  /\ \A i \in DOMAIN anchors :
       anchors[i] \in [name : Anchors, value : [key : Keys, choice : Choices]]
  /\ Len(anchors) <= PinCap
  /\ first \subseteq Anchors \X Choices
  /\ request.choice \in Choices /\ request.key \in Keys \cup {Nil}
  /\ Len(request.results) <= Batch
  /\ \A p \in Providers : resident[p] \subseteq Matrices /\ Cardinality(resident[p]) <= HandleCap

\* As long as the session remembers an anchor, it serves it by its first choice
\* or by the reference: neither a discovery nor an observation, a failure or a
\* fallback brings another provider in (docs/22-runtime-optimizer.md, "cannot
\* promote a new provider during an existing session").
SessionChoiceStable ==
  request.choice # Reference =>
    \A f \in first : f[1] = Anchor(request.key) => f[2] = request.choice

\* The results of a batch are all of one generation, the one the receipt's key
\* names, however often other processes replace the source meanwhile.
OneGeneration ==
  At("explore") => \A i \in DOMAIN request.results : request.results[i].gen = request.key.gen

\* A resident index answers from the vectors committed when the search began,
\* also after the same source was embedded again.
ServesCommittedVectors ==
  \A i \in DOMAIN request.results : request.results[i].data = request.results[i].truth

\* A candidate whose replay was killed because a request arrived is not blamed
\* for it.
PreemptionIsNoFailure ==
  shadow.step = "deferred" /\ shadow.killed => shadow.foreground
=============================================================================

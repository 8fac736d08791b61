-------------------------- MODULE ResidencyActuator --------------------------
(***************************************************************************)
(* The shadow residency plan and what is done with it.                     *)
(*                                                                         *)
(* The plan says which items a host should keep in tier T0, computed from  *)
(* their telemetry, their cost and a budget (thm/residency.py,             *)
(* thm/residency_control.py): operators, functions of their arguments.     *)
(* Rates and token values are fractions in the code.  They are kept exact  *)
(* by multiplying all of them with one common denominator, Scale.          *)
(*                                                                         *)
(* Residency placement transactions (thm/actuator.py): hosts make a shadow *)
(* plan from the placement they read, an actuator proposes it against the  *)
(* placement of that moment, executes the approved proposal and commits it *)
(* by compare-and-set; a commit may be rolled back.                        *)
(*                                                                         *)
(* A method of ResidencyPlacementStore is one transaction under the        *)
(* store's lock, so one action.  An actuator's execute is two: the         *)
(* proposal is checked again, then committed.  The audit holds one event   *)
(* for every change of the revision, so that the revision is its length    *)
(* and the plan_id of a committed plan is the position of its event.       *)
(***************************************************************************)
EXTENDS Integers, FiniteSets, FiniteSetsExt, Functions, SequencesExt

CONSTANTS
    Items,              \* the ids of the entries, as numbers: ids are ordered
    Tasks,              \* the ids of the tasks telemetry names
    Units,              \* resident_units of an entry; 0 when its cost is unknown
    Penalty,            \* miss_penalty_tokens of an entry; NoPenalty without one
    Activity,           \* activity_fn of an entry
    Priority,           \* its cost class: 1, 2 or 3
    Pinned,             \* the pinned entries
    Horizon,            \* horizon_tasks
    MinTasks,           \* min_tasks
    MinItemDemands,     \* min_item_demands
    CandidateTiers,     \* candidate_tiers
    CompleteCoverage    \* complete_coverage

NoPenalty == -1
Tiers == {"T0", "T1", "T2", "T3"}

ASSUME ItemsAssumption == Items \subseteq Nat /\ IsFiniteSet(Items)
ASSUME EntriesAssumption ==
    /\ Units \in [Items -> Nat] /\ Penalty \in [Items -> Nat \cup {NoPenalty}]
    /\ Activity \in [Items -> Nat] /\ Priority \in [Items -> 1..3] /\ Pinned \subseteq Items
ASSUME ConfigAssumption ==
    /\ Horizon \in Nat \ {0} /\ MinTasks \in Nat /\ MinItemDemands \in Nat
    /\ CandidateTiers \subseteq Tiers \ {"T0"} /\ CompleteCoverage \in BOOLEAN

----------------------------------------------------------------------------
\* Telemetry.

\* An event about an item, one of the kinds that count for residency.
Events == [item: Items, task: Tasks, tokens: Nat,
           kind: {"resident_hit", "avoidable_miss", "unavoidable_miss", "stale_resident_failure"}]

NoEvents == [tasks |-> {}, needs |-> 0, avoidable |-> 0, tokens |-> 0, stale |-> 0]

\* The aggregate of an item's telemetry after one more event.
Observed(stat, e) ==
    IF e.kind = "stale_resident_failure" THEN [stat EXCEPT !.stale = @ + 1]
    ELSE [stat EXCEPT !.tasks = @ \cup {e.task}, !.needs = @ + 1,
            !.avoidable = @ + (IF e.kind = "avoidable_miss" THEN 1 ELSE 0),
            !.tokens = @ + (IF e.kind = "avoidable_miss" THEN e.tokens ELSE 0)]

\* The number of tasks that demanded anything at all.
DemandTasks(stats) == Cardinality(UNION {stats[i].tasks : i \in Items})

\* Too few observations are no evidence at all, nor is a penalty without them.
LowSupport(stat) == stat.needs \in 1..(MinItemDemands - 1)

Supported(stat) ==
    IF LowSupport(stat) THEN [NoEvents EXCEPT !.stale = stat.stale] ELSE stat

PenaltyOf(i, tier, stat) ==
    IF LowSupport(stat) /\ tier = "T0" THEN NoPenalty ELSE Penalty[i]

----------------------------------------------------------------------------
\* The token value of keeping an item in T0 over the horizon.

Positive(n) == IF n = 0 THEN 1 ELSE n

\* One denominator for the rates of every item.
Scale(stats) ==
    Positive(DemandTasks(stats))
      * FoldFunction(LAMBDA s, product: Positive(s.needs) * product, 1, stats)

\* Is the cost of a miss known?  Without it a resident item is uncertain.
CostKnown(i, tier, stat) ==
    PenaltyOf(i, tier, stat) # NoPenalty \/ Supported(stat).avoidable > 0

\* Mutant: what was seen counts for residents, every need for the others.
MissTokens_Swapped(i, tier, stats) ==
    LET s == Supported(stats[i])
        p == PenaltyOf(i, tier, stats[i])
        D == Scale(stats) \div Positive(DemandTasks(stats))
    IN  IF p = NoPenalty THEN s.tokens * (D \div Positive(s.needs))
        ELSE IF tier # "T0" THEN p * D ELSE s.avoidable * p * (D \div Positive(s.needs))

\* Expected avoidable misses over the horizon, times the tokens each costs, for
\* one unit of the rate of tasks that need the item.  A resident item with a
\* stated penalty would miss at every need; what has been seen to be missed
\* counts for the others.
MissTokens(i, tier, stats) ==
    LET s == Supported(stats[i])
        p == PenaltyOf(i, tier, stats[i])
        D == Scale(stats) \div Positive(DemandTasks(stats))
    IN  CASE p # NoPenalty /\ tier = "T0" -> p * D
          [] p # NoPenalty /\ tier # "T0" -> s.avoidable * p * (D \div Positive(s.needs))
          [] OTHER                        -> s.tokens * (D \div Positive(s.needs))

NetValue(i, tier, stats) ==
    Horizon * (Cardinality(Supported(stats[i]).tasks) * MissTokens(i, tier, stats)
                 - Units[i] * Scale(stats))

----------------------------------------------------------------------------
\* The exact selection among candidates, for a value of each.

TotalUnits(S) == MapThenSumSet(LAMBDA i: Units[i], S)

\* The sorted ids of S come before those of T.
IdsBefore(S, T) ==
    LET m == Min(SymDiff(S, T))
    IN  \/ m \in S /\ \E j \in T : j > m
        \/ m \in T /\ \A j \in S : j < m

\* S is to be preferred to T: value, activity, cost class, units used, ids.
Better(S, T, value) ==
    LET v(X) == MapThenSumSet(LAMBDA i: value[i], X)
        a(X) == MapThenSumSet(LAMBDA i: Activity[i], X)
        p(X) == MapThenSumSet(LAMBDA i: Priority[i], X)
    IN  \/ v(S) > v(T)
        \/ v(S) = v(T) /\ a(S) > a(T)
        \/ v(S) = v(T) /\ a(S) = a(T) /\ p(S) > p(T)
        \/ v(S) = v(T) /\ a(S) = a(T) /\ p(S) = p(T) /\ TotalUnits(S) < TotalUnits(T)
        \/ /\ v(S) = v(T) /\ a(S) = a(T) /\ p(S) = p(T) /\ TotalUnits(S) = TotalUnits(T)
           /\ S # T /\ IdsBefore(S, T)

\* Mutant: the first selection that uses so many units is kept.
WithItem_KeepsFirst(states, i, capacity, value) ==
    LET reached == {u + Units[i] : u \in DOMAIN states} \cap 0..capacity
    IN  [u \in DOMAIN states \cup reached |->
           IF u \in DOMAIN states THEN states[u] ELSE states[u - Units[i]] \cup {i}]

\* One round of the dynamic programme: states maps the units used to the best
\* selection that uses them; item i is added to each that leaves room for it.
WithItem(states, i, capacity, value) ==
    LET reached == {u + Units[i] : u \in DOMAIN states} \cap 0..capacity
        With(u) == states[u - Units[i]] \cup {i}
    IN  [u \in DOMAIN states \cup reached |->
           IF u \in reached /\ (u \notin DOMAIN states \/ Better(With(u), states[u], value))
           THEN With(u) ELSE states[u]]

SelectExact(candidates, capacity, value) ==
    IF capacity <= 0 THEN {}
    ELSE LET states == FoldLeft(LAMBDA s, i: WithItem(s, i, capacity, value),
                                [u \in {0} |-> {}], SetToSortSeq(candidates, <))
         IN  CHOOSE S \in Range(states) :
               \A T \in Range(states) : T = S \/ Better(S, T, value)

----------------------------------------------------------------------------
\* The report of shadow_residency_plan, for the tier of every entry, the entries
\* that are active today, the telemetry and the budget asked about.

\* The rows: entries in scope whose cost is known, with the value of each.
InScope(tier, valid) == {i \in valid : tier[i] \in {"T0"} \cup CandidateTiers}

NetValues(tier, valid, stats) ==
    [i \in {j \in InScope(tier, valid) : Units[j] > 0} |-> NetValue(i, tier[i], stats)]

Report(tier, valid, stats, budget) ==
    LET resident == {i \in InScope(tier, valid) : tier[i] = "T0"}
        net == NetValues(tier, valid, stats)
        rows == DOMAIN net
        \* What to do with a row: stale ones are for review, whatever else they are.
        stale == {i \in rows : stats[i].stale > 0}
        known == {i \in rows : CostKnown(i, tier[i], stats[i])}
        worth == {i \in known : net[i] > 0}
        protected == (resident \cap rows \cap Pinned) \ stale
        unproven == {i \in (resident \cap rows) \ (stale \cup Pinned) :
                        i \notin known \/ (i \notin worth /\ ~CompleteCoverage)}
        fixed == protected \cup unproven
        candidates == worth \ (stale \cup protected)
        chosen == SelectExact(candidates, budget - TotalUnits(fixed), net)
        selected == fixed \cup chosen
        status == IF ~(resident \subseteq rows) THEN "UNCOSTED_CURRENT_RESIDENT"
                  ELSE IF TotalUnits(fixed) > budget THEN "PROTECTED_OVER_BUDGET"
                  ELSE IF DemandTasks(stats) < MinTasks THEN "INSUFFICIENT_TELEMETRY"
                  ELSE "OK"
    IN  [status |-> status, budget |-> budget, net |-> net,
         fixed |-> fixed, candidates |-> candidates, chosen |-> chosen,
         admit |-> IF status = "OK" THEN selected \ resident ELSE {},
         evict |-> IF status = "OK" THEN resident \ selected ELSE {},
         review_required |-> (resident \ rows) \cup stale \cup unproven]

----------------------------------------------------------------------------
\* The reference the selection is compared with.
Optimal(S, candidates, capacity, value) ==
    LET Fits == {T \in SUBSET candidates : TotalUnits(T) <= capacity}
    IN  S \in Fits /\ \A T \in Fits \ {S} : ~Better(T, S, value)

----------------------------------------------------------------------------
\* Placement transactions.

CONSTANTS
    None,               \* nothing
    Actuators,
    FirstTiers,         \* the placements the store may be initialised with
    FirstStats,         \* the telemetry there may be at that time
    NewEvents,          \* events that may be observed later
    Budgets,            \* budgets hosts plan for
    MinimumTasks,       \* ActuatorPolicy.minimum_tasks
    MinimumDemands,     \* ActuatorPolicy.minimum_demands
    MinimumGain,        \* ActuatorPolicy.minimum_gain_tokens
    Cooldown,           \* ActuatorPolicy.cooldown_seconds
    MaxTime,            \* bound: the last reading of the clock
    MaxRevision,        \* bound: commits and rollbacks
    MaxChanges          \* bound: changes outside the store

VARIABLES
    placement,  \* the payload: the tier of every entry and when it last moved
    audit,      \* placement_audit and placement_events
    stats,      \* the telemetry of every item
    valid,      \* the entries that are active today
    sources,    \* the entries source_is_current accepts
    now,
    changes,    \* how much has changed outside the store
    pc, shadow, plan, stamp   \* of every actuator

vars == <<placement, audit, stats, valid, sources, now, changes, pc, shadow, plan, stamp>>
outside == <<stats, valid, sources, now, changes>>

ASSUME PolicyAssumption ==
    /\ FirstTiers \subseteq [Items -> Tiers] /\ NewEvents \subseteq Events
    /\ Budgets \subseteq Nat
    /\ {MinimumTasks, MinimumDemands, MinimumGain, Cooldown, MaxTime, MaxRevision, MaxChanges} \subseteq Nat

\* No time: long enough before the clock's first reading.
Never == -Cooldown

Placements == [tier: [Items -> Tiers], last: [Items -> {Never} \cup 0..MaxTime]]
revision == Len(audit)

----------------------------------------------------------------------------
\* What a shadow plan r asks for.
Moves(r) == [i \in r.admit \cup r.evict |-> IF i \in r.admit THEN "T0" ELSE "T1"]

Gain(r) ==
    MapThenSumSet(LAMBDA i: r.net[i], r.admit) - MapThenSumSet(LAMBDA i: r.net[i], r.evict)

\* The tier of every entry once the moves are made.
Moved(tier, moves) == [i \in Items |-> IF i \in DOMAIN moves THEN moves[i] ELSE tier[i]]

InT0(tier) == {i \in Items : tier[i] = "T0"}

\* Entry i, which is to move, may be moved.
Movable(r, i) ==
    /\ i \in DOMAIN r.net
    /\ i \notin Pinned /\ i \in valid /\ i \in sources
    /\ now - placement.last[i] >= Cooldown
    /\ i \in r.admit => Supported(r.stats[i]).needs >= MinimumDemands

\* All that will be in T0 has a known cost, and fits the budget.
FitsCapacity(r) ==
    LET selected == InT0(Moved(placement.tier, Moves(r)))
    IN  selected \subseteq DOMAIN r.net /\ TotalUnits(selected) <= r.budget

\* propose: a plan is approved to execute when no gate has a reason against it.
Approved(r, pressure, waste) ==
    /\ r.status = "OK" /\ DemandTasks(r.stats) >= MinimumTasks
    /\ r.review_required = {}
    /\ ~waste
    /\ pressure => r.admit = {}
    /\ \A i \in DOMAIN Moves(r) : Movable(r, i)
    /\ Gain(r) >= MinimumGain * Scale(r.stats)
    /\ FitsCapacity(r)

----------------------------------------------------------------------------
Init ==
    /\ \E tier \in FirstTiers :
         placement = [tier |-> tier, last |-> [i \in Items |-> Never]]
    /\ audit = <<>>
    /\ stats \in FirstStats
    /\ valid = Items /\ sources = Items
    /\ now = 0 /\ changes = 0
    /\ pc = [a \in Actuators |-> "idle"]
    /\  shadow = [a \in Actuators |-> None]
    /\ plan = [a \in Actuators |-> None]
    /\ stamp = [a \in Actuators |-> 0]

\* The host reads the placement and makes a shadow plan for some budget.
MakeShadow(a) ==
    /\ pc[a] = "idle"
    /\ \E b \in Budgets :
         shadow' = [shadow EXCEPT ![a] = [tier |-> placement.tier, valid |-> valid, stats |-> stats]
                                         @@ Report(placement.tier, valid, stats, b)]
    /\ pc' = [pc EXCEPT ![a] = "shadow"]
    /\ UNCHANGED <<placement, audit, outside, plan, stamp>>

\* A proposal is bound to the revision and the contents of the placement.
Proposal(pressure, waste) ==
    [revision |-> revision, placement |-> placement, pressure |-> pressure, waste |-> waste]

\* A rejected proposal changes nothing: the host keeps its shadow plan.
Propose(a) ==
    /\ pc[a] = "shadow"
    /\ \E pressure, waste \in BOOLEAN :
         /\ Approved(shadow[a], pressure, waste)
         /\ plan' = [plan EXCEPT ![a] = Proposal(pressure, waste)]
    /\ pc' = [pc EXCEPT ![a] = "proposed"]
    /\ UNCHANGED <<placement, audit, outside, shadow, stamp>>

\* execute's first half: what would be proposed now is what was proposed.  A dry
\* run ends here and changes nothing, and so does a plan that lacks the host's
\* approval or, in automatic mode, the policy and the accepted evidence.
IsFresh(a) ==
    /\ plan[a] = Proposal(plan[a].pressure, plan[a].waste)
    /\ Approved(shadow[a], plan[a].pressure, plan[a].waste)

Execute(a) ==
    /\ pc[a] = "proposed" /\ revision < MaxRevision
    /\ IsFresh(a)
    /\ stamp' = [stamp EXCEPT ![a] = now]
    /\ pc' = [pc EXCEPT ![a] = "executing"]
    /\ UNCHANGED <<placement, audit, outside, shadow, plan>>

\* The host gives up a shadow plan, or proposes it again.
Withdraw(a) ==
    /\ pc[a] \in {"shadow", "proposed"}
    /\ pc' = [pc EXCEPT ![a] = IF pc[a] = "proposed" THEN "shadow" ELSE "idle"]
    /\ plan' = [plan EXCEPT ![a] = None]
    /\ shadow' = [shadow EXCEPT ![a] = IF pc[a] = "shadow" THEN None ELSE @]
    /\ UNCHANGED <<placement, audit, outside, stamp>>
----------------------------------------------------------------------------
\* execute's second half, ResidencyPlacementStore.commit.

\* Mutant: the placement is not compared.
Unchanged_Unchecked(a) == revision < MaxRevision

\* The placement is the one the proposal is bound to.
Unchanged(a) ==
    plan[a].revision = revision /\ plan[a].placement = placement

\* The authorities are asked again while the placement is locked.
Guard(a) == \A i \in DOMAIN Moves(shadow[a]) : i \in valid /\ i \notin Pinned /\ i \in sources

\* Mutant: the entries do not remember when they moved.
Placed_Unstamped(a) ==
    [placement EXCEPT !.tier = Moved(@, Moves(shadow[a]))]

\* The placement after the moves, with the time of each.
Placed(a) ==
    [tier |-> Moved(placement.tier, Moves(shadow[a])),
     last |-> [i \in Items |-> IF i \in DOMAIN Moves(shadow[a]) THEN stamp[a] ELSE placement.last[i]]]

\* Mutant: the plan is still there.
Finished_KeepsPlan(a) ==
    /\ pc' = [pc EXCEPT ![a] = "idle"]
    /\ shadow' = [shadow EXCEPT ![a] = None]
    /\ stamp' = [stamp EXCEPT ![a] = 0]
    /\ UNCHANGED plan

\* execute returns its receipt or raises.
Finished(a) ==
    /\ pc' = [pc EXCEPT ![a] = "idle"]
    /\ shadow' = [shadow EXCEPT ![a] = None]
    /\ plan' = [plan EXCEPT ![a] = None]
    /\ stamp' = [stamp EXCEPT ![a] = 0]

Commit(a) ==
    /\ pc[a] = "executing"
    /\ Unchanged(a) /\ Guard(a)
    /\ placement' = Placed(a)
    /\ audit' = Append(audit, [kind |-> "commit", before |-> placement, after |-> placement',
                               items |-> DOMAIN Moves(shadow[a]), at |-> stamp[a],
                               budget |-> shadow[a].budget])
    /\ Finished(a)
    /\ UNCHANGED outside

\* The transaction is rolled back and the host told.
CommitRefused(a) ==
    /\ pc[a] = "executing"
    /\ ~(Unchanged(a) /\ Guard(a))
    /\ Finished(a)
    /\ UNCHANGED <<placement, audit, outside>>

\* Mutant: any commit may be rolled back.
IsLatest_Any(r) == r \in 1..revision

\* The commit of event r is the latest change, and its result is in place.
IsLatest(r) == revision = r /\ placement = audit[r].after

Rollback(r) ==
    /\ revision < MaxRevision
    /\ audit[r].kind = "commit" /\ IsLatest(r)
    /\ placement' = audit[r].before
    /\ audit' = Append(audit, [kind |-> "rollback", of |-> r])
    /\ UNCHANGED <<outside, pc, shadow, plan, stamp>>
----------------------------------------------------------------------------
\* Around the store: telemetry, validity, sources and the clock.

Observe(e) ==
    /\ changes < MaxChanges
    /\ changes' = changes + 1
    /\ stats' = [stats EXCEPT ![e.item] = Observed(@, e)]
    /\ UNCHANGED <<placement, audit, valid, sources, now, pc, shadow, plan, stamp>>

Expire(i) ==
    /\ changes < MaxChanges
    /\ changes' = changes + 1
    /\ i \in valid
    /\ valid' = valid \ {i}
    /\ UNCHANGED <<placement, audit, stats, sources, now, pc, shadow, plan, stamp>>

SourceChanges(i) ==
    /\ changes < MaxChanges
    /\ changes' = changes + 1
    /\ sources' = SymDiff(sources, {i})
    /\ UNCHANGED <<placement, audit, stats, valid, now, pc, shadow, plan, stamp>>

Tick ==
    /\ now < MaxTime
    /\ now' = now + 1
    /\ UNCHANGED <<placement, audit, stats, valid, sources, changes, pc, shadow, plan, stamp>>

Next ==
    \/ \E a \in Actuators :
         \/ MakeShadow(a) \/ Propose(a) \/ Execute(a) \/ Withdraw(a)
         \/ Commit(a) \/ CommitRefused(a)
    \/ \E r \in 1..MaxRevision : r \in DOMAIN audit /\ Rollback(r)
    \/ \E e \in NewEvents : Observe(e)
    \/ \E i \in Items : Expire(i) \/ SourceChanges(i)
    \/ Tick

Spec == Init /\ [][Next]_vars
----------------------------------------------------------------------------
\* Types; an actuator that executes has read a placement and proposed it.
TypeOK ==
    /\ placement \in Placements
    /\ revision <= MaxRevision
    /\ stats \in [Items -> [tasks: SUBSET Tasks, needs: Nat, avoidable: Nat, tokens: Nat, stale: Nat]]
    /\ valid \subseteq Items /\ sources \subseteq Items
    /\ now \in 0..MaxTime /\ changes \in 0..MaxChanges
    /\ \A a \in Actuators :
         /\ pc[a] \in {"idle", "shadow", "proposed", "executing"}
         /\ (shadow[a] = None) <=> (pc[a] = "idle")
         /\ (plan[a] = None) <=> (pc[a] \in {"idle", "shadow"})
         /\ stamp[a] \in 0..now

\* Every commit leaves in T0 no more than its host's budget, whatever other
\* hosts have committed since the placement it was planned for was read.
WithinBudget ==
    \A r \in 1..revision : audit[r].kind = "commit" =>
        TotalUnits(InT0(audit[r].after.tier)) <= audit[r].budget

\* The commits that have not been rolled back.
Live ==
    {r \in 1..revision : /\ audit[r].kind = "commit"
                         /\ \A s \in 1..revision : audit[s].kind = "rollback" => audit[s].of # r}

\* The placement is what the commits that were not rolled back make of it: a
\* rollback undoes one commit and no other host's.
LiveCommitsHold ==
    Live # {} => placement = audit[Max(Live)].after

\* An item that was moved rests for the cooldown before it is moved again,
\* whichever host moves it, unless the first move was rolled back.
CooldownKept ==
    \A r, s \in Live : r < s /\ audit[r].items \cap audit[s].items # {} =>
        audit[s].at - audit[r].at >= Cooldown

\* A commit keeps to its host's budget and to the cooldown of what it moves,
\* whatever other hosts commit meanwhile, and no rollback undoes one of theirs
\* (actuator.py: commit, rollback).
CommitsHold == WithinBudget /\ LiveCommitsHold /\ CooldownKept

\* The dynamic programme selects the best set of candidates that fits, for the
\* documented order of preference, in every shadow plan a host holds.
SelectionIsOptimal ==
    \A a \in Actuators : pc[a] = "shadow" =>
        LET r == shadow[a]
            left == r.budget - TotalUnits(r.fixed)
        IN  left >= 0 => Optimal(r.chosen, r.candidates, left, r.net)

\* The plan of actuator a was made from what still holds.
UpToDate(a) ==
    shadow[a].tier = placement.tier /\ shadow[a].valid = valid /\ shadow[a].stats = stats

\* A plan that is up to date when it is committed asks for nothing more once it
\* is: the recommendations do not oscillate.
CommitSettles ==
    [][\A a \in Actuators :
         pc[a] = "executing" /\ pc'[a] = "idle" /\ Len(audit') > Len(audit) /\ UpToDate(a)
         => Moves(Report(placement'.tier, valid, stats, shadow[a].budget)) = <<>>]_vars
=============================================================================

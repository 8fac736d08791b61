--------------------------- MODULE ResidencyAdvice ---------------------------
(***************************************************************************)
(* What residency telemetry is turned into besides the plan (see           *)
(* ResidencyActuator): what to prefetch, the suggestion of a resident      *)
(* budget (thm/residency_control.py) and the directory of warm entries     *)
(* (thm/residency_directory.py).  A host appends events to a log; every    *)
(* report is a function of the log and of the entries of the day, and      *)
(* nothing is applied by it.                                               *)
(*                                                                         *)
(* Fractions are compared by multiplying them out.  The configuration of   *)
(* the budget controller is in hundredths.                                 *)
(***************************************************************************)
EXTENDS Integers, FiniteSets, FiniteSetsExt, SequencesExt

CONSTANTS
    Items,          \* the ids of the entries, as numbers: ids are ordered
    NewEvents,      \* the events a host may record
    Placements,     \* the tiers and the validity the entries may have on a day
    Catalog,        \* the overlay: the locators it sets, by id
    Store,          \* the locator of an entry by itself, a number: locators are
                    \* ordered; NoLocator without a safe one
    Scope,          \* its scope: scope, project or profile
    Pinned,         \* the pinned entries
    Cost,           \* its cost class: 1, 2 or 3
    LineUnits,      \* count_units of the line of a locator
    MinSupport, MinConfidence, MaxCandidates, CandidateTiers,
    MinBudget, MaxBudget, Step, MinDemands, MissTarget, PressureTarget,
    Hysteresis,
    MissWeight, PressureWeight, RiskWeight,
    Pressures,      \* readings of the context pressure, in hundredths
    Budgets,        \* budgets a directory is asked for
    MaxEvents       \* bound: the length of the log

VARIABLES
    log,        \* the events a host has recorded, each with its event_id
    entries     \* of the day: the tier of every entry, and those that are current

vars == <<log, entries>>

NoLocator == 0

Tiers == {"T0", "T1", "T2", "T3"}
Kinds == {"resident_hit", "resident_miss", "hard_miss", "planned_retrieval", "prefetch",
          "stale_resident_failure"}
Demands == {"resident_hit", "resident_miss", "hard_miss"}
Misses == {"resident_miss", "hard_miss"}
Events == [item: Items, task: STRING, kind: Kinds, avoidable: BOOLEAN, used: BOOLEAN, tokens: Nat]

----------------------------------------------------------------------------
\* The entries of the day under the overlay of load_catalog and apply_catalog,
\* which fails when it names an entry that is no longer there.
Known == DOMAIN entries.tier
CatalogApplies == DOMAIN Catalog \subseteq Known
Locator(i) == IF i \in DOMAIN Catalog THEN Catalog[i] ELSE Store[i]

----------------------------------------------------------------------------
\* aggregate_telemetry.

NoRow == [tasks |-> {}, hits |-> 0, misses |-> 0, avoidable |-> 0, tokens |-> 0,
          prefetches |-> 0, used |-> 0, stale |-> 0]

\* Mutant: a prefetch that was used shows that its task needed the item.
Observed_FromPrefetch(row, e) ==
    CASE e.kind \in Demands ->
           [row EXCEPT !.tasks = @ \cup {e.task},
              !.hits = @ + (IF e.kind = "resident_hit" THEN 1 ELSE 0),
              !.misses = @ + (IF e.kind \in Misses THEN 1 ELSE 0)]
      [] e.kind = "prefetch" -> [row EXCEPT !.tasks = IF e.used THEN @ \cup {e.task} ELSE @]
      [] OTHER -> row

\* The row of an item after one more event about it.  Only a demand says which
\* task needed it; the cost of a miss counts when it could have been avoided.
Observed(row, e) ==
    CASE e.kind \in Demands ->
           LET avoided == e.kind \in Misses /\ e.avoidable
           IN  [row EXCEPT !.tasks = @ \cup {e.task},
                  !.hits = @ + (IF e.kind = "resident_hit" THEN 1 ELSE 0),
                  !.misses = @ + (IF e.kind \in Misses THEN 1 ELSE 0),
                  !.avoidable = @ + (IF avoided THEN 1 ELSE 0),
                  !.tokens = @ + (IF avoided THEN e.tokens ELSE 0)]
      [] e.kind = "prefetch" ->
           [row EXCEPT !.prefetches = @ + 1, !.used = @ + (IF e.used THEN 1 ELSE 0)]
      [] e.kind = "stale_resident_failure" -> [row EXCEPT !.stale = @ + 1]
      [] e.kind = "planned_retrieval" -> row

\* An event_id that comes twice makes the whole log useless.
Readable(events) == \A m, n \in DOMAIN events : events[m].id = events[n].id => m = n

Aggregate(events) ==
    FoldLeft(LAMBDA rows, r: [rows EXCEPT ![r.event.item] = Observed(@, r.event)],
             [i \in Items |-> NoRow], events)

Total(counts) == MapThenSumSet(LAMBDA i: counts[i], Items)
DemandCount(rows) == Total([i \in Items |-> rows[i].hits + rows[i].misses])

----------------------------------------------------------------------------
\* shadow_prefetch_plan for the items a host holds active.

\* The best seed of a candidate: confidence, then support, then the least id.
Pairs(i, seeds, rows) ==
    {[seed |-> s, support |-> Cardinality(rows[s].tasks \cap rows[i].tasks),
      of |-> Cardinality(rows[s].tasks)] : s \in seeds}

Strong(p) == p.support >= MinSupport /\ 100 * p.support >= MinConfidence * p.of

BetterPair(p, q) ==
    \/ p.support * q.of > q.support * p.of
    \/ p.support * q.of = q.support * p.of /\ p.support > q.support
    \/ p.support * q.of = q.support * p.of /\ p.support = q.support /\ p.seed < q.seed

Seeds(active, rows) ==
    {s \in active \cap entries.current : Cardinality(rows[s].tasks) >= MinSupport}

\* Current entries of the candidate tiers that have a safe locator and share
\* enough tasks with a seed, the most telling first.  The cost of a miss, here a
\* multiple of one denominator, breaks ties; an item without any comes last.
Candidates(active, rows) ==
    LET seeds == Seeds(active, rows)
        strong(i) == {p \in Pairs(i, seeds, rows) : Strong(p)}
        eligible == {i \in entries.current \ active :
                       /\ entries.tier[i] \in CandidateTiers
                       /\ Locator(i) # NoLocator /\ strong(i) # {}}
        best == [i \in eligible |-> CHOOSE p \in strong(i) :
                   \A q \in strong(i) \ {p} : BetterPair(p, q)]
        Wasted(i, j) == IF rows[i].avoidable = 0 THEN -1 ELSE rows[i].tokens * rows[j].avoidable
        Before(i, j) ==
            LET p == best[i]  q == best[j]
                Same == p.support * q.of = q.support * p.of /\ p.support = q.support
            IN  \/ ~Same /\ BetterPair(p, q)
                \/ Same /\ Wasted(i, j) > Wasted(j, i)
                \/ Same /\ Wasted(i, j) = Wasted(j, i) /\ i < j
        ordered == SetToSortSeq(eligible, Before)
    IN  [n \in 1..Min({MaxCandidates, Len(ordered)}) |->
           [item |-> ordered[n], why |-> best[ordered[n]]]]

----------------------------------------------------------------------------
\* suggest_resident_budget.

Excess(n) == IF n > 0 THEN n ELSE 0

\* Mutant: the prefetches that were used count as pollution.
Pollution_Used(rows) == Total([i \in Items |-> rows[i].used])

\* The injected prefetches nobody used.
Pollution(rows) == Total([i \in Items |-> rows[i].prefetches - rows[i].used])

\* The score of a log, times the product of the denominators of its rates.
Score(rows, pressure) ==
    LET d == DemandCount(rows)
        c == Max({1, Total([i \in Items |-> rows[i].prefetches])})
        avoidable == Total([i \in Items |-> rows[i].avoidable])
        stale == Min({d, Total([i \in Items |-> rows[i].stale])})
    IN  MissWeight * c * Excess(100 * avoidable - MissTarget * d)
          - PressureWeight * c * d * Excess(pressure - PressureTarget)
          - RiskWeight * 100 * (Pollution(rows) * d + stale * c)

\* At most one step, and none without enough demands or within the hysteresis.
Suggested(rows, budget, pressure) ==
    LET d == DemandCount(rows)
        bar == Hysteresis * d * Max({1, Total([i \in Items |-> rows[i].prefetches])})
    IN  CASE d < MinDemands \/ d = 0           -> budget
          [] OTHER ->
               CASE Score(rows, pressure) > bar  -> Min({MaxBudget, budget + Step})
                 [] Score(rows, pressure) < -bar -> Max({MinBudget, budget - Step})
                 [] OTHER                        -> budget

----------------------------------------------------------------------------
\* project_warm_directory: one row for a locator of a scope.

Listed == {i \in entries.current : entries.tier[i] = "T1" /\ Locator(i) # NoLocator}
Rows == {{j \in Listed : Scope[j] = Scope[i] /\ Locator(j) = Locator(i)} : i \in Listed}
RowUnits(row) == LineUnits[Locator(Min(row))]

\* Pinned rows first, then by cost, by the number of their items and by locator.
RowBefore(r, s) ==
    LET Rank(row) == <<IF row \cap Pinned # {} THEN 1 ELSE 0, Max({Cost[i] : i \in row}),
                       Cardinality(row), -Locator(Min(row)), -Min(row)>>
        a == Rank(r)  b == Rank(s)
    IN  \E n \in 1..5 : a[n] > b[n] /\ \A m \in 1..(n - 1) : a[m] = b[m]

UnitsOf(rows) == MapThenSumSet(RowUnits, rows)

\* Mutant: the first row that does not fit ends the directory.
Selected_Prefix(budget) ==
    FoldLeft(LAMBDA kept, r:
               IF UnitsOf({s \in Rows : s = r \/ RowBefore(s, r)}) <= budget THEN kept \cup {r}
               ELSE kept, {}, SetToSortSeq(Rows, RowBefore))

\* Every row that still fits when its turn comes.
Selected(budget) ==
    FoldLeft(LAMBDA kept, r:
               IF UnitsOf(kept) + RowUnits(r) <= budget THEN kept \cup {r} ELSE kept,
             {}, SetToSortSeq(Rows, RowBefore))

----------------------------------------------------------------------------
Init == log = <<>> /\ entries \in Placements

\* A host records an event.
Record == \E e \in NewEvents :
    /\ Len(log) < MaxEvents
    /\ log' = Append(log, [id |-> Len(log) + 1, event |-> e])
    /\ UNCHANGED entries

\* It appends the last event once more, unsure of the first time.
Retry ==
    /\ log # <<>> /\ Len(log) < MaxEvents /\ Readable(log)
    /\ log' = Append(log, Last(log))
    /\ UNCHANGED entries

\* The next day's entries.
Move == entries' \in Placements /\ UNCHANGED log

Next == Record \/ Retry \/ Move
Spec == Init /\ [][Next]_vars

----------------------------------------------------------------------------
\* The log is a sequence of events, and the entries are those of some day.
TypeOK ==
    /\ log \in Seq([id: 1..MaxEvents, event: Events]) /\ Len(log) <= MaxEvents
    /\ entries.tier \in [Known -> Tiers] /\ entries.current \subseteq Known

\* What is recommended, and in which order, is learnt from demands alone: every
\* prefetch, planned retrieval and failure in the log may be taken out of it.  A
\* recommendation that is followed can therefore never confirm itself
\* (residency_control.py:363-523, "prefetch_events_used_for_training": False).
OnlyDemandsTeach ==
    LET demands == SelectSeq(log, LAMBDA r: r.event.kind \in Demands)
    IN  Readable(log) /\ CatalogApplies =>
          \A active \in SUBSET Items :
             Candidates(active, Aggregate(log)) = Candidates(active, Aggregate(demands))

\* A suggested budget is at most one step away and within the bounds, and what
\* speaks against residency never raises it: neither an unused prefetch nor a
\* stale resident, at no pressure, whatever the log holds already.
HarmNeverGrows ==
    LET rows == Aggregate(log)
        Worse(e) == Aggregate(Append(log, [id |-> 0, event |-> e]))
        Harm == {e \in NewEvents : \/ e.kind = "stale_resident_failure"
                                   \/ e.kind = "prefetch" /\ ~e.used}
    IN  Readable(log) =>
          \A budget \in MinBudget..MaxBudget, pressure \in Pressures :
             LET next == Suggested(rows, budget, pressure)
             IN  /\ next \in MinBudget..MaxBudget /\ next - budget \in -Step..Step
                 /\ \A e \in Harm : Suggested(Worse(e), budget, pressure) <= next

\* The directory keeps its budget, and a row is left out only because it did not
\* fit when its turn came, after the rows it ranks behind.
DirectoryIsFull ==
    CatalogApplies =>
      \A budget \in Budgets :
         LET kept == Selected(budget)
         IN  /\ UnitsOf(kept) <= budget
             /\ \A r \in Rows \ kept :
                   UnitsOf({s \in kept : RowBefore(s, r)}) + RowUnits(r) > budget
=============================================================================

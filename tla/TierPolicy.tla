----------------------------- MODULE TierPolicy -----------------------------
(***************************************************************************)
(* Which memories a prompt should keep (thm/policy.py): activity weighs    *)
(* the events of an entry by their age, plan packs the entries into a      *)
(* budget by value and cost, and replay runs a chronology of uses through  *)
(* it.  A curve is a table of whole numbers by age; the three costs of     *)
(* forgetting are quarters.  Reports and the checks of field types are     *)
(* left out; what makes a whole plan fail is the value Refused.            *)
(***************************************************************************)
EXTENDS Integers, Sequences, SequencesExt, FiniteSets, FiniteSetsExt

CONSTANTS
  Entries,    \* numbered, as identifiers are compared
  Traits,     \* [pinned, units, cost, from, until] an entry may have
  Histories,  \* sequences of events an entry may start with
  Curve,      \* the kernel: a value for every age in days
  DailyCap,   \* what a day of an entry counts for at most, where days are capped
  Budgets,
  MaxDay, MaxUses,  \* bounds of the model
  Refused

VARIABLES
  kernel,    \* the policy's curve
  budget,
  traits,
  events,    \* the events of each entry
  today,
  hits, uses \* of the replay: uses of a resident entry, and all

vars == <<kernel, budget, traits, events, today, hits, uses>>

\* A confirmation without evidence is only put up with in migrated data.
Weight_Mentions(e) == CASE e.kind = "hit" -> 4 [] e.kind = "confirm" -> 3 [] OTHER -> 1

Weight(e) ==
  CASE e.kind = "hit" -> 4
    [] e.kind = "confirm" -> IF e.evidence = "given" THEN 3 ELSE 0
    [] e.kind = "create" -> 2
    [] OTHER -> 0

Init ==
  /\ kernel \in {"power", "bounded_power", "lru", "lfu"}
  /\ budget \in Budgets /\ today = 0
  /\ traits \in [Entries -> Traits] /\ events \in [Entries -> Histories]
  /\ hits = 0 /\ uses = 0
----------------------------------------------------------------------------
Total(S, op(_)) == FoldSet(LAMBDA x, sum : sum + op(x), 0, S)
Least(a, b) == IF a < b THEN a ELSE b

\* An event of the future, or a confirmation nobody vouches for, is an error.
Broken(past) ==
  \E i \in DOMAIN past : past[i].day > today \/ (past[i].kind = "confirm" /\ past[i].evidence = "none")

Daily(past, d) == Total({i \in DOMAIN past : past[i].day = d}, LAMBDA i : Weight(past[i]))

\* The curve is read at the age of a day, not of an event, so that the order of
\* events does not count.
ActivityOf(past) ==
  LET days == {d \in 0..today : Daily(past, d) > 0}
      worth(d) == Curve[today - d]
  IN  CASE kernel = "lru" -> IF days = {} THEN 0 ELSE (Cardinality(DOMAIN Curve) * 4) \div (1 + today - Max(days))
        [] kernel = "lfu" -> Total(days, LAMBDA d : Daily(past, d))
        [] kernel = "power" -> Total(days, LAMBDA d : Daily(past, d) * worth(d))
        [] OTHER -> Total(days, LAMBDA d : Least(Daily(past, d), DailyCap) * worth(d))

Score(x) == ActivityOf(events[x]) * traits[x].cost

\* Validity comes first, then pinning, then activity.
Eligible == {x \in Entries : traits[x].from <= today /\ today < traits[x].until}
PinnedEntries == {x \in Eligible : traits[x].pinned}
UnitsIn(S) == Total(S, LAMBDA x : traits[x].units)

Before_Score(x, y) == Score(x) > Score(y) \/ (Score(x) = Score(y) /\ x < y)

Before(x, y) ==
  LET dx == Score(x) * traits[y].units  dy == Score(y) * traits[x].units
  IN  dx > dy \/ (dx = dy /\ x < y)

\* Value per unit, greedily: the next entry is taken if there is room for it.
Packed_FromEmpty(chosen, x) ==
  IF Score(x) > 0 /\ UnitsIn((chosen \ PinnedEntries) \cup {x}) <= budget THEN chosen \cup {x} ELSE chosen

Packed(chosen, x) ==
  IF Score(x) > 0 /\ UnitsIn(chosen \cup {x}) <= budget THEN chosen \cup {x} ELSE chosen

Plan ==
  IF \E x \in Eligible : Broken(events[x]) THEN Refused
  ELSE IF UnitsIn(PinnedEntries) > budget THEN {}
  ELSE FoldLeft(Packed, PinnedEntries, SetToSortSeq(Eligible \ PinnedEntries, Before))

----------------------------------------------------------------------------
\* replay: the use is scored against the plan of its day before it is observed.
Resident_After(x) == TRUE

Resident(x) == x \in Plan

Use(x) ==
  /\ uses < MaxUses /\ Plan # Refused
  /\ hits' = hits + (IF Resident(x) THEN 1 ELSE 0) /\ uses' = uses + 1
  /\ events' = [events EXCEPT ![x] = Append(@, [kind |-> "hit", day |-> today, evidence |-> "none"])]
  /\ UNCHANGED <<kernel, budget, traits, today>>

Tomorrow == today < MaxDay /\ today' = today + 1 /\ UNCHANGED <<kernel, budget, traits, events, hits, uses>>

Next == Tomorrow \/ \E x \in Entries : Use(x)

Spec == Init /\ [][Next]_vars
----------------------------------------------------------------------------
TypeOK ==
  /\ today \in 0..MaxDay /\ uses \in 0..MaxUses /\ hits \in 0..uses /\ budget \in Budgets
  /\ traits \in [Entries -> Traits] /\ Plan \in {Refused} \cup SUBSET Entries

\* A plan keeps every pinned entry or nothing, stays within its budget, keeps no
\* entry for mentions or unproved confirmations, and leaves none out that fits beside the pinned ones
\* and those worth more for their cost (policy.py:92-136).
PlanIsFair ==
  Plan # Refused =>
    /\ UnitsIn(Plan) <= budget /\ Plan \subseteq Eligible
    /\ PinnedEntries \subseteq Plan \/ (Plan = {} /\ UnitsIn(PinnedEntries) > budget)
    /\ \A x \in Plan \ PinnedEntries : \E i \in DOMAIN events[x] :
         events[x][i].kind \in {"hit", "create"} \/ events[x][i].evidence = "given"
    /\ PinnedEntries \subseteq Plan =>
         \A x \in Eligible \ Plan : Score(x) > 0 =>
           UnitsIn({x} \cup {y \in Plan : y \in PinnedEntries \/
                             Score(y) * traits[x].units >= Score(x) * traits[y].units}) > budget

\* A use counts as a hit of the resident set only if something else than that use
\* had made its entry resident: the first use of an entry never does, unless it is
\* pinned (policy.py:139-158, "Score before observing each use").
HitsAreEarned ==
  hits <= Total(Entries, LAMBDA x :
            LET known == Cardinality({i \in DOMAIN events[x] : Weight(events[x][i]) > 0})
            IN  IF traits[x].pinned THEN known ELSE Max({0, known - 1}))
=============================================================================

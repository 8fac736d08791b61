----------------------------- MODULE MCPolicies -----------------------------
(***************************************************************************)
(* One run for what is decided from observations: the residency actuator   *)
(* and its plan, what else is derived from telemetry, and the tier policy. *)
(* They share no state, so a behaviour takes the steps of one of them, its *)
(* part; the others stay as they began.                                    *)
(***************************************************************************)
EXTENDS ResidencyActuator, TLC

VARIABLES
  part,
  log, entries,
  kernel, budget, traits, events, today, hits, uses

-----------------------------------------------------------------------------
(* The actuator                                                            *)

\* Four entries: 1 and 4 resident, 4 pinned; 3 takes two units.
MCUnits == <<1, 1, 2, 1>>
MCPenalty == <<2, NoPenalty, NoPenalty, NoPenalty>>
MCActivity == <<0, 1, 0, 0>>
MCPriority == <<1, 1, 2, 3>>
MCFirstTiers == {<<"T0", "T1", "T1", "T0">>}

\* Net values 1, 1 and 2 a task: the selections {1, 2} and {3} tie.
Need(n, avoidable, tokens) ==
    [tasks |-> {"t1", "t2"}, needs |-> n, avoidable |-> avoidable, tokens |-> tokens, stale |-> 0]

MCFirstStats == {<<Need(2, 0, 0), Need(2, 1, 4), Need(2, 2, 8), NoEvents>>}

Event(i, kind, tokens) == [item |-> i, task |-> "t1", kind |-> kind, tokens |-> tokens]

MCNewEvents ==
    {Event(2, "avoidable_miss", 5), Event(3, "unavoidable_miss", 2), Event(1, "resident_hit", 0),
     Event(2, "stale_resident_failure", 0)}

-----------------------------------------------------------------------------
(* What telemetry is turned into                                           *)

Log(item, task, kind, avoidable, used, tokens) ==
  [item |-> item, task |-> task, kind |-> kind, avoidable |-> avoidable, used |-> used,
   tokens |-> tokens]
LogEvents ==
  {Log(1, "t1", "resident_hit", FALSE, FALSE, 0), Log(1, "t2", "resident_hit", FALSE, FALSE, 0),
   Log(2, "t1", "hard_miss", TRUE, FALSE, 4), Log(3, "t1", "resident_miss", FALSE, FALSE, 2),
   Log(3, "t2", "resident_miss", TRUE, FALSE, 6), Log(4, "t2", "planned_retrieval", FALSE, FALSE, 2),
   Log(2, "t2", "prefetch", FALSE, TRUE, 0), Log(3, "t2", "prefetch", FALSE, FALSE, 0),
   Log(1, "t1", "stale_resident_failure", FALSE, FALSE, 0)}

\* All entries current or not, one in T0 or none, and days without some entries.
Day(tier, current) == [tier |-> tier, current |-> current]
Days ==
  {Day(<<"T0", "T1", "T1", "T1">>, 1..4), Day(<<"T1", "T1", "T1", "T2">>, 1..3),
   Day(<<"T1", "T1", "T1", "T1">>, 1..4), Day(<<"T0", "T1">>, 1..2),
   Day(<<"T0", "T1", "T3">>, 1..3)}

\* Two entries share a locator, one has none, and one is of another scope.
Advice == INSTANCE ResidencyAdvice WITH
  NewEvents <- LogEvents, Placements <- Days, Catalog <- 3 :> 2, Store <- <<1, 1, 0, 3>>,
  Scope <- <<"p", "p", "p", "q">>, Pinned <- {3}, Cost <- <<1, 2, 1, 3>>,
  LineUnits <- <<2, 2, 1>>, MinSupport <- 1, MinConfidence <- 50, MaxCandidates <- 2,
  CandidateTiers <- {"T1", "T2"}, MinBudget <- 2, MaxBudget <- 5, Step <- 2, MinDemands <- 1,
  MissTarget <- 10, PressureTarget <- 80, Hysteresis <- 5,
  MissWeight <- 1, PressureWeight <- 1, RiskWeight <- 1,
  Pressures <- {50, 95}, Budgets <- 0..4, MaxEvents <- 3

-----------------------------------------------------------------------------
(* The tier policy                                                         *)

Trait(pin, units, cost, from, until) ==
  [pinned |-> pin, units |-> units, cost |-> cost, from |-> from, until |-> until]
Past(kind, day, evidence) == [kind |-> kind, day |-> day, evidence |-> evidence]
Histories ==
  {<<Past("mention_observed", 0, "none"), Past("confirm", 0, "legacy")>>,
   <<Past("confirm", 0, "given"), Past("hit", 0, "none")>>,
   <<Past("create", 1, "none"), Past("confirm", 1, "none")>>}

Policy == INSTANCE TierPolicy WITH
  Entries <- {1, 2, 3},
  Traits <- {Trait(FALSE, 1, 4, 0, 9), Trait(FALSE, 2, 6, 0, 1), Trait(TRUE, 2, 4, 1, 9)},
  Curve <- 0 :> 4 @@ 1 :> 2 @@ 2 :> 1, DailyCap <- 4, Budgets <- {2},
  MaxDay <- 1, MaxUses <- 1, Refused <- None

-----------------------------------------------------------------------------
residencyvars == vars
advicevars == <<log, entries>>
policyvars == <<kernel, budget, traits, events, today, hits, uses>>
allvars == <<part, residencyvars, advicevars, policyvars>>

\* Where a part does not move, it has one of its initial states.
MCInit ==
  /\ part \in {"residency", "advice", "policy"}
  /\ Init /\ Advice!Init
  /\ part # "advice" => entries.tier = <<"T0", "T1">>
  /\ IF part = "policy" THEN Policy!Init
     ELSE /\ kernel = "lru" /\ budget = 2 /\ today = 0 /\ hits = 0 /\ uses = 0
          /\ traits = [x \in 1..3 |-> Trait(FALSE, 1, 4, 0, 9)]
          /\ events = [x \in 1..3 |-> <<>>]

\* A step of part p alone.
Alone(p) ==
  /\ part = p /\ UNCHANGED part
  /\ IF p = "residency" THEN TRUE ELSE UNCHANGED residencyvars
  /\ IF p = "advice" THEN TRUE ELSE UNCHANGED advicevars
  /\ IF p = "policy" THEN TRUE ELSE UNCHANGED policyvars

\* The bounds of the others run out; telemetry never ends.
Ended == part # "residency" /\ UNCHANGED allvars

MCNext ==
  \/ \E a \in Actuators : Alone("residency") /\ MakeShadow(a)
  \/ \E a \in Actuators : Alone("residency") /\ Propose(a)
  \/ \E a \in Actuators : Alone("residency") /\ Execute(a)
  \/ \E a \in Actuators : Alone("residency") /\ Withdraw(a)
  \/ \E a \in Actuators : Alone("residency") /\ Commit(a)
  \/ \E a \in Actuators : Alone("residency") /\ CommitRefused(a)
  \/ \E r \in 1..MaxRevision : Alone("residency") /\ r \in DOMAIN audit /\ Rollback(r)
  \/ \E e \in NewEvents : Alone("residency") /\ Observe(e)
  \/ \E i \in Items : Alone("residency") /\ Expire(i)
  \/ \E i \in Items : Alone("residency") /\ SourceChanges(i)
  \/ Alone("residency") /\ Tick
  \/ Alone("advice") /\ Advice!Record
  \/ Alone("advice") /\ Advice!Retry
  \/ Alone("advice") /\ Advice!Move
  \/ Alone("policy") /\ Policy!Tomorrow
  \/ \E x \in 1..3 : Alone("policy") /\ Policy!Use(x)
  \/ Ended

MCSpec == MCInit /\ [][MCNext]_allvars

-----------------------------------------------------------------------------
(* Properties                                                              *)

\* Every component's variables stay in their types.
TypesOK ==
  /\ part = "residency" => TypeOK
  /\ part = "advice" => Advice!TypeOK
  /\ part = "policy" => Policy!TypeOK

\* What the knapsack selects has no better feasible rival (residency_control.py), and
\* a commit of it leaves its host nothing to move (actuator.py: commit).
PlanIsOptimal == [](part = "residency" => SelectionIsOptimal) /\ CommitSettles

\* What is advised follows from demands alone, never suggests more for less use,
\* and fills the directory (residency_control.py, residency_directory.py); and a tier
\* plan is fair to every entry and its replay is not told the future (policy.py).
AdviceIsSound ==
  /\ part = "advice" =>
       Advice!OnlyDemandsTeach /\ Advice!HarmNeverGrows /\ Advice!DirectoryIsFull
  /\ part = "policy" => Policy!PlanIsFair /\ Policy!HitsAreEarned

Symmetry == Permutations(Actuators)
=============================================================================

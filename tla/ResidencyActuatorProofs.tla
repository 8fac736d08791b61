---------------------- MODULE ResidencyActuatorProofs -----------------------
(***************************************************************************)
(* Proofs about ResidencyActuator, for any entries, hosts, budgets,        *)
(* telemetry and cooldown: what every commit of the placement store keeps  *)
(* to, however the commits and rollbacks of several hosts interleave.      *)
(***************************************************************************)
EXTENDS ResidencyActuator, SequenceTheorems, TLAPS

\* The audit is a sequence of events, of which a commit knows both placements
\* and a rollback the earlier event that it undoes.
AuditShape ==
    /\ \E S : audit \in Seq(S)
    /\ \A r \in 1..revision :
         /\ audit[r].kind \in {"commit", "rollback"}
         /\ audit[r].kind = "commit" =>
              /\ audit[r].before \in Placements /\ audit[r].after \in Placements
              /\ audit[r].items \subseteq Items /\ audit[r].at \in 0..MaxTime
         /\ audit[r].kind = "rollback" => audit[r].of \in 1..(r - 1)

Shapes ==
    /\ placement \in Placements /\ revision <= MaxRevision
    /\ now \in 0..MaxTime /\ valid \subseteq Items
    /\ DOMAIN pc = Actuators /\ DOMAIN shadow = Actuators
    /\ DOMAIN plan = Actuators /\ DOMAIN stamp = Actuators
    /\ AuditShape

\* Placement p is what the latest of the commits S of a log made of it.
Stands(log, S, p) == S # {} => \E q \in S : (\A s \in S : s <= q) /\ log[q].after = p

\* In placement p, no entry that a commit of S moved has last moved before it.
Stamped(log, S, p) ==
    \A r \in S : \A i \in log[r].items : log[r].at <= p.last[i]

\* The placement is that of the live commits; and so is the one that the last
\* commit, if it is the last change, would be rolled back to.
Backed(log, S, p) == Stands(log, S, p) /\ Stamped(log, S, p)
LiveBacked == Backed(audit, Live, placement)
UndoBacked ==
    revision > 0 /\ audit[revision].kind = "commit" =>
        Backed(audit, Live \ {revision}, audit[revision].before)

\* While an actuator executes, its plan fits and respects the cooldown in the
\* placement the plan is bound to, at the time it is stamped with.
Held(a) ==
    pc[a] = "executing" =>
        /\ stamp[a] \in 0..now
        /\ plan[a].revision < MaxRevision
        /\ \A i \in DOMAIN Moves(shadow[a]) :
             stamp[a] - plan[a].placement.last[i] >= Cooldown
        /\ TotalUnits(InT0(Moved(plan[a].placement.tier, Moves(shadow[a])))) <= shadow[a].budget

ResidencyInv ==
    /\ Shapes
    /\ \A a \in Actuators : Held(a)
    /\ LiveBacked
    /\ UndoBacked
    /\ WithinBudget
    /\ CooldownKept
-----------------------------------------------------------------------------
(* The audit                                                               *)

\* What appending an event does to the audit.
Appended(e) ==
    /\ \E S : audit' \in Seq(S)
    /\ revision \in Nat /\ revision' = revision + 1
    /\ audit'[revision + 1] = e
    /\ \A k \in 1..revision : audit'[k] = audit[k]

LEMMA AppendAppends ==
    ASSUME AuditShape, NEW e, audit' = Append(audit, e)
    PROVE  Appended(e)
<1>1. PICK S : audit \in Seq(S)
  BY DEF AuditShape
<1>2. audit \in Seq(S \cup {e})
  BY <1>1, SeqMonotonic
<1>3. QED BY <1>2 DEF Appended, revision

LEMMA RevisionIsNat == AuditShape => revision \in Nat
BY DEF AuditShape, revision

\* A new commit is live.
LEMMA CommitIsLive ==
    ASSUME AuditShape, NEW e, Appended(e), e.kind = "commit"
    PROVE  Live' = Live \cup {revision + 1}
<1>1. revision \in Nat /\ revision' = revision + 1
  BY DEF Appended
<1>2. ASSUME NEW r \in 1..(revision + 1)
      PROVE  r \in Live' <=> r \in Live \/ r = revision + 1
  <2>1. CASE r = revision + 1
    <3>1. ASSUME NEW s \in 1..revision', audit'[s].kind = "rollback" PROVE audit'[s].of # r
      <4>1. s \in 1..revision /\ audit'[s] = audit[s]
        BY <3>1, <1>1 DEF Appended
      <4>2. QED BY <2>1, <3>1, <4>1, <1>1 DEF AuditShape
    <3>2. QED BY <2>1, <3>1, <1>1 DEF Appended, Live
  <2>2. CASE r # revision + 1
    <3>1. r \in 1..revision
      BY <2>2, <1>1
    <3>2. QED BY <3>1, <1>1, <2>2 DEF Appended, Live
  <2>3. QED BY <2>1, <2>2
<1>3. Live \subseteq 1..revision /\ Live' \subseteq 1..(revision + 1)
  BY <1>1 DEF Live
<1>4. ASSUME NEW r PROVE r \in Live' <=> r \in Live \cup {revision + 1}
  <2>1. revision + 1 \in 1..(revision + 1) /\ 1..revision \subseteq 1..(revision + 1)
    BY <1>1
  <2>2. CASE r \in 1..(revision + 1)
    BY <2>2, <1>2
  <2>3. CASE r \notin 1..(revision + 1)
    BY <2>1, <2>3, <1>3
  <2>4. QED BY <2>2, <2>3
<1>5. QED BY <1>4

\* A commit that is rolled back is not.
LEMMA RollbackIsDead ==
    ASSUME AuditShape, NEW e, Appended(e), e.kind = "rollback", e.of = revision
    PROVE  Live' = Live \ {revision}
<1>1. revision \in Nat /\ revision' = revision + 1
  BY DEF Appended
<1>2. ASSUME NEW r \in 1..revision
      PROVE  r \in Live' <=> r \in Live /\ r # revision
  BY <1>1 DEF Appended, Live
<1>3. revision + 1 \notin Live'
  BY <1>1 DEF Appended, Live
<1>4. Live \subseteq 1..revision /\ Live' \subseteq 1..(revision + 1)
  BY <1>1 DEF Live
<1>5. ASSUME NEW r PROVE r \in Live' <=> r \in Live \ {revision}
  <2>1. CASE r \in 1..revision
    BY <2>1, <1>2
  <2>2. CASE r = revision + 1
    BY <2>2, <1>1, <1>3, <1>4
  <2>3. CASE r \notin 1..(revision + 1)
    <3>1. 1..revision \subseteq 1..(revision + 1)
      BY <1>1
    <3>2. QED BY <2>3, <3>1, <1>4
  <2>4. r \in 1..(revision + 1) => r \in 1..revision \/ r = revision + 1
    BY <1>1
  <2>5. QED BY <2>1, <2>2, <2>3, <2>4
<1>6. QED BY <1>5

\* What backs a placement does so whatever is appended.
LEMMA BackingStays ==
    ASSUME NEW e, Appended(e), NEW S \in SUBSET (1..revision), NEW p, Backed(audit, S, p)
    PROVE  Backed(audit', S, p)
BY DEF Appended, Backed, Stands, Stamped

-----------------------------------------------------------------------------
(* The steps of an actuator                                                *)

\* Actuator a has ended, and the others are where they were.
LEMMA FinishedEnds ==
    ASSUME ResidencyInv, NEW a \in Actuators, Finished(a), now' = now
    PROVE  /\ \A c \in Actuators : Held(c)'
           /\ DOMAIN pc' = Actuators /\ DOMAIN shadow' = Actuators
           /\ DOMAIN plan' = Actuators /\ DOMAIN stamp' = Actuators
<1>1. /\ DOMAIN pc' = Actuators /\ DOMAIN shadow' = Actuators
      /\ DOMAIN plan' = Actuators /\ DOMAIN stamp' = Actuators
  BY DEF ResidencyInv, Shapes, Finished
<1>2. pc'[a] = "idle"
  BY DEF ResidencyInv, Shapes, Finished
<1>3. ASSUME NEW c \in Actuators, c # a PROVE Held(c)'
  <2>1. pc'[c] = pc[c] /\ shadow'[c] = shadow[c] /\ plan'[c] = plan[c] /\ stamp'[c] = stamp[c]
    BY <1>3 DEF ResidencyInv, Shapes, Finished
  <2>2. QED BY <2>1 DEF ResidencyInv, Held
<1>4. QED BY <1>1, <1>2, <1>3 DEF Held

\* The placement that a commit makes is a placement.
LEMMA PlacedIsPlacement ==
    ASSUME ResidencyInv, NEW a \in Actuators, pc[a] = "executing"
    PROVE  Placed(a) \in Placements
<1>1. stamp[a] \in 0..MaxTime
  BY PolicyAssumption DEF ResidencyInv, Held, Shapes
<1>2. ASSUME NEW i \in Items, i \in DOMAIN Moves(shadow[a])
      PROVE  Moves(shadow[a])[i] \in Tiers
  BY <1>2 DEF Moves, Tiers
<1>3. Moved(placement.tier, Moves(shadow[a])) \in [Items -> Tiers]
  BY <1>2 DEF Moved, ResidencyInv, Shapes, Placements
<1>4. QED BY <1>1, <1>3 DEF Placed, Placements, ResidencyInv, Shapes

\* Two entries moved by a live commit and by this one have rested in between.
LEMMA CommitKeepsAudit ==
    ASSUME ResidencyInv, NEW a \in Actuators, Commit(a)
    PROVE  /\ AuditShape' /\ revision' <= MaxRevision
           /\ LiveBacked' /\ UndoBacked' /\ WithinBudget' /\ CooldownKept'
<1> DEFINE D == DOMAIN Moves(shadow[a])
           e == [kind |-> "commit", before |-> placement, after |-> placement',
                 items |-> D, at |-> stamp[a], budget |-> shadow[a].budget]
<1>1. /\ pc[a] = "executing" /\ plan[a].revision = revision /\ plan[a].placement = placement
      /\ placement' = Placed(a) /\ audit' = Append(audit, e)
      /\ D \subseteq Items
  BY DEF Commit, Unchanged, Guard, ResidencyInv, Shapes
<1>2. Appended(e) /\ AuditShape
  BY <1>1, AppendAppends DEF ResidencyInv, Shapes
<1>3. /\ e.kind = "commit" /\ e.before = placement /\ e.after = placement'
      /\ e.items = D /\ e.at = stamp[a] /\ e.budget = shadow[a].budget
  OBVIOUS
<1> HIDE DEF e
<1>4. /\ stamp[a] \in 0..MaxTime /\ revision < MaxRevision
      /\ \A i \in D : stamp[a] - placement.last[i] >= Cooldown
      /\ TotalUnits(InT0(Moved(placement.tier, Moves(shadow[a])))) <= shadow[a].budget
  BY <1>1, PolicyAssumption DEF ResidencyInv, Held, Shapes
<1>5. placement \in Placements /\ placement' \in Placements
  BY <1>1, PlacedIsPlacement DEF ResidencyInv, Shapes
<1>6. /\ placement'.tier = Moved(placement.tier, Moves(shadow[a]))
      /\ \A i \in Items : placement'.last[i] = IF i \in D THEN stamp[a] ELSE placement.last[i]
      /\ \A i \in Items : placement.last[i] \in Int
  BY <1>1, <1>5, PolicyAssumption DEF Placed, Placements, Never
<1> HIDE DEF D
<1>7. Live' = Live \cup {revision + 1} /\ Live \subseteq 1..revision /\ revision \in Nat
  BY <1>2, <1>3, CommitIsLive, RevisionIsNat DEF Live
<1>8. revision' = revision + 1 /\ audit'[revision + 1] = e
      /\ \A k \in 1..revision : audit'[k] = audit[k]
  BY <1>2 DEF Appended
<1>9. AuditShape'
  <2>1. \E S : audit' \in Seq(S)
    BY <1>2 DEF Appended
  <2>2. ASSUME NEW r \in 1..revision'
        PROVE  /\ audit'[r].kind \in {"commit", "rollback"}
               /\ audit'[r].kind = "commit" =>
                    /\ audit'[r].before \in Placements /\ audit'[r].after \in Placements
                    /\ audit'[r].items \subseteq Items /\ audit'[r].at \in 0..MaxTime
               /\ audit'[r].kind = "rollback" => audit'[r].of \in 1..(r - 1)
    <3>1. CASE r = revision + 1
      BY <3>1, <1>1, <1>3, <1>4, <1>5, <1>8
    <3>2. CASE r # revision + 1
      <4>1. r \in 1..revision /\ audit'[r] = audit[r]
        BY <3>2, <1>7, <1>8
      <4>2. QED BY <4>1, <1>2 DEF AuditShape
    <3>3. QED BY <3>1, <3>2
  <2>3. QED BY <2>1, <2>2 DEF AuditShape
<1>10. Backed(audit', Live, placement)
  BY <1>2, <1>7, BackingStays DEF ResidencyInv, LiveBacked
<1>11. UndoBacked'
  <2>1. Live' \ {revision'} = Live
    BY <1>7, <1>8
  <2>2. QED BY <2>1, <1>3, <1>8, <1>10 DEF UndoBacked
<1>12. Stands(audit', Live', placement')
  BY <1>3, <1>7, <1>8 DEF Stands
<1>13. Stamped(audit', Live', placement')
  <2> SUFFICES ASSUME NEW r \in Live', NEW i \in audit'[r].items
               PROVE  audit'[r].at <= placement'.last[i]
    BY DEF Stamped
  <2>1. CASE r = revision + 1
    BY <2>1, <1>1, <1>3, <1>4, <1>6, <1>8
  <2>2. CASE r # revision + 1
    <3>1. r \in Live /\ r \in 1..revision /\ audit'[r] = audit[r]
      BY <2>2, <1>7, <1>8
    <3>2. audit[r].at <= placement.last[i] /\ i \in Items /\ audit[r].at \in 0..MaxTime
      BY <3>1, <1>2 DEF ResidencyInv, LiveBacked, Backed, Stamped, AuditShape, Live
    <3>3. QED BY <3>1, <3>2, <1>4, <1>6, PolicyAssumption
  <2>3. QED BY <2>1, <2>2
<1>14. WithinBudget'
  <2> SUFFICES ASSUME NEW r \in 1..revision', audit'[r].kind = "commit"
               PROVE  TotalUnits(InT0(audit'[r].after.tier)) <= audit'[r].budget
    BY DEF WithinBudget
  <2>1. CASE r = revision + 1
    BY <2>1, <1>3, <1>4, <1>6, <1>8
  <2>2. CASE r # revision + 1
    <3>1. r \in 1..revision /\ audit'[r] = audit[r]
      BY <2>2, <1>7, <1>8
    <3>2. QED BY <3>1 DEF ResidencyInv, WithinBudget
  <2>3. QED BY <2>1, <2>2
<1>15. CooldownKept'
  <2> SUFFICES ASSUME NEW r \in Live', NEW s \in Live', r < s,
                      NEW i \in audit'[r].items \cap audit'[s].items
               PROVE  audit'[s].at - audit'[r].at >= Cooldown
    BY DEF CooldownKept
  <2>1. r \in Live /\ r \in 1..revision /\ audit'[r] = audit[r]
    BY <1>7, <1>8
  <2>2. audit[r].at <= placement.last[i] /\ i \in Items /\ audit[r].at \in 0..MaxTime
    BY <2>1, <1>2 DEF ResidencyInv, LiveBacked, Backed, Stamped, AuditShape, Live
  <2>3. CASE s = revision + 1
    BY <2>1, <2>2, <2>3, <1>3, <1>4, <1>6, <1>8, PolicyAssumption
  <2>4. CASE s # revision + 1
    <3>1. s \in Live /\ audit'[s] = audit[s]
      BY <2>4, <1>7, <1>8
    <3>2. QED BY <2>1, <3>1 DEF ResidencyInv, CooldownKept
  <2>5. QED BY <2>3, <2>4
<1>16. QED BY <1>4, <1>7, <1>8, <1>9, <1>11, <1>12, <1>13, <1>14, <1>15, PolicyAssumption
            DEF LiveBacked, Backed

LEMMA CommitKeepsInv ==
    ASSUME ResidencyInv, NEW a \in Actuators, Commit(a)
    PROVE  ResidencyInv'
<1>1. Finished(a) /\ now' = now /\ valid' = valid
  BY DEF Commit, outside
<1>2. placement' \in Placements
  BY PlacedIsPlacement DEF Commit
<1>3. QED BY <1>1, <1>2, FinishedEnds, CommitKeepsAudit DEF ResidencyInv, Shapes

\* A rollback undoes the last commit, and brings back the placement of the others.
LEMMA RollbackKeepsInv ==
    ASSUME ResidencyInv, NEW r \in 1..MaxRevision, r \in DOMAIN audit, Rollback(r)
    PROVE  ResidencyInv'
<1> DEFINE e == [kind |-> "rollback", of |-> r]
<1>1. /\ revision = r /\ audit[r].kind = "commit" /\ placement' = audit[r].before
      /\ audit' = Append(audit, e) /\ revision < MaxRevision
  BY DEF Rollback, IsLatest
<1>2. Appended(e) /\ AuditShape
  BY <1>1, AppendAppends DEF ResidencyInv, Shapes
<1>3. e.kind = "rollback" /\ e.of = revision
  BY <1>1
<1> HIDE DEF e
<1>4. Live' = Live \ {revision} /\ Live \subseteq 1..revision /\ revision \in Nat /\ revision > 0
  <2>1. Live' = Live \ {revision}
    BY <1>2, <1>3, RollbackIsDead
  <2>2. revision \in Nat /\ Live \subseteq 1..revision
    BY <1>2, RevisionIsNat DEF Live
  <2>3. QED BY <1>1, <2>1, <2>2
<1>5. revision' = revision + 1 /\ audit'[revision + 1] = e
      /\ \A k \in 1..revision : audit'[k] = audit[k]
  BY <1>2 DEF Appended
<1>6. placement' \in Placements
  BY <1>1, <1>2, <1>4 DEF AuditShape
<1>7. AuditShape'
  <2>1. \E S : audit' \in Seq(S)
    BY <1>2 DEF Appended
  <2>2. ASSUME NEW q \in 1..revision'
        PROVE  /\ audit'[q].kind \in {"commit", "rollback"}
               /\ audit'[q].kind = "commit" =>
                    /\ audit'[q].before \in Placements /\ audit'[q].after \in Placements
                    /\ audit'[q].items \subseteq Items /\ audit'[q].at \in 0..MaxTime
               /\ audit'[q].kind = "rollback" => audit'[q].of \in 1..(q - 1)
    <3>1. CASE q = revision + 1
      BY <3>1, <1>3, <1>4, <1>5
    <3>2. CASE q # revision + 1
      <4>1. q \in 1..revision /\ audit'[q] = audit[q]
        BY <3>2, <1>4, <1>5
      <4>2. QED BY <4>1, <1>2 DEF AuditShape
    <3>3. QED BY <3>1, <3>2
  <2>3. QED BY <2>1, <2>2 DEF AuditShape
<1>8. LiveBacked'
  <2>1. Backed(audit, Live \ {revision}, placement')
    BY <1>1, <1>4 DEF ResidencyInv, UndoBacked
  <2>2. Live \ {revision} \subseteq 1..revision
    BY <1>4
  <2>3. Backed(audit', Live \ {revision}, placement')
    BY <2>1, <2>2, <1>2, BackingStays
  <2>4. QED BY <2>3, <1>4 DEF LiveBacked
<1>9. UndoBacked'
  BY <1>3, <1>5 DEF UndoBacked
<1>10. WithinBudget'
  <2> SUFFICES ASSUME NEW q \in 1..revision', audit'[q].kind = "commit"
               PROVE  TotalUnits(InT0(audit'[q].after.tier)) <= audit'[q].budget
    BY DEF WithinBudget
  <2>1. q # revision + 1
    BY <1>3, <1>5
  <2>2. q \in 1..revision /\ audit'[q] = audit[q]
    BY <2>1, <1>4, <1>5
  <2>3. QED BY <2>2 DEF ResidencyInv, WithinBudget
<1>11. CooldownKept'
  BY <1>4, <1>5 DEF ResidencyInv, CooldownKept
<1>12. UNCHANGED <<valid, now, pc, shadow, plan, stamp>>
  BY DEF Rollback, outside
<1>13. \A c \in Actuators : Held(c)'
  BY <1>12 DEF ResidencyInv, Held
<1>14. Shapes'
  BY <1>1, <1>4, <1>5, <1>6, <1>7, <1>12, PolicyAssumption, SMTT(30) DEF ResidencyInv, Shapes
<1>15. QED BY <1>8, <1>9, <1>10, <1>11, <1>13, <1>14 DEF ResidencyInv

\* The other steps of an actuator change neither the placement nor the audit.
LEMMA KeepsPlacement ==
    ASSUME ResidencyInv, UNCHANGED <<placement, audit>>, valid' \subseteq Items,
           now' \in 0..MaxTime,
           DOMAIN pc' = Actuators, DOMAIN shadow' = Actuators,
           DOMAIN plan' = Actuators, DOMAIN stamp' = Actuators,
           \A c \in Actuators : Held(c)'
    PROVE  ResidencyInv'
BY ZenonT(60) DEF ResidencyInv, Shapes, AuditShape, LiveBacked, UndoBacked, Live, WithinBudget,
   CooldownKept, revision

\* Actuator a is at step s; the others are where they were.
OnlyAt(a, s) ==
    /\ DOMAIN pc' = Actuators /\ DOMAIN shadow' = Actuators
    /\ DOMAIN plan' = Actuators /\ DOMAIN stamp' = Actuators
    /\ pc'[a] = s
    /\ \A c \in Actuators : c # a =>
         pc'[c] = pc[c] /\ shadow'[c] = shadow[c] /\ plan'[c] = plan[c] /\ stamp'[c] = stamp[c]

LEMMA OnlyOneMoves ==
    ASSUME ResidencyInv, NEW a \in Actuators, NEW s, OnlyAt(a, s), now' = now,
           s = "executing" => Held(a)'
    PROVE  \A c \in Actuators : Held(c)'
<1>1. ASSUME NEW c \in Actuators, c # a PROVE Held(c)'
  BY <1>1 DEF ResidencyInv, Held, OnlyAt
<1>2. Held(a)'
  BY DEF Held, OnlyAt
<1>3. QED BY <1>1, <1>2

\* What is executed was proposed for the placement of now, and is approved again.
LEMMA ExecuteHolds ==
    ASSUME ResidencyInv, NEW a \in Actuators, Execute(a)
    PROVE  Held(a)'
<1>1. /\ stamp'[a] = now /\ now' = now /\ plan' = plan /\ shadow' = shadow
  BY DEF Execute, ResidencyInv, Shapes, outside
<1>2. /\ plan[a] = Proposal(plan[a].pressure, plan[a].waste)
      /\ Approved(shadow[a], plan[a].pressure, plan[a].waste)
      /\ revision < MaxRevision
  BY DEF Execute, IsFresh
<1>3. plan[a].revision = revision /\ plan[a].placement = placement
  BY <1>2 DEF Proposal
<1>4. /\ \A i \in DOMAIN Moves(shadow[a]) : now - placement.last[i] >= Cooldown
      /\ TotalUnits(InT0(Moved(placement.tier, Moves(shadow[a])))) <= shadow[a].budget
  BY <1>2 DEF Approved, Movable, FitsCapacity
<1>5. now \in 0..now
  BY PolicyAssumption DEF ResidencyInv, Shapes
<1>6. QED BY <1>1, <1>2, <1>3, <1>4, <1>5 DEF Held

LEMMA ActuatorKeepsInv ==
    ASSUME ResidencyInv, NEW a \in Actuators,
           MakeShadow(a) \/ Propose(a) \/ Execute(a) \/ Withdraw(a) \/ CommitRefused(a)
    PROVE  ResidencyInv'
<1>1. UNCHANGED <<placement, audit, valid, now>>
  BY DEF MakeShadow, Propose, Execute, Withdraw, CommitRefused, outside
<1>2. CASE MakeShadow(a)
  <2>1. OnlyAt(a, "shadow")
    BY <1>2 DEF MakeShadow, OnlyAt, ResidencyInv, Shapes
  <2>2. QED BY <1>1, <2>1, OnlyOneMoves, KeepsPlacement DEF OnlyAt, ResidencyInv, Shapes
<1>3. CASE Propose(a)
  <2>1. OnlyAt(a, "proposed")
    BY <1>3 DEF Propose, OnlyAt, ResidencyInv, Shapes
  <2>2. QED BY <1>1, <2>1, OnlyOneMoves, KeepsPlacement DEF OnlyAt, ResidencyInv, Shapes
<1>4. CASE Execute(a)
  <2>1. OnlyAt(a, "executing")
    BY <1>4 DEF Execute, OnlyAt, ResidencyInv, Shapes
  <2>2. QED BY <1>1, <1>4, <2>1, ExecuteHolds, OnlyOneMoves, KeepsPlacement
            DEF OnlyAt, ResidencyInv, Shapes
<1>5. CASE Withdraw(a)
  <2>1. OnlyAt(a, pc'[a]) /\ pc'[a] # "executing"
    BY <1>5 DEF Withdraw, OnlyAt, ResidencyInv, Shapes
  <2>2. QED BY <1>1, <2>1, OnlyOneMoves, KeepsPlacement DEF OnlyAt, ResidencyInv, Shapes
<1>6. CASE CommitRefused(a)
  BY <1>1, <1>6, FinishedEnds, KeepsPlacement DEF CommitRefused, ResidencyInv, Shapes
<1>7. QED BY <1>2, <1>3, <1>4, <1>5, <1>6

\* What changes outside the store leaves what was decided as it was.
LEMMA OutsideKeepsInv ==
    ASSUME ResidencyInv,
           \/ \E e \in NewEvents : Observe(e)
           \/ \E i \in Items : Expire(i) \/ SourceChanges(i)
           \/ Tick \/ UNCHANGED vars
    PROVE  ResidencyInv'
<1>1. /\ UNCHANGED <<placement, audit, pc, shadow, plan, stamp>>
      /\ valid' \subseteq Items
  BY DEF Observe, Expire, SourceChanges, Tick, vars, outside, ResidencyInv, Shapes
<1>2. now' \in 0..MaxTime /\ now <= now'
  <2>1. now' = now \/ (now < MaxTime /\ now' = now + 1)
    BY DEF Observe, Expire, SourceChanges, Tick, vars, outside
  <2>2. now \in 0..MaxTime
    BY DEF ResidencyInv, Shapes
  <2>3. QED BY <2>1, <2>2, PolicyAssumption
<1>3. ASSUME NEW c \in Actuators PROVE Held(c)'
  <2>1. pc[c] = "executing" => stamp[c] \in 0..now'
    BY <1>2 DEF ResidencyInv, Held, Shapes
  <2>2. QED BY <1>1, <2>1 DEF ResidencyInv, Held
<1>4. QED BY <1>1, <1>2, <1>3, KeepsPlacement DEF ResidencyInv, Shapes

-----------------------------------------------------------------------------
(* The theorems                                                            *)

LEMMA ResidencyInit == Init => ResidencyInv
<1> SUFFICES ASSUME Init PROVE ResidencyInv
  OBVIOUS
<1>1. audit = <<>> /\ revision = 0
  BY DEF Init, revision
<1>2. placement \in Placements
  BY PolicyAssumption DEF Init, Placements
<1>3. AuditShape
  <2>1. audit \in Seq({})
    BY <1>1
  <2>2. QED BY <1>1, <2>1 DEF AuditShape
<1>4. Shapes
  BY <1>1, <1>2, <1>3, PolicyAssumption DEF Init, Shapes
<1>5. Live = {}
  BY <1>1 DEF Live
<1>6. LiveBacked /\ UndoBacked /\ WithinBudget /\ CooldownKept
  BY <1>1, <1>5 DEF LiveBacked, Backed, Stands, Stamped, UndoBacked, WithinBudget, CooldownKept
<1>7. QED BY <1>4, <1>6 DEF Init, ResidencyInv, Held

LEMMA ResidencyStep == ResidencyInv /\ [Next]_vars => ResidencyInv'
<1> SUFFICES ASSUME ResidencyInv, [Next]_vars PROVE ResidencyInv'
  OBVIOUS
<1>1. CASE \E a \in Actuators : Commit(a)
  BY <1>1, CommitKeepsInv
<1>2. CASE \E a \in Actuators :
             MakeShadow(a) \/ Propose(a) \/ Execute(a) \/ Withdraw(a) \/ CommitRefused(a)
  BY <1>2, ActuatorKeepsInv
<1>3. CASE \E r \in 1..MaxRevision : r \in DOMAIN audit /\ Rollback(r)
  BY <1>3, RollbackKeepsInv
<1>4. CASE \/ \E e \in NewEvents : Observe(e)
           \/ \E i \in Items : Expire(i) \/ SourceChanges(i)
           \/ Tick \/ UNCHANGED vars
  BY <1>4, OutsideKeepsInv
<1>5. QED BY <1>1, <1>2, <1>3, <1>4 DEF Next

\* The invariant: the placement is what the live commits made of it, the one the
\* last commit would be rolled back to likewise, and an actuator that executes
\* holds a plan that fits and has rested (actuator.py: execute, commit, rollback).
THEOREM ResidencyInvariance == Spec => []ResidencyInv
<1>1. QED BY ResidencyInit, ResidencyStep, PTL DEF Spec

LEMMA MaxIsTop ==
    ASSUME NEW S \in SUBSET Nat, NEW q \in S, \A x \in S : x <= q
    PROVE  Max(S) = q
<1>1. \A y \in S : q >= y
  OBVIOUS
<1>2. Max(S) \in S /\ \A y \in S : Max(S) >= y
  BY <1>1 DEF Max
<1>3. Max(S) >= q /\ q >= Max(S)
  BY <1>1, <1>2
<1>4. Max(S) \in Nat /\ q \in Nat
  BY <1>2
<1>5. QED BY <1>3, <1>4

LEMMA LatestHolds == ResidencyInv => LiveCommitsHold
<1> SUFFICES ASSUME ResidencyInv, Live # {} PROVE placement = audit[Max(Live)].after
  BY DEF LiveCommitsHold
<1>1. PICK q \in Live : (\A s \in Live : s <= q) /\ audit[q].after = placement
  BY DEF ResidencyInv, LiveBacked, Backed, Stands
<1>2. revision \in Nat /\ Live \subseteq 1..revision
  BY RevisionIsNat DEF ResidencyInv, Shapes, Live
<1>3. Max(Live) = q
  <2>1. Live \in SUBSET Nat
    BY <1>2
  <2>2. QED BY <1>1, <2>1, MaxIsTop
<1>4. QED BY <1>1, <1>3

\* Every commit leaves in T0 no more than the budget of its host, an item that a
\* standing commit moved rests for the cooldown, and a rollback undoes one commit
\* and no other host's (actuator.py: propose, commit, rollback).
THEOREM CommitsStand == Spec => []CommitsHold
<1>1. ResidencyInv => CommitsHold
  BY LatestHolds DEF ResidencyInv, CommitsHold
<1>2. QED BY <1>1, ResidencyInvariance, PTL
=============================================================================

--------------------------- MODULE MeasuredChoice ---------------------------
(***************************************************************************)
(* How measurements become the choice of a session: the gate a measurement *)
(* must pass, the frontier and the selection over the points that passed   *)
(* (thm/runtime/fabric/optimizer.py), the store they are kept in with the  *)
(* cooldowns of providers that failed (store.py, ProfileStore), and        *)
(* RuntimeService._publish and _select around them (service.py).  The      *)
(* portfolio of models keeps its measurements in the same store            *)
(* (models.py, ModelPortfolio._prepare), by a gate of its own.             *)
(* Latencies and costs are small integers, or None when nothing measured   *)
(* them; the clocks do not go back.                                        *)
(***************************************************************************)
EXTENDS Integers, SequencesExt

CONSTANTS
    Keys,            \* profile keys
    Candidates,      \* alternatives, each of a provider of its own: numbers
    Portfolio,       \* those of them that are models: no session selects these here
    Explored,        \* the pairs of a key and a candidate that are measured,
    Failing,         \* and those of them that may fail
    Measured(_),     \* what a replay may report of a candidate: a set of records
    Baseline,        \* median latency of the reference
    AbsoluteMin, Hysteresis,    \* of a gain; of a gain after a switch
    Cooldown,        \* seconds between two switches
    Pause, MaxPause, \* cooldown after a first failure; its bound
    MaxAge,          \* max_age_seconds
    MaxObservations, \* rows of the store
    MaxTime,         \* bounds on the clock
    MaxFailures,     \* and on the failures of a pair
    None             \* nothing, unknown

Metrics == {"p95", "cpu", "startup", "transfer"}

VARIABLES
    rows,            \* observations, one per key and candidate, in the order of
                     \* their rowids
    quarantine,      \* the failures of a key and candidate: [n, until] or None
    invalidated,     \* keys
    lastSwitch,      \* of the gate
    now

vars == <<rows, quarantine, invalidated, lastSwitch, now>>

ReferencePoint == 0

Init ==
    /\ rows = <<>> /\ quarantine = [p \in Explored |-> None] /\ invalidated = {}
    /\ lastSwitch = None /\ now = 0

----------------------------------------------------------------------------
\* The gate.

\* Mutant: a switch is only remembered for its hysteresis.
Cooling_Never == FALSE

Cooling == lastSwitch # None /\ now - lastSwitch < Cooldown

Threshold == AbsoluteMin + IF lastSwitch # None THEN Hysteresis ELSE 0

\* A gain passes when what is left of it without the noise exceeds noise and
\* threshold, in the limits of memory, for the same answers.
Gains(m, semantic, threshold) ==
    LET gain == (Baseline - m.p95) - m.noise
    IN  /\ semantic /\ m.enough /\ m.fits
        /\ gain > m.noise /\ gain > threshold

Material(m, semantic) == Gains(m, semantic, Threshold) /\ ~Cooling

----------------------------------------------------------------------------
\* The store.

\* Mutant: the row inserted first goes, though it may be validated again since.
Latest_Inserted(R) == IF Len(R) <= MaxObservations THEN R ELSE Tail(R)

\* At most so many rows are kept (one at a time is inserted): those validated last,
\* then those inserted last.
Latest(R) ==
    LET Newer(i, j) == R[i].validated > R[j].validated \/ (R[i].validated = R[j].validated /\ i > j)
        oldest == CHOOSE j \in DOMAIN R : \A i \in DOMAIN R \ {j} : Newer(i, j)
    IN  IF Len(R) <= MaxObservations THEN R ELSE RemoveAt(R, oldest)

\* A row is put for a key and a candidate, in the place of an earlier one.
WithRow(k, c, m, gain, semantic) ==
    LET row == [key |-> k, candidate |-> c, m |-> [x \in Metrics |-> m[x]], accepted |-> gain,
                strict |-> semantic, validated |-> now]
        old == {i \in DOMAIN rows : rows[i].key = k /\ rows[i].candidate = c}
    IN  Latest(IF old = {} THEN Append(rows, row) ELSE ReplaceAt(rows, CHOOSE i \in old : TRUE, row))

\* Quarantines that ended long ago are forgotten.
Kept == [p \in DOMAIN quarantine |->
           IF quarantine[p] # None /\ quarantine[p].until < now - MaxAge THEN None ELSE quarantine[p]]

\* A failure of a provider for a key: its cooldown doubles, up to a bound.
Failed(Q, k, c) ==
    LET n == IF Q[<<k, c>>] = None THEN 1 ELSE Q[<<k, c>>].n + 1
    IN  [Q EXCEPT ![<<k, c>>] = [n |-> n, until |-> now + Min({MaxPause, Pause * 2 ^ (n - 1)})]]

MayFail(k, c) ==
    /\ <<k, c>> \in Failing
    /\ quarantine[<<k, c>>] # None => quarantine[<<k, c>>].n < MaxFailures

Quarantined(k, c) == quarantine[<<k, c>>] # None /\ quarantine[<<k, c>>].until > now

----------------------------------------------------------------------------
\* The service.

\* A measurement is published, with what the gate says of it; one whose answers
\* differ is a failure too. An accepted one is a switch.
Publish(k, c) ==
    \E m \in Measured(c), semantic \in BOOLEAN :
        LET gain == Material(m, semantic)
        IN  /\ ~semantic => MayFail(k, c)
            /\ rows' = WithRow(k, c, m, gain, semantic)
            /\ quarantine' = IF semantic THEN Kept ELSE Failed(Kept, k, c)
            /\ lastSwitch' = IF gain THEN now ELSE lastSwitch
            /\ UNCHANGED <<invalidated, now>>

\* A model is measured with a gate that has never switched, and does not switch
\* the gate of the others; its row is one of an observed request.
PublishModel(k, c) ==
    \E m \in Measured(c), semantic \in BOOLEAN :
        /\ ~semantic => MayFail(k, c)
        /\ rows' = WithRow(k, c, m, Gains(m, semantic, AbsoluteMin), FALSE)
        /\ quarantine' = IF semantic THEN Kept ELSE Failed(Kept, k, c)
        /\ UNCHANGED <<invalidated, lastSwitch, now>>

\* A measurement that was deferred, or a request that failed with the candidate.
Fail(k, c) ==
    /\ MayFail(k, c)
    /\ quarantine' = Failed(quarantine, k, c)
    /\ UNCHANGED <<rows, invalidated, lastSwitch, now>>

Invalidate(k) ==
    /\ invalidated' = invalidated \cup {k}
    /\ UNCHANGED <<rows, quarantine, lastSwitch, now>>

\* Mutant: what nothing has measured costs nothing.
Dominates_Free(a, b) ==
    LET known == {x \in Metrics : a[x] # None /\ b[x] # None}
    IN  (\A x \in known : a[x] <= b[x]) /\ \E x \in known : a[x] < b[x]

\* A point dominates another when they have the same metrics measured, and it is
\* nowhere worse and somewhere better.
Dominates(a, b) ==
    LET known == {x \in Metrics : a[x] # None}
    IN  /\ known = {x \in Metrics : b[x] # None}
        /\ \A x \in known : a[x] <= b[x]
        /\ \E x \in known : a[x] < b[x]

Frontier(R) == {r \in R : ~\E s \in R : Dominates(s.m, r.m)}

\* Mutant: a row serves however old it is.
Fresh_Ever(r) == TRUE

Fresh(r) == now - r.validated <= MaxAge

\* The rows of a key a session may use.
Eligible(k) ==
    {r \in ToSet(rows) : /\ r.key = k /\ k \notin invalidated /\ Fresh(r)
                         /\ r.accepted /\ r.strict /\ ~Quarantined(k, r.candidate)}

\* When a request would finish with a point whose index is not resident yet: what
\* is not known is not guessed.
Finish(r) == IF r.m["startup"] = None THEN None ELSE r.m["p95"] + r.m["startup"]

Cpu(r) == IF r.m["cpu"] = None THEN 0 ELSE r.m["cpu"]

Better(r, s) ==
    \/ Finish(r) < Finish(s)
    \/ Finish(r) = Finish(s) /\ Cpu(r) < Cpu(s)
    \/ Finish(r) = Finish(s) /\ Cpu(r) = Cpu(s) /\ r.candidate < s.candidate

\* The selection for an interactive workload.
Selected(k) ==
    LET points == {r \in Frontier(Eligible(k)) : Finish(r) # None}
    IN  IF points = {} THEN ReferencePoint
        ELSE (CHOOSE r \in points : \A s \in points \ {r} : Better(r, s)).candidate

Tick ==
    /\ now < MaxTime
    /\ now' = now + 1
    /\ UNCHANGED <<rows, quarantine, invalidated, lastSwitch>>

Next ==
    \/ \E k \in Keys, c \in Candidates \ Portfolio : <<k, c>> \in Explored /\ Publish(k, c)
    \/ \E k \in Keys, c \in Candidates \cap Portfolio : <<k, c>> \in Explored /\ PublishModel(k, c)
    \/ \E k \in Keys, c \in Candidates : Fail(k, c)
    \/ \E k \in Keys : Invalidate(k)
    \/ Tick

Spec == Init /\ [][Next]_vars

----------------------------------------------------------------------------
TypeOK ==
    /\ Len(rows) <= MaxObservations
    /\ \A r \in ToSet(rows) : r.key \in Keys /\ r.candidate \in Candidates /\ r.validated \in 0..now
    /\ invalidated \subseteq Keys /\ lastSwitch \in {None} \cup 0..now
    /\ \A p \in Explored : quarantine[p] # None => quarantine[p].n \in 1..MaxFailures

\* Two measurements that a session may act on are never accepted as material within
\* a cooldown of each other, for whatever keys and candidates (optimizer.py:100-139, service.py:479-490;
\* docs/22-runtime-optimizer.md:27).
Accepts == \E r \in ToSet(rows') \ ToSet(rows) : r.accepted /\ r.strict
AcceptedApart == [][Accepts => lastSwitch = None \/ now - lastSwitch >= Cooldown]_vars

\* The evidence that is lost when the store is full is never younger than what is
\* kept (store.py:118-121).
EvidenceKept ==
    [][\A r \in ToSet(rows), s \in ToSet(rows') :
         (\A t \in ToSet(rows') : <<t.key, t.candidate>> # <<r.key, r.candidate>>)
           => r.validated <= s.validated]_vars

\* Whatever of the measurements is unknown, each point a session may use is on the
\* frontier or is dominated by one that is, so that the frontier never drops all of
\* them (optimizer.py:142-172; docs/22-runtime-optimizer.md:31).
FrontierCovers ==
    \A k \in Keys : \A r \in Eligible(k) \ Frontier(Eligible(k)) :
      \E s \in Frontier(Eligible(k)) : Dominates(s.m, r.m)

\* What a session may settle on has been accepted for that very key within MaxAge
\* and has not failed since, unless that cooldown is over (service.py:204-234).
SelectedHasEvidence ==
    \A k \in Keys : Selected(k) # ReferencePoint =>
      /\ \E r \in ToSet(rows) : r.key = k /\ r.candidate = Selected(k) /\ r.accepted
                         /\ r.validated + MaxAge >= now
      /\ ~\E q \in {quarantine[<<k, Selected(k)>>]} \ {None} : q.until > now
      /\ k \notin invalidated /\ Selected(k) \notin Portfolio
=============================================================================

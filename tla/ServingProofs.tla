----------------------------- MODULE ServingProofs ----------------------------
(***************************************************************************)
(* Proofs about Serving, for any requests, profiles, queries, models,      *)
(* tasks, traces, messages, rows, devices and bounds: what is answered     *)
(* belongs to the request, and what is reported was done.                  *)
(***************************************************************************)
EXTENDS Serving, SequencesExt, FiniteSetTheorems, SequenceTheorems, TLAPS

-----------------------------------------------------------------------------
(* What is assumed, of each of them                                        *)

\* Of the scores and the rows (multi_device.py).
LEMMA RowsKnown ==
  NDevices \in Nat /\ NRows \in Nat /\ NBuilds \in Nat /\ Scores \subseteq Int
BY OwnersAssumption, ServingAssumption

\* Of the requests.
LEMMA RequestsKnown ==
  /\ IsFiniteSet(Submitted) /\ Direct \cap Submitted = {}
  /\ Slots \in Nat
  /\ Nil \notin Scheduler!Requests /\ Sparse \notin Scheduler!Requests
BY ServingAssumption DEF Scheduler!Requests

\* Of the queries.
LEMMA QueriesKnown == Nil \notin Queries /\ 0 \in 0..LastGeneration /\ ChunkSize \in Nat
BY ServingAssumption

\* Of the models.
LEMMA ModelsKnown ==
  /\ Versions \subseteq Nat /\ 1 \in Versions
  /\ Nil \notin Versions \cup ScopeGenerations
  /\ Repeats \in Nat \ {0} /\ MaxWrites \in Nat
BY ServingAssumption

\* Of the tasks.
LEMMA TasksKnown ==
  /\ IsFiniteSet(Tasks) /\ Sources \subseteq Seq(Tasks)
  /\ MaxSteps \in Nat \ {0} /\ Wall \in Nat
BY ServingAssumption

-----------------------------------------------------------------------------
(* The index over several devices                                          *)

\* The component counts as the library does.
LEMMA RowsCounted == ASSUME NEW S PROVE Devices!Cardinality(S) = Cardinality(S)
BY DEF Devices!Cardinality, Cardinality

\* Before orders the rows strictly and totally.
LEMMA RowsAreOrdered ==
  ASSUME score \in [Devices!Rows -> Int]
  PROVE  /\ \A r \in Devices!Rows : ~Devices!Before(r, r)
         /\ \A r, q, p \in Devices!Rows : Devices!Before(r, q) /\ Devices!Before(q, p)
            => Devices!Before(r, p)
         /\ \A r, q \in Devices!Rows : r # q => Devices!Before(r, q) \/ Devices!Before(q, r)
<1>1. Devices!Rows \subseteq Int /\ \A r \in Devices!Rows : score[r] \in Int
  BY RowsKnown DEF Devices!Rows
<1>2. \A r \in Devices!Rows : ~Devices!Before(r, r)
  BY <1>1 DEF Devices!Before
<1>3. \A r, q, p \in Devices!Rows : Devices!Before(r, q) /\ Devices!Before(q, p)
        => Devices!Before(r, p)
  BY <1>1 DEF Devices!Before
<1>4. \A r, q \in Devices!Rows : r # q => Devices!Before(r, q) \/ Devices!Before(q, r)
  BY <1>1 DEF Devices!Before
<1>5. QED BY <1>2, <1>3, <1>4

\* A set of rows can be counted.
LEMMA RowsAreFinite ==
  ASSUME NEW S \in SUBSET Devices!Rows
  PROVE  IsFiniteSet(S) /\ Cardinality(S) \in Nat /\ Cardinality(Devices!Rows) = NRows
<1>1. IsFiniteSet(Devices!Rows) /\ Cardinality(Devices!Rows) = NRows
  BY RowsKnown, FS_Interval DEF Devices!Rows
<1>2. IsFiniteSet(S)
  BY <1>1, FS_Subset
<1>3. QED BY <1>1, <1>2, FS_CardinalityType

\* A row before another one has the lower rank, and ranks lie below the number of
\* rows.
LEMMA RanksGrow ==
  ASSUME score \in [Devices!Rows -> Int], NEW S \in SUBSET Devices!Rows
  PROVE  /\ \A r \in S : Devices!Rank(r, S) \in Nat /\ Devices!Rank(r, S) < Cardinality(S)
         /\ \A r, q \in S : Devices!Before(r, q) => Devices!Rank(r, S) < Devices!Rank(q, S)
         /\ \A r, q \in S : Devices!Rank(r, S) = Devices!Rank(q, S) => r = q
<1> DEFINE Under(r) == {q \in S : Devices!Before(q, r)}
<1>1. ASSUME NEW T \in SUBSET S, NEW U \in SUBSET S, T \subseteq U, T # U
      PROVE  Cardinality(T) \in Nat /\ Cardinality(T) < Cardinality(U)
  <2>1. IsFiniteSet(U) /\ Cardinality(U) \in Nat /\ Cardinality(T) \in Nat
    BY RowsAreFinite
  <2>2. Cardinality(T) <= Cardinality(U) /\ (Cardinality(U) = Cardinality(T) => U = T)
    BY <1>1, <2>1, FS_Subset
  <2>3. QED BY <1>1, <2>1, <2>2
<1>2. ASSUME NEW r \in S PROVE Devices!Rank(r, S) \in Nat /\ Devices!Rank(r, S) < Cardinality(S)
  <2>1. Under(r) \subseteq S /\ Under(r) # S
    BY RowsAreOrdered
  <2>2. QED BY RowsCounted, <1>1, <2>1 DEF Devices!Rank
<1>3. ASSUME NEW r \in S, NEW q \in S, Devices!Before(r, q)
      PROVE  Devices!Rank(r, S) < Devices!Rank(q, S)
  <2>1. Under(r) \subseteq Under(q)
    BY <1>3, RowsAreOrdered
  <2>2. r \in Under(q) /\ r \notin Under(r)
    BY <1>3, RowsAreOrdered
  <2>3. QED BY RowsCounted, <1>1, <2>1, <2>2 DEF Devices!Rank
<1>4. ASSUME NEW r \in S, NEW q \in S, Devices!Rank(r, S) = Devices!Rank(q, S), r # q PROVE FALSE
  BY <1>2, <1>3, <1>4, RowsAreOrdered
<1>5. QED BY <1>2, <1>3, <1>4

\* Each rank is some row's.
LEMMA RanksAreTaken ==
  ASSUME score \in [Devices!Rows -> Int], NEW S \in SUBSET Devices!Rows,
         NEW n \in 1..Cardinality(S)
  PROVE  \E r \in S : Devices!Rank(r, S) = n - 1
<1> DEFINE N == Cardinality(S)
           f == [r \in S |-> Devices!Rank(r, S)]
<1>1. IsFiniteSet(S) /\ N \in Nat
  BY RowsAreFinite
<1>2. f \in [S -> 0..(N - 1)] /\ \A r, q \in S : f[r] = f[q] => r = q
  BY <1>1, RanksGrow
<1>3. IsFiniteSet(0..(N - 1)) /\ Cardinality(0..(N - 1)) = N
  <2>1. PICK M \in Int : M = N - 1
    BY <1>1
  <2>2. IsFiniteSet(0..M) /\ Cardinality(0..M) = IF 0 > M THEN 0 ELSE M - 0 + 1
    BY FS_Interval
  <2> HIDE DEF N
  <2>3. (IF 0 > M THEN 0 ELSE M - 0 + 1) = N
    BY <1>1, <2>1
  <2>4. QED BY <2>1, <2>2, <2>3
<1> HIDE DEF f
<1>4. f \in Injection(S, 0..(N - 1))
  BY <1>2 DEF Injection, IsInjective
<1>5. f \in Surjection(S, 0..(N - 1))
  BY <1>3, <1>4, FS_Injection
<1>6. n - 1 \in 0..(N - 1)
  BY <1>1
<1>7. PICK r \in S : f[r] = n - 1
  BY <1>5, <1>6 DEF Surjection
<1>8. QED BY <1>7 DEF f

\* What Top answers: the rows with the first ranks, in their order.
LEMMA TopRanks ==
  ASSUME score \in [Devices!Rows -> Int], NEW S \in SUBSET Devices!Rows, NEW k \in Nat,
         k <= Cardinality(S)
  PROVE  /\ Devices!Top(S, k) \in Seq(S) /\ Len(Devices!Top(S, k)) = k
         /\ \A n \in 1..k : Devices!Top(S, k)[n] \in S /\ Devices!Rank(Devices!Top(S, k)[n],
            S) = n - 1
         /\ Devices!ToSet(Devices!Top(S, k)) = {r \in S : Devices!Rank(r, S) < k}
<1>1. ASSUME NEW n \in 1..k
      PROVE  Devices!Top(S, k)[n] \in S /\ Devices!Rank(Devices!Top(S, k)[n], S) = n - 1
  <2>1. n \in 1..Cardinality(S)
    BY RowsAreFinite
  <2>2. \E r \in S : Devices!Rank(r, S) = n - 1
    BY <2>1, RanksAreTaken
  <2>3. Devices!Top(S, k)[n] = CHOOSE r \in S : Devices!Rank(r, S) = n - 1
    BY DEF Devices!Top
  <2>4. QED BY <2>2, <2>3
<1>2. DOMAIN Devices!Top(S, k) = 1..k
  BY DEF Devices!Top
<1>3. Devices!Top(S, k) \in Seq(S) /\ Len(Devices!Top(S, k)) = k
  <2>1. Devices!Top(S, k) \in [1..k -> S]
    BY <1>1, <1>2 DEF Devices!Top
  <2>2. QED BY <1>2, <2>1
<1>4. ASSUME NEW r \in S, Devices!Rank(r, S) < k PROVE r \in Devices!ToSet(Devices!Top(S, k))
  <2>1. Devices!Rank(r, S) \in Nat
    BY RanksGrow
  <2>2. Devices!Rank(r, S) + 1 \in 1..k
    BY <1>4, <2>1
  <2> DEFINE n == Devices!Rank(r, S) + 1
  <2>3. Devices!Top(S, k)[n] \in S /\ Devices!Rank(Devices!Top(S, k)[n], S) = Devices!Rank(r, S)
    BY <1>1, <2>1, <2>2
  <2>4. Devices!Top(S, k)[n] = r
    BY <2>3, RanksGrow
  <2>5. QED BY <1>2, <2>2, <2>4 DEF Devices!ToSet
<1>5. ASSUME NEW r \in Devices!ToSet(Devices!Top(S, k)) PROVE r \in S /\ Devices!Rank(r, S) < k
  <2>1. PICK n \in 1..k : r = Devices!Top(S, k)[n]
    BY <1>2 DEF Devices!ToSet
  <2>2. r \in S /\ Devices!Rank(r, S) = n - 1
    BY <1>1, <2>1
  <2>3. QED BY <2>2
<1>6. QED BY <1>1, <1>3, <1>4, <1>5

Own(i) == {r \in Devices!Rows : r % NDevices = i}

\* multi_device.py: a shard gives those of its rows that fewer than k of its own precede.
LEMMA BestRanks ==
  ASSUME score \in [Devices!Rows -> Int], NEW i, NEW k \in Nat
  PROVE  Devices!Best(i, k) = {r \in Own(i) : Devices!Rank(r, Own(i)) < k}
<1>1. Own(i) \in SUBSET Devices!Rows
  BY DEF Own
<1>2. Cardinality(Own(i)) \in Nat
  BY <1>1, RowsAreFinite
<1> DEFINE m == Devices!Least(k, Cardinality(Own(i)))
<1>3. m \in Nat /\ m <= Cardinality(Own(i)) /\ m <= k /\ (m # k => m = Cardinality(Own(i)))
  BY <1>2 DEF Devices!Least
<1>4. Devices!Best(i, k) = Devices!ToSet(Devices!Top(Own(i), m))
  BY RowsCounted DEF Devices!Best, Own
<1> HIDE DEF m
<1>5. Devices!Best(i, k) = {r \in Own(i) : Devices!Rank(r, Own(i)) < m}
  BY <1>1, <1>3, <1>4, TopRanks
<1>6. \A r \in Own(i) : Devices!Rank(r, Own(i)) < m <=> Devices!Rank(r, Own(i)) < k
  BY <1>1, <1>2, <1>3, RanksGrow
<1>7. QED BY <1>5, <1>6

\* The shards that serve hold every row.
Complete == shards # {} => \E b \in 1..NBuilds : shards = {h \in Devices!Shards : h[1] = b}

\* Every row lies in the shard of the device that it was dealt to, and in no other.
LEMMA RowsAreDealt ==
  ASSUME Complete, shards # {}, NEW r \in Devices!Rows
  PROVE  \E h \in shards : r \in Own(h[2])
<1>1. PICK b \in 1..NBuilds : shards = {h \in Devices!Shards : h[1] = b}
  BY DEF Complete
<1>2. NDevices \in Nat \ {0}
  BY <1>1, RowsKnown DEF Devices!Shards, Devices!Providers
<1>3. r \in Nat /\ r < NRows
  BY RowsKnown DEF Devices!Rows
<1>4. r % NDevices \in 0..(NDevices - 1) /\ r % NDevices <= r
  BY <1>2, <1>3
<1>5. <<b, r % NDevices>> \in Devices!Shards
  BY <1>3, <1>4, RowsKnown DEF Devices!Shards, Devices!Providers
<1>6. QED BY <1>1, <1>5 DEF Own

\* The merge: a row of the first k is of the first k of its own shard, and all
\* that is before it is there with it.
LEMMA MergeRanks ==
  ASSUME score \in [Devices!Rows -> Int], Complete, shards # {}, NEW k \in 1..NRows
  PROVE  LET top == Devices!Top(UNION {Devices!Best(h[2], k) : h \in shards}, k)
         IN  /\ Len(top) = k
             /\ \A n \in 1..k :
                  top[n] \in Devices!Rows /\ Devices!Rank(top[n], Devices!Rows) = n - 1
<1> DEFINE U == UNION {Devices!Best(h[2], k) : h \in shards}
           T == {r \in Devices!Rows : Devices!Rank(r, Devices!Rows) < k}
<1>1. ASSUME NEW r \in T PROVE r \in U
  <2>1. PICK h \in shards : r \in Own(h[2])
    BY RowsAreDealt
  <2>2. Own(h[2]) \subseteq Devices!Rows
    BY DEF Own
  <2>3. Devices!Rank(r, Own(h[2])) <= Devices!Rank(r, Devices!Rows)
    <3>1. {q \in Own(h[2]) : Devices!Before(q, r)}
            \subseteq {q \in Devices!Rows : Devices!Before(q, r)}
      BY <2>2
    <3>2. IsFiniteSet({q \in Devices!Rows : Devices!Before(q, r)})
      BY RowsAreFinite
    <3>3. QED BY RowsCounted, <3>1, <3>2, FS_Subset DEF Devices!Rank
  <2>4. Devices!Rank(r, Own(h[2])) \in Nat /\ Devices!Rank(r, Devices!Rows) \in Nat
    BY <2>1, <2>2, RanksGrow
  <2>5. r \in Devices!Best(h[2], k)
    BY <2>1, <2>3, <2>4, BestRanks
  <2>6. QED BY <2>5
<1>2. U \subseteq Devices!Rows
  <2>1. k \in Nat
    BY RowsKnown
  <2>2. \A i : Devices!Best(i, k) \subseteq Own(i) /\ Own(i) \subseteq Devices!Rows
    BY <2>1, BestRanks DEF Own
  <2>3. QED BY <2>2
<1>3. ASSUME NEW r \in T PROVE Devices!Rank(r, U) = Devices!Rank(r, Devices!Rows)
  <2>1. ASSUME NEW q \in Devices!Rows, Devices!Before(q, r) PROVE q \in U
    <3>1. /\ Devices!Rank(q, Devices!Rows) < Devices!Rank(r, Devices!Rows)
          /\ Devices!Rank(q, Devices!Rows) \in Nat /\ Devices!Rank(r, Devices!Rows) \in Nat
      BY <2>1, RanksGrow
    <3>2. QED BY <1>1, <2>1, <3>1
  <2>2. {q \in U : Devices!Before(q, r)} = {q \in Devices!Rows : Devices!Before(q, r)}
    BY <1>2, <2>1
  <2>3. QED BY RowsCounted, <2>2 DEF Devices!Rank
<1>4. ASSUME NEW n \in 1..k
      PROVE  \E r \in T :
               Devices!Rank(r, Devices!Rows) = n - 1 /\ r \in U /\ Devices!Rank(r, U) = n - 1
  <2>1. n \in 1..Cardinality(Devices!Rows)
    BY RowsKnown, RowsAreFinite
  <2>2. PICK r \in Devices!Rows : Devices!Rank(r, Devices!Rows) = n - 1
    BY <2>1, RanksAreTaken
  <2>3. r \in T
    BY <2>2
  <2>4. QED BY <1>1, <1>3, <2>2, <2>3
<1>5. k <= Cardinality(U)
  <2>1. PICK r \in T : r \in U /\ Devices!Rank(r, U) = k - 1
    <3>1. k \in 1..k
      BY RowsKnown
    <3>2. QED BY <1>4, <3>1
  <2>2. Devices!Rank(r, U) < Cardinality(U) /\ Cardinality(U) \in Nat
    BY <1>2, <2>1, RanksGrow, RowsAreFinite
  <2>3. QED BY <2>1, <2>2
<1> HIDE DEF U
<1>6. /\ Len(Devices!Top(U, k)) = k
      /\ \A n \in 1..k :
           Devices!Top(U, k)[n] \in U /\ Devices!Rank(Devices!Top(U, k)[n], U) = n - 1
  BY <1>2, <1>5, TopRanks
<1>7. ASSUME NEW n \in 1..k
      PROVE  /\ Devices!Top(U, k)[n] \in Devices!Rows
             /\ Devices!Rank(Devices!Top(U, k)[n], Devices!Rows) = n - 1
  <2>1. PICK r \in T :
          Devices!Rank(r, Devices!Rows) = n - 1 /\ r \in U /\ Devices!Rank(r, U) = n - 1
    BY <1>4
  <2>2. Devices!Top(U, k)[n] = r
    BY <1>2, <1>6, <2>1, RanksGrow
  <2>3. QED BY <2>1, <2>2
<1>8. QED BY <1>6, <1>7 DEF U

\* GlobalRanking
RankingInv ==
  /\ Complete /\ build \in 0..NBuilds
  /\ score \in [Devices!Rows -> Int]
  /\ Devices!GlobalRanking

\* Nothing was ranked as the index begins.
LEMMA RankingBegins == Devices!Init => RankingInv
BY RowsKnown DEF Devices!Init, RankingInv, Complete, Devices!GlobalRanking

\* A rebuild has all the shards or none, so that what is searched is the whole matrix.
LEMMA RankingKeeps ==
  ASSUME RankingInv, [Devices!Next]_(Devices!vars)
  PROVE  RankingInv'
<1>1. CASE UNCHANGED <<shards, score, reply, build>>
  BY <1>1 DEF RankingInv, Complete, Devices!GlobalRanking
<1>2. CASE Devices!BuildBlocked \/ Devices!BuildFails
  <2>1. UNCHANGED <<shards, score, reply>> /\ build' \in 0..NBuilds
    BY <1>2, RowsKnown DEF Devices!BuildBlocked, Devices!BuildFails, Devices!Refused, RankingInv
  <2>2. QED BY <2>1 DEF RankingInv, Complete, Devices!GlobalRanking
<1>3. CASE Devices!Built
  <2>1. /\ build' \in 1..NBuilds /\ shards' = {h \in Devices!Shards : h[1] = build'}
        /\ score' \in [Devices!Rows -> Scores] /\ reply' = <<>>
    BY <1>3, RowsKnown DEF Devices!Built, RankingInv
  <2>2. score' \in [Devices!Rows -> Int]
    BY <2>1, RowsKnown
  <2>3. QED BY <2>1, <2>2 DEF RankingInv, Complete, Devices!GlobalRanking
<1>4. ASSUME NEW k \in 1..NRows, Devices!Search(k) PROVE RankingInv'
  <2> DEFINE top == Devices!Top(UNION {Devices!Best(h[2], k) : h \in shards}, k)
  <2>1. /\ shards # {} /\ UNCHANGED <<shards, score, build>>
        /\ reply' = [score |-> score, k |-> k, rows |-> top]
    BY <1>4 DEF Devices!Search
  <2>2. /\ Len(top) = k
        /\ \A n \in 1..k :
             top[n] \in Devices!Rows /\ Devices!Rank(top[n], Devices!Rows) = n - 1
    BY <2>1, MergeRanks DEF RankingInv
  <2> HIDE DEF top
  <2>3. Devices!GlobalRanking'
    BY RowsCounted, <2>1, <2>2 DEF Devices!GlobalRanking, Devices!Rank, Devices!Before
  <2>4. QED BY <2>1, <2>3 DEF RankingInv, Complete
<1>5. CASE Devices!Close
  BY <1>5 DEF Devices!Close, RankingInv, Complete, Devices!GlobalRanking
<1>6. QED BY <1>1, <1>2, <1>3, <1>4, <1>5 DEF Devices!Next, Devices!vars

\* multidevice.py: a search over the shards ranks as one over the whole matrix.
LEMMA RankingIsGlobal == Devices!Spec => []Devices!GlobalRanking
<1>1. RankingInv => Devices!GlobalRanking
  BY DEF RankingInv
<1>2. QED BY RankingBegins, RankingKeeps, <1>1, PTL DEF Devices!Spec
-----------------------------------------------------------------------------
(* The scheduler of explicit profiles                                      *)

\* The component counts as the library does.
LEMMA RequestsCounted == ASSUME NEW S PROVE Scheduler!Cardinality(S) = Cardinality(S)
BY DEF Scheduler!Cardinality, Cardinality

\* An encoder that runs and that nobody uses has no answer in its pipe; one that is
\* used has at most the answer of the request that uses it.
PipesInv ==
  /\ encoder \in [Profiles -> [up : BOOLEAN, by : Scheduler!Requests \cup {Nil},
     pipe : Seq(Scheduler!Requests)]]
  /\ \A p \in Profiles :
       /\ encoder[p].up /\ encoder[p].by = Nil => encoder[p].pipe = << >>
       /\ encoder[p].by # Nil => encoder[p].pipe \in {<< >>, <<encoder[p].by>>}
  /\ \A r \in Scheduler!Requests : step[r] = "receive" => encoder[profile[r]].by = r

\* A request that is searched for was routed, and is answered with its own vectors.
RoutesInv ==
  /\ step \in [Scheduler!Requests -> Scheduler!Running \cup Scheduler!Over \cup {"new", "queued"}]
  /\ profile \in [Scheduler!Requests -> Profiles \cup {Nil}]
  /\ \A r \in Scheduler!Requests : step[r] \in Scheduler!Running => profile[r] \in Profiles
  /\ answer \in [Scheduler!Requests -> Scheduler!Requests \cup {Nil, Sparse}]
  /\ \A r \in Scheduler!Requests : answer[r] \in {Nil, r, Sparse}
  /\ \A r \in Scheduler!Requests : step[r] = "queued" => r \in Submitted

\* Readers are closed when nobody is in a search; nothing waits for a pool that is shut.
PhasesInv ==
  /\ phase \in {"open", "shutdown", "idle", "closed"}
  /\ readers \subseteq Profiles
  /\ phase # "closed" => readers = Profiles
  /\ phase = "closed" => \A r \in Scheduler!Requests : step[r] \notin Scheduler!Running
  /\ phase \in {"idle", "closed"} => \A r \in Scheduler!Requests : step[r] # "queued"

\* The requests that hold a slot.
Holding(st) == {r \in Submitted : st[r] \in Scheduler!Running \cup {"queued"}}

SlotsInv == slots \in Nat /\ slots + Cardinality(Holding(step)) = Slots

SchedulerInv == PipesInv /\ RoutesInv /\ PhasesInv /\ SlotsInv

-----------------------------------------------------------------------------
\* Slots

\* The requests that hold a slot can be counted.
LEMMA HoldingFinite ==
  ASSUME NEW st
  PROVE  IsFiniteSet(Holding(st)) /\ Cardinality(Holding(st)) \in Nat
<1>1. Holding(st) \subseteq Submitted
  BY DEF Holding
<1>2. QED BY <1>1, RequestsKnown, FS_Subset, FS_CardinalityType

\* Who is admitted takes one slot.
LEMMA SlotTaken ==
  ASSUME SlotsInv, NEW r \in Submitted, r \notin Holding(step),
         Holding(step') = Holding(step) \cup {r}, slots # 0, slots' = slots - 1
  PROVE  SlotsInv'
<1>1. Cardinality(Holding(step')) = Cardinality(Holding(step)) + 1
  BY HoldingFinite, FS_AddElement
<1>2. Cardinality(Holding(step)) \in Nat
  BY HoldingFinite
<1>3. QED BY <1>1, <1>2 DEF SlotsInv

\* Who is through gives one slot back.
LEMMA SlotGivenBack ==
  ASSUME SlotsInv, NEW r \in Submitted, r \in Holding(step),
         Holding(step') = Holding(step) \ {r}, slots' = slots + 1
  PROVE  SlotsInv'
<1>1. Cardinality(Holding(step')) = Cardinality(Holding(step)) - 1
  BY HoldingFinite, FS_RemoveElement
<1>2. Cardinality(Holding(step)) \in Nat
  BY HoldingFinite
<1>3. QED BY <1>1, <1>2 DEF SlotsInv

\* Between, the slots stay.
LEMMA SlotsStay ==
  ASSUME SlotsInv, Holding(step') = Holding(step), slots' = slots
  PROVE  SlotsInv'
BY DEF SlotsInv

\* One request goes on to another step.
LEMMA SlotOf ==
  ASSUME SlotsInv, RoutesInv, NEW r \in Scheduler!Requests, NEW s, Scheduler!Goto(r, s),
         slots' = slots,
         r \in Submitted
           => (step[r] \in Scheduler!Running \cup {"queued"} <=> s \in Scheduler!Running
             \cup {"queued"})
  PROVE  SlotsInv'
<1>1. Holding(step') = Holding(step)
  BY DEF Scheduler!Goto, Holding, RoutesInv
<1>2. QED BY <1>1, SlotsStay

-----------------------------------------------------------------------------
\* Steps

Encoders == [up : BOOLEAN, by : Scheduler!Requests \cup {Nil}, pipe : Seq(Scheduler!Requests)]
Sound(e) ==
  /\ e.up /\ e.by = Nil => e.pipe = << >>
  /\ e.by # Nil => e.pipe \in {<< >>, <<e.by>>}

\* The fields of an encoder that changes.
LEMMA EncoderField ==
  ASSUME NEW e \in Encoders, NEW b, NEW q
  PROVE  /\ [e EXCEPT !.up = b] = [up |-> b, by |-> e.by, pipe |-> e.pipe]
         /\ [e EXCEPT !.by = q] = [up |-> e.up, by |-> q, pipe |-> e.pipe]
         /\ [e EXCEPT !.pipe = q] = [up |-> e.up, by |-> e.by, pipe |-> q]
BY DEF Encoders

\* An encoder changed in its fields is an encoder.
LEMMA EncoderFields ==
  ASSUME NEW e \in Encoders, NEW b, NEW q
  PROVE  /\ [e EXCEPT !.by = Nil, !.up = b] = [up |-> b, by |-> Nil, pipe |-> e.pipe]
         /\ [e EXCEPT !.by = Nil, !.pipe = q] = [up |-> e.up, by |-> Nil, pipe |-> q]
<1> PICK f : f = [e EXCEPT !.by = Nil]
  OBVIOUS
<1>1. f = [up |-> e.up, by |-> Nil, pipe |-> e.pipe]
  BY EncoderField
<1>2. f \in Encoders /\ f.up = e.up /\ f.by = Nil /\ f.pipe = e.pipe
  BY <1>1 DEF Encoders
<1>3. /\ [f EXCEPT !.up = b] = [up |-> b, by |-> Nil, pipe |-> e.pipe]
      /\ [f EXCEPT !.pipe = q] = [up |-> e.up, by |-> Nil, pipe |-> q]
  <2>1. /\ [f EXCEPT !.up = b] = [up |-> b, by |-> f.by, pipe |-> f.pipe]
        /\ [f EXCEPT !.pipe = q] = [up |-> f.up, by |-> f.by, pipe |-> q]
    BY <1>2, EncoderField, Zenon
  <2>2. QED BY <1>2, <2>1, Zenon
<1>4. /\ [e EXCEPT !.by = Nil, !.up = b] = [f EXCEPT !.up = b]
      /\ [e EXCEPT !.by = Nil, !.pipe = q] = [f EXCEPT !.pipe = q]
  OBVIOUS
<1>5. QED BY <1>3, <1>4, Zenon

\* One encoder changes, and with it the request that uses it.
LEMMA EncoderChanges ==
  ASSUME PipesInv, NEW p \in Profiles, NEW e \in Encoders, Sound(e),
         encoder' = [encoder EXCEPT ![p] = e],
         \A r \in Scheduler!Requests : step'[r] = "receive" =>
           \/ profile'[r] = p /\ e.by = r
           \/ profile'[r] # p /\ step[r] = "receive" /\ profile'[r] = profile[r]
  PROVE  PipesInv'
<1>1. encoder' \in [Profiles -> Encoders]
  BY DEF PipesInv, Encoders
<1>2. \A q \in Profiles : Sound(encoder'[q])
  BY DEF PipesInv, Sound
<1>3. \A r \in Scheduler!Requests : step'[r] = "receive" => encoder'[profile'[r]].by = r
  BY DEF PipesInv
<1>4. QED BY <1>1, <1>2, <1>3 DEF PipesInv, Encoders, Sound

\* An encoder keeps its user.
LEMMA EncoderKeepsUser ==
  ASSUME PipesInv, RoutesInv, NEW p \in Profiles, NEW e \in Encoders, Sound(e),
         e.by = encoder[p].by, encoder' = [encoder EXCEPT ![p] = e], UNCHANGED <<step, profile>>
  PROVE  PipesInv'
<1>1. \A r \in Scheduler!Requests : step'[r] = "receive" =>
           \/ profile'[r] = p /\ e.by = r
           \/ profile'[r] # p /\ step[r] = "receive" /\ profile'[r] = profile[r]
  BY DEF PipesInv
<1>2. QED BY <1>1, EncoderChanges

\* As the scheduler begins.
LEMMA SchedulerBegins == Scheduler!Init => SchedulerInv
<1> SUFFICES ASSUME Scheduler!Init PROVE SchedulerInv
  OBVIOUS
<1>1. PipesInv /\ RoutesInv /\ PhasesInv
  BY DEF Scheduler!Init, PipesInv, RoutesInv, PhasesInv, Scheduler!Running
<1>2. Holding(step) = {}
  BY DEF Scheduler!Init, Holding, Scheduler!Running, Scheduler!Requests
<1>3. SlotsInv
  <2>1. Cardinality(Holding(step)) = 0 /\ slots = Slots
    BY <1>2, FS_EmptySet DEF Scheduler!Init
  <2>2. QED BY <2>1, RequestsKnown DEF SlotsInv
<1>4. QED BY <1>1, <1>3 DEF SchedulerInv

\* scheduler.py: what submit and search do before the encoder keeps the invariant.
LEMMA AdmissionKeeps ==
  ASSUME SchedulerInv, NEW r \in Scheduler!Requests,
         Scheduler!Submit(r) \/ Scheduler!Call(r) \/ Scheduler!Start(r)
  PROVE  SchedulerInv'
<1> USE DEF SchedulerInv
<1>1. CASE Scheduler!Submit(r)
  <2>1. CASE slots = 0 \/ phase \in {"idle", "closed"}
    <3>1. Scheduler!Goto(r, "refused") /\ step[r] = "new" /\ UNCHANGED <<slots, profile, answer,
            encoder, phase, readers>>
      BY <1>1, <2>1 DEF Scheduler!Submit
    <3>2. SlotsInv'
      BY <3>1, SlotOf DEF Scheduler!Running
    <3>3. QED BY <3>1, <3>2
                  DEF Scheduler!Goto, PipesInv, RoutesInv, PhasesInv, Scheduler!Running,
                  Scheduler!Over
  <2>2. CASE ~(slots = 0 \/ phase \in {"idle", "closed"})
    <3>1. /\ Scheduler!Goto(r, "queued") /\ step[r] = "new"
          /\ slots' = slots - 1 /\ r \in Submitted
          /\ UNCHANGED <<profile, answer, encoder, phase, readers>>
      BY <1>1, <2>2 DEF Scheduler!Submit
    <3>2. r \notin Holding(step) /\ Holding(step') = Holding(step) \cup {r}
      BY <3>1 DEF Scheduler!Goto, Holding, Scheduler!Running, RoutesInv, Scheduler!Requests
    <3>3. SlotsInv'
      BY <2>2, <3>1, <3>2, SlotTaken
    <3>4. QED BY <2>2, <3>1, <3>3
                  DEF Scheduler!Goto, PipesInv, RoutesInv, PhasesInv, Scheduler!Running,
                  Scheduler!Over
  <2>3. QED BY <2>1, <2>2
<1>2. ASSUME Scheduler!Admit(r), step[r] \in {"new", "queued"}, UNCHANGED <<answer, encoder,
             phase, readers>>
      PROVE  PipesInv' /\ RoutesInv' /\ PhasesInv'
  <2>1. /\ step' = [step EXCEPT ![r] = step'[r]] /\ profile' = [profile EXCEPT ![r] = profile'[r]]
        /\ \/ phase = "open" /\ step'[r] = "encode" /\ profile'[r] \in Profiles
           \/ phase # "open" /\ step'[r] = "failed" /\ profile' = profile
    BY <1>2 DEF Scheduler!Admit, Scheduler!Goto, RoutesInv
  <2>2. QED BY <1>2, <2>1 DEF PipesInv, RoutesInv, PhasesInv, Scheduler!Running, Scheduler!Over
<1>3. CASE Scheduler!Call(r)
  <2>1. /\ Scheduler!Admit(r) /\ step[r] = "new" /\ r \in Direct
        /\ UNCHANGED <<answer, slots, encoder, phase, readers>>
    BY <1>3 DEF Scheduler!Call
  <2>2. r \notin Submitted
    BY <2>1, RequestsKnown
  <2>3. Scheduler!Goto(r, "failed") \/ Scheduler!Goto(r, "encode")
    BY <2>1 DEF Scheduler!Admit
  <2>4. SlotsInv'
    BY <2>1, <2>2, <2>3, SlotOf
  <2>5. QED BY <1>2, <2>1, <2>4
<1>4. CASE Scheduler!Start(r)
  <2>1. /\ Scheduler!Admit(r) /\ step[r] = "queued"
           /\ slots' = IF phase = "open" THEN slots ELSE slots + 1
        /\ UNCHANGED <<answer, encoder, phase, readers>> /\ r \in Submitted
    BY <1>4 DEF Scheduler!Start, RoutesInv
  <2>2. CASE phase = "open"
    <3>1. Scheduler!Goto(r, "encode") /\ slots' = slots
      BY <2>1, <2>2 DEF Scheduler!Admit
    <3>2. SlotsInv'
      BY <2>1, <3>1, SlotOf DEF Scheduler!Running
    <3>3. QED BY <1>2, <2>1, <3>2
  <2>3. CASE phase # "open"
    <3>1. Scheduler!Goto(r, "failed") /\ slots' = slots + 1
      BY <2>1, <2>3 DEF Scheduler!Admit
    <3>2. r \in Holding(step) /\ Holding(step') = Holding(step) \ {r}
      BY <2>1, <3>1 DEF Scheduler!Goto, Holding, Scheduler!Running, RoutesInv, Scheduler!Requests
    <3>3. SlotsInv'
      BY <2>1, <3>1, <3>2, SlotGivenBack
    <3>4. QED BY <1>2, <2>1, <3>3
  <2>4. QED BY <2>2, <2>3
<1>5. QED BY <1>1, <1>3, <1>4

\* A step of a search before its end.
LEMMA SearchKeeps ==
  ASSUME SchedulerInv, NEW r \in Scheduler!Requests,
         Scheduler!Encode(r) \/ Scheduler!Receive(r) \/ Scheduler!Timeout(r)
           \/ Scheduler!EndOfPipe(r)
                                           \/ Scheduler!ScoreFails(r)
  PROVE  SchedulerInv'
<1> USE DEF SchedulerInv
<1> DEFINE p == profile[r]
<1>1. p \in Profiles /\ step[r] \in Scheduler!Running
  BY DEF Scheduler!Encode, Scheduler!Receive, Scheduler!Timeout, Scheduler!EndOfPipe,
    Scheduler!ScoreFails, RoutesInv, Scheduler!Running
<1>2. \E s \in Scheduler!Running : Scheduler!Goto(r, s)
  BY DEF Scheduler!Encode, Scheduler!Receive, Scheduler!Timeout, Scheduler!EndOfPipe,
    Scheduler!ScoreFails, Scheduler!Running
<1>3. slots' = slots /\ UNCHANGED <<profile, phase, readers>>
  BY DEF Scheduler!Encode, Scheduler!Receive, Scheduler!Timeout, Scheduler!EndOfPipe,
    Scheduler!ScoreFails
<1>4. SlotsInv'
  BY <1>1, <1>2, <1>3, SlotOf
<1>5. PhasesInv'
  BY <1>1, <1>2, <1>3 DEF Scheduler!Goto, PhasesInv, RoutesInv, Scheduler!Running
<1>6. answer' \in [Scheduler!Requests -> Scheduler!Requests \cup {Nil,
        Sparse}] /\ \A q \in Scheduler!Requests : answer'[q] \in {Nil, q, Sparse}
  <2>1. CASE Scheduler!Receive(r)
    <3>1. /\ encoder[p].by = r /\ encoder[p].pipe # << >>
             /\ answer' = [answer EXCEPT ![r] = Head(encoder[p].pipe)]
      BY <2>1 DEF Scheduler!Receive, Scheduler!Of, PipesInv
    <3>2. Head(encoder[p].pipe) = r
      BY <1>1, <3>1, RequestsKnown DEF PipesInv
    <3>3. QED BY <3>1, <3>2 DEF RoutesInv
  <2>2. CASE ~Scheduler!Receive(r)
    <3>1. answer' = answer
      BY <2>2 DEF Scheduler!Encode, Scheduler!Timeout, Scheduler!EndOfPipe, Scheduler!ScoreFails
    <3>2. QED BY <3>1 DEF RoutesInv
  <2>3. QED BY <2>1, <2>2
<1>7. RoutesInv'
  BY <1>1, <1>2, <1>3, <1>6 DEF Scheduler!Goto, RoutesInv, Scheduler!Running
<1>8. PipesInv'
  <2>1. CASE Scheduler!ScoreFails(r)
    BY <2>1 DEF Scheduler!ScoreFails, Scheduler!Goto, PipesInv, RoutesInv
  <2>2. CASE Scheduler!Encode(r) /\ ~encoder[p].up
    BY <2>2 DEF Scheduler!Encode, Scheduler!Of, Scheduler!Goto, PipesInv, RoutesInv
  <2>3. CASE Scheduler!Encode(r) /\ encoder[p].up
    <3>1. /\ encoder[p].by = Nil /\ encoder' = [encoder EXCEPT ![p].by = r]
          /\ Scheduler!Goto(r, "receive")
          /\ profile' = profile
      BY <2>3 DEF Scheduler!Encode, Scheduler!Of
    <3>2. encoder[p].pipe = << >>
      BY <1>1, <2>3, <3>1 DEF PipesInv
    <3> DEFINE e == [encoder[p] EXCEPT !.by = r]
    <3>3. encoder[p] \in Encoders
      BY <1>1 DEF PipesInv, Encoders
    <3>4. e \in Encoders /\ Sound(e) /\ e.by = r /\ encoder' = [encoder EXCEPT ![p] = e]
      BY <1>1, <3>1, <3>2, <3>3, RequestsKnown DEF Encoders, Sound
    <3>5. \A q \in Scheduler!Requests : step'[q] = "receive" =>
             q = r \/ (step[q] = "receive" /\ profile[q] # p)
      BY <3>1, RequestsKnown DEF Scheduler!Goto, PipesInv, RoutesInv
    <3> HIDE DEF e, p
    <3>6. QED BY <1>1, <3>1, <3>4, <3>5, EncoderChanges DEF p
  <2>4. CASE Scheduler!Receive(r) \/ Scheduler!Timeout(r) \/ Scheduler!EndOfPipe(r)
    <3>1. /\ step[r] = "receive" /\ encoder[p].by = r
          /\ \E s \in {"score", "raised"} : Scheduler!Goto(r, s)
          /\ profile' = profile
      BY <2>4 DEF Scheduler!Receive, Scheduler!Timeout, Scheduler!EndOfPipe, Scheduler!Of,
        PipesInv
    <3>2. encoder[p] \in Encoders /\ encoder[p].pipe \in {<< >>, <<r>>}
      BY <1>1, <3>1, RequestsKnown DEF PipesInv, Encoders
    <3>3. PICK e \in Encoders : e.by = Nil /\ Sound(e) /\ encoder' = [encoder EXCEPT ![p] = e]
      <4>1. CASE Scheduler!Receive(r)
        <5> DEFINE e == [up |-> encoder[p].up, by |-> Nil, pipe |-> << >>]
        <5>1. encoder' = [encoder EXCEPT ![p] =
                 [encoder[p] EXCEPT !.by = Nil, !.pipe = Tail(encoder[p].pipe)]]
          BY <4>1 DEF Scheduler!Receive
        <5>2. encoder[p].pipe = <<r>>
          BY <3>2, <4>1 DEF Scheduler!Receive, Scheduler!Of
        <5>3. Tail(encoder[p].pipe) = << >>
          BY <5>2
        <5> PICK q : q = << >>
          OBVIOUS
        <5>4. encoder' = [encoder EXCEPT ![p] = [encoder[p] EXCEPT !.by = Nil, !.pipe = q]]
          BY <5>1, <5>3, Zenon
        <5>5. [encoder[p] EXCEPT !.by = Nil, !.pipe = q] = e
          BY <3>2, EncoderFields, Zenon
        <5>6. encoder' = [encoder EXCEPT ![p] = e]
          BY <5>4, <5>5, Zenon
        <5>7. e \in Encoders /\ Sound(e) /\ e.by = Nil
          BY <3>2 DEF Encoders, Sound
        <5>8. QED BY <5>6, <5>7
      <4>2. CASE Scheduler!Timeout(r)
        <5> DEFINE e == [up |-> FALSE, by |-> Nil, pipe |-> encoder[p].pipe]
        <5>1. encoder' = [encoder EXCEPT ![p] = [encoder[p] EXCEPT !.by = Nil, !.up = FALSE]]
          BY <4>2 DEF Scheduler!Timeout, Scheduler!Expired
        <5>2. encoder' = [encoder EXCEPT ![p] = e]
          BY <3>2, <5>1, EncoderFields, Zenon
        <5>3. e \in Encoders /\ Sound(e) /\ e.by = Nil
          BY <3>2 DEF Encoders, Sound
        <5>4. QED BY <5>2, <5>3
      <4>3. CASE Scheduler!EndOfPipe(r)
        <5> DEFINE e == [up |-> encoder[p].up, by |-> Nil, pipe |-> encoder[p].pipe]
        <5>1. encoder' = [encoder EXCEPT ![p] = [encoder[p] EXCEPT !.by = Nil]]
              /\ encoder[p].pipe = << >>
          BY <3>2, <4>3 DEF Scheduler!EndOfPipe, Scheduler!Of, Encoders
        <5>2. encoder' = [encoder EXCEPT ![p] = e]
          BY <3>2, <5>1, EncoderField, Zenon
        <5>3. e \in Encoders /\ Sound(e) /\ e.by = Nil
          BY <3>2, <5>1 DEF Encoders, Sound
        <5>4. QED BY <5>2, <5>3
      <4>4. QED BY <2>4, <4>1, <4>2, <4>3
    <3>4. \A q \in Scheduler!Requests : step'[q] = "receive"
            => step[q] = "receive" /\ profile[q] # p
      BY <3>1, RequestsKnown DEF Scheduler!Goto, PipesInv, RoutesInv
    <3> HIDE DEF p
    <3>5. QED BY <1>1, <3>1, <3>3, <3>4, EncoderChanges DEF p
  <2>5. QED BY <2>1, <2>2, <2>3, <2>4
<1>9. QED BY <1>4, <1>5, <1>7, <1>8

\* The end of a search.
LEMMA FinishKeeps ==
  ASSUME SchedulerInv, NEW r \in Scheduler!Requests, Scheduler!Score(r) \/ Scheduler!Raised(r)
  PROVE  SchedulerInv'
<1> USE DEF SchedulerInv
<1>1. PICK s \in {"done", "failed"}, of \in {answer[r], Sparse, Nil} : Scheduler!Finish(r, s, of)
  BY DEF Scheduler!Score, Scheduler!Raised
<1>2. step[r] \in {"score", "raised"}
  BY DEF Scheduler!Score, Scheduler!Raised
<1>3. SlotsInv'
  <2>1. CASE r \in Submitted
    <3>1. r \in Holding(step) /\ Holding(step') = Holding(step) \ {r}
      BY <1>1, <1>2, <2>1
          DEF Scheduler!Finish, Scheduler!Goto, Holding, Scheduler!Running, RoutesInv,
          Scheduler!Requests
    <3>2. QED BY <1>1, <2>1, <3>1, SlotGivenBack DEF Scheduler!Finish
  <2>2. CASE r \notin Submitted
    BY <1>1, <2>2, SlotOf DEF Scheduler!Finish
  <2>3. QED BY <2>1, <2>2
<1>4. /\ UNCHANGED <<profile, encoder, phase, readers>>
      /\ Scheduler!Goto(r, s) /\ answer' = [answer EXCEPT ![r] = of]
  BY <1>1 DEF Scheduler!Finish
<1>5. RoutesInv'
  BY <1>1, <1>2, <1>4 DEF Scheduler!Goto, RoutesInv, Scheduler!Running, Scheduler!Over
<1>6. PipesInv' /\ PhasesInv'
  BY <1>1, <1>2, <1>4 DEF Scheduler!Goto, PipesInv, PhasesInv, RoutesInv, Scheduler!Running
<1>7. QED BY <1>3, <1>5, <1>6

\* The worker answers, or dies.
LEMMA WorkerKeeps ==
  ASSUME SchedulerInv, NEW p \in Profiles, Scheduler!Serve(p) \/ Scheduler!Dies(p)
  PROVE  SchedulerInv'
<1> USE DEF SchedulerInv
<1>1. UNCHANGED <<step, profile, answer, slots, phase, readers>>
  BY DEF Scheduler!Serve, Scheduler!Dies
<1>2. encoder[p] \in Encoders /\ Sound(encoder[p])
  BY DEF PipesInv, Encoders, Sound
<1>3. PICK e \in Encoders : e.by = encoder[p].by /\ Sound(e)
        /\ encoder' = [encoder EXCEPT ![p] = e]
  <2>1. CASE Scheduler!Dies(p)
    <3> DEFINE e == [up |-> FALSE, by |-> encoder[p].by, pipe |-> encoder[p].pipe]
    <3>1. encoder' = [encoder EXCEPT ![p] = e]
      <4>1. encoder' = [encoder EXCEPT ![p] = [encoder[p] EXCEPT !.up = FALSE]]
        BY <2>1 DEF Scheduler!Dies
      <4>2. QED BY <1>2, <4>1, EncoderField, Zenon
    <3>2. e \in Encoders /\ Sound(e)
      BY <1>2 DEF Encoders, Sound
    <3>3. QED BY <3>1, <3>2
  <2>2. CASE Scheduler!Serve(p)
    <3> DEFINE e == [up |-> encoder[p].up, by |-> encoder[p].by, pipe |-> <<encoder[p].by>>]
    <3>1. encoder[p].by # Nil /\ encoder[p].pipe = << >>
      BY <2>2 DEF Scheduler!Serve, PipesInv
    <3>2. Append(encoder[p].pipe,
            encoder[p].by) = <<encoder[p].by>> /\ encoder[p].by \in Scheduler!Requests
      BY <1>2, <3>1 DEF Encoders
    <3>3. encoder' = [encoder EXCEPT ![p] = e]
      <4>1. encoder' = [encoder EXCEPT ![p] = [encoder[p] EXCEPT !.pipe = <<encoder[p].by>>]]
        BY <2>2, <3>2 DEF Scheduler!Serve
      <4>2. QED BY <1>2, <4>1, EncoderField, Zenon
    <3>4. e \in Encoders /\ Sound(e)
      BY <1>2, <3>1, <3>2 DEF Encoders, Sound
    <3>5. QED BY <3>3, <3>4
  <2>3. QED BY <2>1, <2>2
<1>4. PipesInv'
  BY <1>1, <1>3, EncoderKeepsUser
<1>5. QED BY <1>1, <1>4 DEF RoutesInv, PhasesInv, SlotsInv

\* scheduler.py: each part of close keeps it.
LEMMA CloseKeeps ==
  ASSUME SchedulerInv, Scheduler!CloseBegins \/ Scheduler!Shutdown \/ Scheduler!CloseEnds
  PROVE  SchedulerInv'
<1> USE DEF SchedulerInv
<1>1. CASE Scheduler!CloseBegins
  BY <1>1 DEF Scheduler!CloseBegins, PipesInv, RoutesInv, PhasesInv, SlotsInv
<1>2. CASE Scheduler!Shutdown
  <2>1. /\ phase = "shutdown" /\ phase' = "idle"
        /\ step' = [r \in Scheduler!Requests |->
                      IF step[r] = "queued" THEN "cancelled" ELSE step[r]]
        /\ slots' = slots + Cardinality(Scheduler!InStep({"queued"}))
        /\ UNCHANGED <<profile, answer, encoder, readers>>
    BY RequestsCounted, <1>2 DEF Scheduler!Shutdown
  <2>2. /\ Scheduler!InStep({"queued"}) \subseteq Holding(step)
        /\ Holding(step') = Holding(step) \ Scheduler!InStep({"queued"})
    BY <2>1 DEF Scheduler!InStep, Holding, RoutesInv, Scheduler!Running, Scheduler!Requests
  <2>3. Cardinality(Holding(step'))
          = Cardinality(Holding(step)) - Cardinality(Scheduler!InStep({"queued"}))
        /\ Cardinality(Scheduler!InStep({"queued"})) \in Nat
    <3>1. IsFiniteSet(Scheduler!InStep({"queued"}))
      BY <2>2, HoldingFinite, FS_Subset
    <3>2. Holding(step) \cap Scheduler!InStep({"queued"}) = Scheduler!InStep({"queued"})
      BY <2>2
    <3>3. Cardinality(Scheduler!InStep({"queued"})) \in Nat
      BY <3>1, FS_CardinalityType
    <3>4. Cardinality(Holding(step')) = Cardinality(Holding(step))
                - Cardinality(Holding(step) \cap Scheduler!InStep({"queued"}))
      BY <2>2, <3>1, HoldingFinite, FS_Difference
    <3>5. QED BY <3>2, <3>3, <3>4
  <2>4. SlotsInv'
    <3>1. Cardinality(Holding(step)) \in Nat /\ Cardinality(Holding(step')) \in Nat
      BY HoldingFinite
    <3>2. QED BY <2>1, <2>3, <3>1 DEF SlotsInv
  <2>5. QED BY <2>1, <2>4 DEF PipesInv, RoutesInv, PhasesInv, Scheduler!Running, Scheduler!Over
<1>3. CASE Scheduler!CloseEnds
  <2>1. /\ encoder' = [p \in Profiles |-> [encoder[p] EXCEPT !.up = FALSE]]
        /\ phase = "idle" /\ phase' = "closed" /\ readers' = {}
        /\ UNCHANGED <<step, profile, answer, slots>>
        /\ \A r \in Scheduler!Requests : step[r] \notin Scheduler!Running
    BY <1>3 DEF Scheduler!CloseEnds, Scheduler!Idle, Scheduler!InStep
  <2>2. PipesInv'
    <3>1. encoder' \in [Profiles -> Encoders]
      BY <2>1 DEF PipesInv, Encoders
    <3>2. \A p \in Profiles : encoder'[p].up = FALSE /\ encoder'[p].by = encoder[p].by
                              /\ encoder'[p].pipe = encoder[p].pipe
      BY <2>1 DEF PipesInv
    <3>3. QED BY <2>1, <3>1, <3>2 DEF PipesInv, Encoders, Scheduler!Running
  <2>3. QED BY <2>1, <2>2 DEF RoutesInv, PhasesInv, SlotsInv
<1>4. QED BY <1>1, <1>2, <1>3

\* Every step of the scheduler keeps it.
LEMMA SchedulerKeeps ==
  ASSUME SchedulerInv, [Scheduler!Next]_(Scheduler!vars)
  PROVE  SchedulerInv'
<1>1. CASE UNCHANGED Scheduler!vars
  BY <1>1 DEF Scheduler!vars, SchedulerInv, PipesInv, RoutesInv, PhasesInv, SlotsInv
<1>2. QED
  BY <1>1, AdmissionKeeps, SearchKeeps, FinishKeeps, WorkerKeeps, CloseKeeps
      DEF Scheduler!Next, Scheduler!Search, Scheduler!Closing

\* scheduler.py, isolated.py: the invariant of the scheduler.
LEMMA SchedulerInvariance == Scheduler!Spec => []SchedulerInv
BY SchedulerBegins, SchedulerKeeps, PTL DEF Scheduler!Spec

\* scheduler.py, isolated.py: a request is ranked with its own vectors, by an open reader.
LEMMA OwnSearches == Scheduler!Spec => [](Scheduler!TypeOK /\ Scheduler!SearchesApart)
<1>1. ASSUME SchedulerInv PROVE Scheduler!TypeOK /\ Scheduler!SearchesApart
  <2>1. (Scheduler!InStep(Scheduler!Running)
          \cup Scheduler!InStep({"queued"})) \cap Submitted = Holding(step)
    BY DEF Scheduler!InStep, Holding, Scheduler!Requests
  <2>2. slots \in 0..Slots
    BY <1>1, HoldingFinite, RequestsKnown DEF SchedulerInv, SlotsInv
  <2>3. Scheduler!InStep(Scheduler!Running) # {} => readers = Profiles
    BY <1>1 DEF SchedulerInv, PhasesInv, Scheduler!InStep
  <2>4. QED
    BY RequestsCounted, <1>1, <2>1, <2>2, <2>3
       DEF SchedulerInv, PipesInv, RoutesInv, PhasesInv, SlotsInv, Scheduler!TypeOK,
       Scheduler!SearchesApart
<1>2. QED BY <1>1, SchedulerInvariance, PTL
-----------------------------------------------------------------------------
(* The calls of one connection                                             *)

\* Between its calls a connection keeps nothing that a call prepared; the future is
\* of the query that is overlapped; and the vectors of a chunk are those of its
\* queries, by position.
ConnectionInv ==
  /\ generation \in (0..LastGeneration)
  /\ call.kind \in {"none", "overlap", "many"}
  /\ call.queries \in Seq(Queries) /\ call = [kind |-> call.kind, queries |-> call.queries]
  /\ call.kind = "none" => call = Connection!Idle
  /\ call.kind # "many" => dense = Nil /\ lexical = Nil /\ chunk = Connection!NoChunk
  /\ call.kind = "overlap" => call.queries = <<future>> /\ future \in Queries
  /\ call.kind # "overlap" => future = Nil
  /\ lexical # Nil => lexical.at = generation
  /\ chunk.queries \in Seq(Queries) /\ chunk.vectors = chunk.queries
  /\ Connection!RankedByOwnQuery

\* What _search ranks by, unless the batch or the future is of another query.
LEMMA RankedByOwn ==
  ASSUME NEW q, NEW batch,
         batch # Nil => batch.of = q /\ batch.ranking = Connection!At(q),
         future \in {Nil, q},
         lexical # Nil => lexical.at = generation
  PROVE  Connection!Ranked(batch, q).dense = Connection!Ranked(batch, q).query
         /\ Connection!Ranked(batch, q).lexical = Connection!Ranked(batch, q).query
BY DEF Connection!Ranked, Connection!DenseOf, Connection!LexicalOf, Connection!At

\* As the connection begins.
LEMMA ConnectionBegins == Connection!Init => ConnectionInv
BY QueriesKnown
    DEF Connection!Init, ConnectionInv, Connection!Idle, Connection!NoChunk,
    Connection!RankedByOwnQuery

\* Every step of a connection keeps it.
LEMMA ConnectionKeeps ==
  ASSUME ConnectionInv, [Connection!Next]_(Connection!vars)
  PROVE  ConnectionInv'
<1> USE QueriesKnown
<1>1. CASE UNCHANGED Connection!vars
  BY <1>1 DEF Connection!vars, ConnectionInv, Connection!RankedByOwnQuery
<1>2. CASE Connection!Replace
  BY <1>2 DEF Connection!Replace, ConnectionInv, Connection!RankedByOwnQuery, Connection!Idle
<1>3. ASSUME NEW q \in Queries, Connection!Search(q)
      PROVE  ConnectionInv'
  <2>1. /\ dense = Nil /\ lexical = Nil /\ future = Nil
        /\ ranked' = Connection!Ranked(dense, q)
        /\ UNCHANGED <<generation, dense, lexical, future, call, chunk>>
    BY <1>3 DEF Connection!Search, ConnectionInv, Connection!Idle
  <2>2. Connection!RankedByOwnQuery'
    BY <2>1, RankedByOwn DEF Connection!RankedByOwnQuery
  <2>3. QED BY <2>1, <2>2 DEF ConnectionInv
<1>4. ASSUME NEW q \in Queries, Connection!Overlap(q)
      PROVE  ConnectionInv'
  BY <1>4 DEF Connection!Overlap, ConnectionInv, Connection!RankedByOwnQuery, Connection!Idle
<1>5. CASE Connection!OverlapEnds
  <2> DEFINE q == Head(call.queries)
  <2>1. /\ dense = Nil /\ lexical = Nil /\ future = q
        /\ ranked' = Connection!Ranked(dense, q) /\ future' = Nil /\ call' = Connection!Idle
        /\ UNCHANGED <<generation, dense, lexical, chunk>> /\ chunk = Connection!NoChunk
    BY <1>5 DEF Connection!OverlapEnds, ConnectionInv, Connection!Idle
  <2> HIDE DEF q
  <2>2. Connection!RankedByOwnQuery'
    BY <2>1, RankedByOwn DEF Connection!RankedByOwnQuery
  <2>3. QED BY <2>1, <2>2 DEF ConnectionInv, Connection!Idle, Connection!NoChunk
<1>6. ASSUME NEW queries \in Connection!Batches, Connection!SearchMany(queries)
      PROVE  ConnectionInv'
  <2>1. queries \in Seq(Queries)
    <3>1. PICK m \in 0..MaxBatch : queries \in [1..m -> Queries]
      BY DEF Connection!Batches, Connection!BoundedSeq, Connection!SeqOf
    <3>2. m \in Nat
      BY <3>1
    <3>3. QED BY <3>1, <3>2
  <2>2. QED BY <1>6, <2>1
                DEF Connection!SearchMany, ConnectionInv, Connection!RankedByOwnQuery,
                Connection!Idle, Connection!NoChunk
<1>7. CASE Connection!Encode
  <2> DEFINE n == IF Len(call.queries) < ChunkSize THEN Len(call.queries) ELSE ChunkSize
             queries == SubSeq(call.queries, 1, n)
  <2>1. PICK few, many : /\ few = queries /\ many = SubSeq(call.queries, n + 1, Len(call.queries))
    OBVIOUS
  <2>2. few \in Seq(Queries) /\ many \in Seq(Queries)
    <3>1. call.queries \in Seq(Queries) /\ Len(call.queries) \in Nat
      BY DEF ConnectionInv
    <3>2. n \in 0..Len(call.queries)
      BY <3>1
    <3> HIDE DEF n
    <3>3. QED BY <2>1, <3>1, <3>2, SubSeqProperties
  <2>3. Connection!VectorsOf(few) = few
    BY <2>2 DEF Connection!VectorsOf
  <2>4. /\ call' = [call EXCEPT !.queries = many]
        /\ chunk' = [queries |-> few, vectors |-> Connection!VectorsOf(few)]
        /\ call.kind = "many" /\ lexical'.at = generation
        /\ UNCHANGED <<generation, dense, future, ranked>>
    BY <1>7, <2>1 DEF Connection!Encode
  <2>5. QED BY <2>2, <2>3, <2>4 DEF ConnectionInv, Connection!RankedByOwnQuery
<1>8. CASE Connection!Row
  <2> DEFINE q == Head(chunk.queries)
             prepared == [of |-> q, ranking |-> Connection!At(Head(chunk.vectors))]
  <2>1. /\ call.kind = "many" /\ future = Nil
        /\ chunk.queries # << >> /\ chunk.vectors = chunk.queries
    BY <1>8 DEF Connection!Row, ConnectionInv, Connection!NoChunk
  <2>2. /\ prepared.of = q /\ prepared.ranking = Connection!At(q)
        /\ ranked' = Connection!Ranked(prepared, q) /\ dense' = prepared
        /\ chunk' = [queries |-> Tail(chunk.queries), vectors |-> Tail(chunk.vectors)]
        /\ UNCHANGED <<generation, cache, lexical, future, call>>
    BY <1>8, <2>1 DEF Connection!Row
  <2> HIDE DEF q, prepared
  <2>3. Connection!RankedByOwnQuery'
    BY <2>1, <2>2, RankedByOwn DEF Connection!RankedByOwnQuery, ConnectionInv
  <2>4. QED BY <2>1, <2>2, <2>3 DEF ConnectionInv
<1>9. CASE Connection!ManyEnds \/ Connection!Fails
  <2>1. /\ call' = Connection!Idle /\ chunk' = Connection!NoChunk /\ dense' = Nil
           /\ lexical' = Nil /\ future' = Nil
        /\ generation' = generation /\ ranked' = ranked
    BY <1>9 DEF Connection!ManyEnds, Connection!Fails, Connection!Release
  <2>2. QED BY <2>1 DEF ConnectionInv, Connection!RankedByOwnQuery, Connection!Idle,
              Connection!NoChunk
<1>10. QED BY <1>1, <1>2, <1>3, <1>4, <1>5, <1>6, <1>7, <1>8, <1>9 DEF Connection!Next

\* retrieval.py: the invariant of a connection.
LEMMA ConnectionInvariance == Connection!Spec => []ConnectionInv
BY ConnectionBegins, ConnectionKeeps, PTL DEF Connection!Spec

\* retrieval.py: what a search answers was ranked by its own query, at one generation.
LEMMA OwnQueries == Connection!Spec => []Connection!RankedByOwnQuery
<1>1. ConnectionInv => Connection!RankedByOwnQuery
  BY DEF ConnectionInv
<1>2. QED BY <1>1, ConnectionInvariance, PTL
-----------------------------------------------------------------------------
(* The worker that measures and serves a model                             *)

\* The component counts as the library does.
LEMMA PairsCounted == ASSUME NEW S PROVE Measuring!Cardinality(S) = Cardinality(S)
BY DEF Measuring!Cardinality, Cardinality

\* The steps of a worker that has loaded its reference, compared it, prepared the
\* artifact, read it, and has found its source unchanged after that.
Serves == {"ready", "asked", "search", "answered"}
Measures == {"measure", "final", "over"} \cup Serves
HasRead == {"loaded"} \cup Measures
HasPrepared == {"load", "read"} \cup HasRead
HasCompared == {"manifest", "prepare"} \cup HasPrepared
WorkerSteps == {"start", "copied", "reference", "compare profile", "failed"} \cup HasCompared

\* The directory only comes to later contents: what was read of it lies between
\* those the task names and those that are there.
ContentsInv ==
  /\ model \in Versions /\ question.model \in Versions /\ question.model <= model
  /\ doing \in WorkerSteps
  /\ {baseline, candidate, made} \subseteq Measuring!Known
  /\ question.kind = "replay" => doing \in {"start", "measure", "final", "over", "failed"}
  /\ question.kind = "model" =>
       /\ doing \in HasCompared => baseline = question.model
       /\ doing \in HasPrepared =>
            made \in Versions /\ question.model <= made /\ made <= model
       /\ doing \in HasRead =>
            candidate \in Versions /\ made <= candidate /\ candidate <= model
  /\ doing \in Serves => question.kind = "model" /\ candidate = question.model

\* What a worker that has not failed has seen, it accepted; the pairs that it
\* compared are numbered.
SeenInv ==
  /\ scope \in ScopeGenerations /\ question.generation \in ScopeGenerations
     /\ writes \in 0..MaxWrites
  /\ question.kind \in {"replay", "model"}
  /\ replica \in ScopeGenerations \cup {Nil}
  /\ question.kind = "model" /\ doing \notin {"start", "failed"} => replica \in ScopeGenerations
  /\ seen \in [Measuring!Sides -> ScopeGenerations \cup {Nil}]
  /\ question.kind = "replay" /\ doing # "failed"
     => \A s \in Measuring!Sides : seen[s] \in {Nil, question.generation}

PairsInv ==
  /\ IsFiniteSet(pairs)
  /\ \A p \in pairs : p.n \in Nat /\ p.n < Cardinality(pairs)
  /\ Cardinality(pairs) <= Repeats
  /\ doing \in WorkerSteps \ ({"final", "over", "failed"} \cup Serves)
     => Cardinality(pairs) < Repeats

ComparedInv ==
  \A p \in pairs :
    /\ consistent => p.of.baseline = p.of.candidate
    /\ question.kind = "replay" /\ doing # "failed" => p.of.candidate = question.generation

\* An edit comes after what was there.
LEMMA EditIsLater ==
  ASSUME NEW m \in Versions, NEW c \in Versions, c <= m
  PROVE  c <= m + 1
BY ModelsKnown

\* Whatever is edited or read, in whatever order, what was read keeps its place.
LEMMA ContentsKeep ==
  ASSUME ContentsInv, [Measuring!Next]_(Measuring!vars)
  PROVE  ContentsInv' /\ question' = question
<1> USE ModelsKnown DEF ContentsInv
<1> USE DEF WorkerSteps, HasCompared, HasPrepared, HasRead, Measures, Serves, Measuring!Known
<1>1. CASE UNCHANGED Measuring!vars
  BY <1>1 DEF Measuring!vars
<1>2. CASE Measuring!Replay \/ Measuring!Backup \/ Measuring!CheckSnapshot
             \/ Measuring!LoadReference
  BY <1>2 DEF Measuring!Replay, Measuring!Backup, Measuring!CheckSnapshot,
    Measuring!LoadReference, Measuring!GoesOn, Measuring!world, Measuring!loaded
<1>3. CASE Measuring!CheckReference
  BY <1>3 DEF Measuring!CheckReference, Measuring!GoesOn, Measuring!world, Measuring!loaded
<1>4. CASE Measuring!CheckManifest \/ Measuring!Prepare \/ Measuring!Verify
  <2>1. CASE Measuring!CheckManifest
    BY <2>1 DEF Measuring!CheckManifest, Measuring!GoesOn, Measuring!world, Measuring!loaded
  <2>2. CASE Measuring!Prepare
    BY <2>2 DEF Measuring!Prepare, Measuring!GoesOn, Measuring!world, Measuring!loaded
  <2>3. CASE Measuring!Verify
    BY <2>3 DEF Measuring!Verify, Measuring!Verified, Measuring!GoesOn, Measuring!world,
      Measuring!loaded
  <2>4. QED BY <1>4, <2>1, <2>2, <2>3
<1>5. CASE Measuring!Load
  BY <1>5 DEF Measuring!Load, Measuring!GoesOn, Measuring!world, Measuring!loaded
<1>6. CASE Measuring!Embed
  BY <1>6 DEF Measuring!Embed, Measuring!Verified, Measuring!GoesOn, Measuring!world,
    Measuring!loaded
<1>7. CASE \E s \in Measuring!Sides : Measuring!Measure(s)
  BY <1>7 DEF Measuring!Measure, Measuring!GoesOn, Measuring!world, Measuring!loaded
<1>8. CASE Measuring!Compare
  BY <1>8 DEF Measuring!Compare, Measuring!GoesOn, Measuring!world, Measuring!loaded
<1>9. CASE Measuring!Report
  BY <1>9 DEF Measuring!Report, Measuring!Unchanged, Measuring!GoesOn, Measuring!world,
    Measuring!loaded
<1>10. CASE Measuring!Ask \/ Measuring!CheckSource \/ Measuring!Search \/ Measuring!Deliver
              \/ Measuring!Fail
  BY <1>10 DEF Measuring!Ask, Measuring!CheckSource, Measuring!Search, Measuring!Deliver,
    Measuring!Fail, Measuring!GoesOn, Measuring!world, Measuring!loaded, Measuring!measured,
      Measuring!serving
<1>11. CASE \E g \in ScopeGenerations : Measuring!Write(g)
  BY <1>11 DEF Measuring!Write, Measuring!loaded
<1>12. CASE Measuring!Edit
  <2>1. /\ model' = model + 1 /\ model' \in Versions
        /\ UNCHANGED <<question, doing, baseline, candidate, made>>
    BY <1>12 DEF Measuring!Edit, Measuring!loaded
  <2>2. model \in Versions /\ question.model \in Versions /\ question.model <= model
    OBVIOUS
  <2>3. \A c \in Versions : c <= model => c <= model'
    BY <2>1, <2>2, EditIsLater
  <2>4. QED BY <2>1, <2>2, <2>3
<1>13. QED BY <1>1, <1>2, <1>3, <1>4, <1>5, <1>6, <1>7, <1>8, <1>9, <1>10, <1>11, <1>12
               DEF Measuring!Next

\* What a worker accepts, and what Compare may find.
LEMMA SeenKeeps ==
  ASSUME ContentsInv, SeenInv, [Measuring!Next]_(Measuring!vars)
  PROVE  SeenInv'
<1> USE DEF SeenInv
<1>1. question' = question /\ doing' \in WorkerSteps
  BY ContentsKeep DEF ContentsInv
<1>2. CASE UNCHANGED <<scope, writes, replica, seen>>
           /\ (doing' \notin {"start", "failed"} => doing \notin {"start", "failed"})
           /\ (doing' # "failed" => doing # "failed")
  BY <1>1, <1>2
<1>3. CASE UNCHANGED Measuring!vars \/ Measuring!CheckSnapshot \/ Measuring!LoadReference
             \/ Measuring!CheckReference \/ Measuring!CheckManifest
           \/ Measuring!Prepare \/ Measuring!Verify \/ Measuring!Load
  <2>1. UNCHANGED <<scope, writes, replica, seen>>
    BY <1>3 DEF Measuring!vars, Measuring!CheckSnapshot, Measuring!LoadReference,
      Measuring!CheckReference, Measuring!CheckManifest, Measuring!Prepare, Measuring!Verify,
                Measuring!Load, Measuring!GoesOn, Measuring!world, Measuring!loaded,
                  Measuring!measured
  <2>2. /\ doing' \notin {"start", "failed"} => doing \notin {"start", "failed"}
        /\ doing' # "failed" => doing # "failed"
    BY <1>3 DEF Measuring!vars, Measuring!CheckSnapshot, Measuring!LoadReference,
      Measuring!CheckReference, Measuring!CheckManifest, Measuring!Prepare, Measuring!Verify,
                Measuring!Load, Measuring!GoesOn
  <2>3. QED BY <1>2, <2>1, <2>2
<1>4. CASE Measuring!Ask \/ Measuring!CheckSource \/ Measuring!Search \/ Measuring!Deliver
             \/ Measuring!Fail \/ Measuring!Report
  <2>1. UNCHANGED <<scope, writes, replica, seen>>
    BY <1>4 DEF Measuring!Ask, Measuring!CheckSource, Measuring!Search, Measuring!Deliver,
      Measuring!Fail, Measuring!Report, Measuring!GoesOn, Measuring!world, Measuring!loaded,
        Measuring!measured
  <2>2. /\ doing' \notin {"start", "failed"} => doing \notin {"start", "failed"}
        /\ doing' # "failed" => doing # "failed"
    BY <1>4 DEF Measuring!Ask, Measuring!CheckSource, Measuring!Search, Measuring!Deliver,
      Measuring!Fail, Measuring!Report, Measuring!GoesOn
  <2>3. QED BY <1>2, <2>1, <2>2
<1>5. CASE Measuring!Replay
  BY <1>5 DEF Measuring!Replay, Measuring!GoesOn, Measuring!world, Measuring!loaded,
    Measuring!measured
<1>6. CASE Measuring!Backup
  BY <1>1, <1>6
      DEF Measuring!Backup, Measuring!GoesOn, Measuring!world, Measuring!measured, Measures,
      Serves
<1>7. CASE Measuring!Embed
  <2>1. UNCHANGED <<scope, writes, replica, seen>> /\ doing = "loaded"
    BY <1>7 DEF Measuring!Embed, Measuring!GoesOn, Measuring!world, Measuring!loaded,
      Measuring!measured
  <2>2. QED BY <1>1, <2>1
<1>8. ASSUME NEW s \in Measuring!Sides, Measuring!Measure(s)
      PROVE  SeenInv'
  BY <1>1, <1>8
      DEF Measuring!Measure, Measuring!Accepted, Measuring!GoesOn, Measuring!world,
      Measuring!loaded, Measures
<1>9. CASE Measuring!Compare
  BY <1>1, <1>9
      DEF Measuring!Compare, Measuring!GoesOn, Measuring!world, Measuring!loaded,
      Measuring!Unseen, Measures
<1>10. CASE \E g \in ScopeGenerations : Measuring!Write(g)
  BY <1>1, <1>10, ModelsKnown DEF Measuring!Write, Measuring!loaded, Measuring!measured
<1>11. CASE Measuring!Edit
  BY <1>1, <1>11 DEF Measuring!Edit, Measuring!loaded, Measuring!measured
<1>12. QED
  BY <1>3, <1>4, <1>5, <1>6, <1>7, <1>8, <1>9, <1>10, <1>11 DEF Measuring!Next

\* A pair is added while fewer than Repeats were compared.
LEMMA PairsKeep ==
  ASSUME ContentsInv, SeenInv, PairsInv, ComparedInv, [Measuring!Next]_(Measuring!vars)
  PROVE  PairsInv' /\ ComparedInv'
<1>1. question' = question /\ doing' \in WorkerSteps
  BY ContentsKeep DEF ContentsInv
<1>2. CASE Measuring!Compare
  <2> DEFINE p == [n |-> Cardinality(pairs), of |-> seen]
  <2>1. PICK agree \in BOOLEAN :
          /\ consistent' = (consistent /\ Measuring!Same(agree))
          /\ pairs' = pairs \cup {p} /\ doing = "measure"
          /\ doing' = IF Cardinality(pairs) + 1 = Repeats THEN "final" ELSE "measure"
          /\ \A s \in Measuring!Sides : seen[s] # Nil
    BY PairsCounted, <1>2 DEF Measuring!Compare, Measuring!GoesOn
  <2>2. Cardinality(pairs) \in Nat /\ Cardinality(pairs) < Repeats /\ IsFiniteSet(pairs)
    BY <2>1, FS_CardinalityType
        DEF PairsInv, WorkerSteps, HasCompared, HasPrepared, HasRead, Measures, Serves
  <2>3. p \notin pairs
    BY <2>2 DEF PairsInv
  <2>4. Cardinality(pairs') = Cardinality(pairs) + 1 /\ IsFiniteSet(pairs')
    BY <2>1, <2>2, <2>3, FS_AddElement
  <2>5. PairsInv'
    <3>1. \A q \in pairs' : q.n \in Nat /\ q.n < Cardinality(pairs')
      BY <2>1, <2>2, <2>4 DEF PairsInv
    <3>2. Cardinality(pairs') <= Repeats /\ (doing' # "final" => Cardinality(pairs') < Repeats)
      BY <2>1, <2>2, <2>4, ModelsKnown
    <3>3. QED BY <2>4, <3>1, <3>2 DEF PairsInv
  <2>6. ComparedInv'
    <3>1. consistent' => consistent /\ p.of.baseline = p.of.candidate
      BY <2>1 DEF Measuring!Same
    <3>2. question.kind = "replay" => p.of.candidate = question.generation
      BY <2>1 DEF SeenInv, Measuring!Sides
    <3>3. doing # "failed"
      BY <2>1
    <3> HIDE DEF p
    <3>4. QED BY <1>1, <2>1, <3>1, <3>2, <3>3, Zenon DEF ComparedInv
  <2>7. QED BY <2>5, <2>6
<1>3. CASE ~Measuring!Compare
  <2>1. /\ pairs' = pairs /\ consistent' = consistent
    BY <1>3 DEF Measuring!Next, Measuring!vars, Measuring!Replay, Measuring!Backup,
      Measuring!CheckSnapshot, Measuring!LoadReference, Measuring!CheckReference,
                Measuring!CheckManifest, Measuring!Prepare, Measuring!Verify, Measuring!Load,
                  Measuring!Embed, Measuring!Measure, Measuring!Report, Measuring!Ask,
                    Measuring!CheckSource,
                Measuring!Search, Measuring!Deliver, Measuring!Fail, Measuring!Write,
                  Measuring!Edit, Measuring!GoesOn, Measuring!measured
  <2>2. /\ doing = "failed" => doing' = "failed"
        /\ doing \in {"final", "over", "failed"} \cup Serves
             => doing' \in {"final", "over", "failed"} \cup Serves
    BY <1>3 DEF Measuring!Next, Measuring!vars, Measuring!Replay, Measuring!Backup,
      Measuring!CheckSnapshot, Measuring!LoadReference, Measuring!CheckReference,
                Measuring!CheckManifest, Measuring!Prepare, Measuring!Verify, Measuring!Load,
                  Measuring!Embed, Measuring!Measure, Measuring!Report, Measuring!Ask,
                    Measuring!CheckSource,
                Measuring!Search, Measuring!Deliver, Measuring!Fail, Measuring!Write,
                  Measuring!Edit, Measuring!GoesOn, Serves
  <2>3. doing \in WorkerSteps
    BY DEF ContentsInv
  <2>4. QED BY <1>1, <2>1, <2>2, <2>3 DEF PairsInv, ComparedInv
<1>4. QED BY <1>2, <1>3

MeasuringInv ==
  ContentsInv /\ SeenInv /\ PairsInv /\ ComparedInv /\ Measuring!DeliveredIsAsked

\* As the worker begins.
LEMMA MeasuringBegins == Measuring!Init => MeasuringInv
<1> SUFFICES ASSUME Measuring!Init PROVE MeasuringInv
  OBVIOUS
<1>1. ContentsInv
  BY ModelsKnown
     DEF Measuring!Init, ContentsInv, WorkerSteps, HasCompared, HasPrepared, HasRead, Measures,
     Serves, Measuring!Known
<1>2. SeenInv
  BY ModelsKnown DEF Measuring!Init, SeenInv, Measuring!Unseen, Measures, Serves
<1>3. PairsInv
  BY ModelsKnown, FS_EmptySet DEF Measuring!Init, PairsInv
<1>4. ComparedInv /\ Measuring!DeliveredIsAsked
  BY DEF Measuring!Init, ComparedInv, Measuring!DeliveredIsAsked
<1>5. QED BY <1>1, <1>2, <1>3, <1>4 DEF MeasuringInv

\* Every step of the worker, its parent and the directory keeps it.
LEMMA MeasuringKeeps ==
  ASSUME MeasuringInv, [Measuring!Next]_(Measuring!vars)
  PROVE  MeasuringInv'
<1>1. delivered' = delivered \/ delivered'.generation = delivered'.asked
  BY DEF Measuring!Next, Measuring!vars, Measuring!Replay, Measuring!Backup,
    Measuring!CheckSnapshot, Measuring!LoadReference, Measuring!CheckReference,
      Measuring!CheckManifest,
         Measuring!Prepare, Measuring!Verify, Measuring!Load, Measuring!Embed, Measuring!Measure,
           Measuring!Compare, Measuring!Report, Measuring!Ask, Measuring!CheckSource,
             Measuring!Search, Measuring!Deliver,
         Measuring!Stamped, Measuring!Fail, Measuring!Write, Measuring!Edit, Measuring!GoesOn,
           Measuring!serving
<1>2. QED
  BY <1>1, ContentsKeep, SeenKeeps, PairsKeep DEF MeasuringInv, Measuring!DeliveredIsAsked

\* shadow_worker.py, model_worker.py: the invariant of the worker.
LEMMA MeasuringInvariance == Measuring!Spec => []MeasuringInv
BY MeasuringBegins, MeasuringKeeps, PTL DEF Measuring!Spec

\* shadow_worker.py, model_worker.py: what is compared and served is what was asked for.
LEMMA MeasuringHonest ==
  Measuring!Spec
    => [](Measuring!ConsistentIsComparable /\ Measuring!ServesReferenceSource
      /\ Measuring!DeliveredIsAsked)
<1>1. MeasuringInv => Measuring!ConsistentIsComparable
  BY DEF MeasuringInv, ComparedInv, Measuring!ConsistentIsComparable
<1>2. MeasuringInv => Measuring!ServesReferenceSource /\ Measuring!DeliveredIsAsked
  BY DEF MeasuringInv, ContentsInv, Measuring!ServesReferenceSource, Serves, Measures, HasRead,
    HasPrepared, HasCompared
<1>3. QED BY <1>1, <1>2, MeasuringInvariance, PTL
-----------------------------------------------------------------------------
(* An evaluation                                                           *)

\* The component counts as the library does.
LEMMA OutcomesCounted == ASSUME NEW S PROVE Evaluation!Cardinality(S) = Cardinality(S)
BY DEF Evaluation!Cardinality, Cardinality

\* The campaign.

Outcomes == [task : Tasks, trace : Traces]
Receipts ==
  [executed : SUBSET Tasks, truncated : BOOLEAN, outcomes : Seq(Outcomes), complete : BOOLEAN]

CampaignInv ==
  /\ todo \in Seq(Tasks) /\ rows \subseteq Tasks
  /\ receipt # Nil => receipt \in Receipts

\* A set of outcomes has a sequence.
LEMMA OutcomesInOrder ==
  ASSUME NEW S \in SUBSET Tasks, NEW t \in Traces
  PROVE  Evaluation!SetToSeq({[task |-> x, trace |-> t] : x \in S}) \in Seq(Outcomes)
<1> DEFINE T == {[task |-> x, trace |-> t] : x \in S}
           f == [x \in S |-> [task |-> x, trace |-> t]]
<1>1. f \in Bijection(S, T)
  BY DEF Bijection, Injection, Surjection, IsInjective
<1>2. IsFiniteSet(S)
  BY TasksKnown, FS_Subset
<1>3. IsFiniteSet(T)
  BY <1>1, <1>2, FS_Bijection DEF ExistsBijection
<1>4. Cardinality(T) \in Nat /\ ExistsBijection(1..Cardinality(T), T)
  BY <1>3, FS_CardinalityType
<1>5. PICK g : g \in [1..Cardinality(T) -> T] /\ Evaluation!IsInjective(g)
  BY <1>4 DEF ExistsBijection, Bijection, Injection, IsInjective, Evaluation!IsInjective
<1>6. Evaluation!SetToSeq(T) \in [1..Cardinality(T) -> T]
  BY <1>5, OutcomesCounted DEF Evaluation!SetToSeq
<1>7. T \subseteq Outcomes
  BY DEF Outcomes
<1>8. \A n \in Nat : [1..n -> T] \subseteq Seq(Outcomes)
  BY <1>7
<1>9. QED BY <1>4, <1>6, <1>8

\* What is told by two parts is what is told by either.
LEMMA TasksOfParts ==
  ASSUME NEW a \in Seq(Outcomes), NEW b \in Seq(Outcomes)
  PROVE  Evaluation!TasksOf(a \o b) = Evaluation!TasksOf(a) \cup Evaluation!TasksOf(b)
<1>1. Evaluation!ToSet(a \o b) = Evaluation!ToSet(a) \cup Evaluation!ToSet(b)
  <2>1. ASSUME NEW x \in Evaluation!ToSet(a \o b) PROVE x \in Evaluation!ToSet(a)
               \cup Evaluation!ToSet(b)
    <3>1. PICK i \in 1..Len(a) + Len(b) : x = (a \o b)[i]
      BY <2>1 DEF Evaluation!ToSet
    <3>2. QED BY <3>1 DEF Evaluation!ToSet
  <2>2. ASSUME NEW i \in DOMAIN a PROVE a[i] \in Evaluation!ToSet(a \o b)
    BY DEF Evaluation!ToSet
  <2>3. ASSUME NEW i \in DOMAIN b PROVE b[i] \in Evaluation!ToSet(a \o b)
    <3>1. Len(a) + i \in DOMAIN (a \o b) /\ (a \o b)[Len(a) + i] = b[i]
      OBVIOUS
    <3>2. QED BY <3>1 DEF Evaluation!ToSet
  <2>4. QED BY <2>1, <2>2, <2>3 DEF Evaluation!ToSet
<1>2. QED BY <1>1 DEF Evaluation!TasksOf

\* No outcome is of no task.
LEMMA NoOutcomes == Evaluation!TasksOf(<<>>) = {}
BY DEF Evaluation!TasksOf, Evaluation!ToSet

\* As a campaign begins.
LEMMA CampaignBegins == Evaluation!Init => CampaignInv /\ Evaluation!OutcomesAddUp
BY TasksKnown DEF Evaluation!Init, CampaignInv, Evaluation!OutcomesAddUp

\* campaign.py: what is attached is of tasks that have none, so that the outcomes add up.
LEMMA CampaignAttaches ==
  ASSUME CampaignInv, Evaluation!OutcomesAddUp, Evaluation!Attach
  PROVE  CampaignInv' /\ Evaluation!OutcomesAddUp'
<1>1. PICK S \in SUBSET Tasks, t \in Traces, partial \in BOOLEAN :
        LET new == Evaluation!SetToSeq({[task |-> x, trace |-> t] : x \in S})
            all == receipt.outcomes \o new
        IN  /\ receipt # Nil /\ Evaluation!Attachable(new, partial)
            /\ receipt' = [receipt EXCEPT !.outcomes = all,
                                          !.complete = Evaluation!TasksOf(all) = receipt.executed]
            /\ UNCHANGED <<todo, rows, Evaluation!running, saved>>
  BY OutcomesCounted DEF Evaluation!Attach
<1> DEFINE new == Evaluation!SetToSeq({[task |-> x, trace |-> t] : x \in S})
           old == receipt.outcomes
           all == old \o new
<1>2. new \in Seq(Outcomes)
  BY OutcomesInOrder
<1> HIDE DEF new
<1>3. /\ receipt # Nil /\ Evaluation!Attachable(new, partial) /\ todo' = todo /\ rows' = rows
      /\ receipt' = [receipt EXCEPT !.outcomes = all,
         !.complete = (Evaluation!TasksOf(all) = receipt.executed)]
  BY <1>1 DEF new
<1>4. receipt \in Receipts /\ old \in Seq(Outcomes) /\ all \in Seq(Outcomes)
  BY <1>2, <1>3 DEF CampaignInv, Receipts
<1> HIDE DEF old
<1>5. /\ receipt' \in Receipts /\ receipt'.executed = receipt.executed /\ receipt'.outcomes = all
      /\ receipt'.complete = (Evaluation!TasksOf(all) = receipt.executed)
  BY <1>3, <1>4 DEF Receipts
<1>6. Evaluation!TasksOf(all) = Evaluation!TasksOf(old) \cup Evaluation!TasksOf(new)
  BY <1>2, <1>4, TasksOfParts
<1>7. /\ Cardinality(Evaluation!TasksOf(old)) = Len(old)
         /\ Evaluation!TasksOf(old) \subseteq receipt.executed
      /\ Cardinality(Evaluation!TasksOf(new)) = Len(new)
         /\ Evaluation!TasksOf(new) \subseteq receipt.executed
      /\ Evaluation!TasksOf(old) \cap Evaluation!TasksOf(new) = {}
  BY OutcomesCounted, <1>3, <1>4, NoOutcomes
      DEF Evaluation!OutcomesAddUp, Evaluation!Attachable, old
<1>8. IsFiniteSet(Evaluation!TasksOf(old)) /\ IsFiniteSet(Evaluation!TasksOf(new))
  BY <1>4, <1>7, TasksKnown, FS_Subset DEF Receipts
<1>9. Cardinality(Evaluation!TasksOf(all)) = Len(old) + Len(new)
  <2>1. /\ Cardinality(Evaluation!TasksOf(all)) =
             Cardinality(Evaluation!TasksOf(old)) + Cardinality(Evaluation!TasksOf(new))
               - Cardinality(Evaluation!TasksOf(old) \cap Evaluation!TasksOf(new))
    BY <1>6, <1>8, FS_Union
  <2>2. Cardinality(Evaluation!TasksOf(old) \cap Evaluation!TasksOf(new)) = 0
    BY <1>7, FS_EmptySet
  <2>3. Len(old) \in Nat /\ Len(new) \in Nat
    BY <1>2, <1>4
  <2>4. QED BY <1>7, <2>1, <2>2, <2>3
<1>10. Len(all) = Len(old) + Len(new)
  BY <1>2, <1>4
<1> HIDE DEF all
<1>11. Evaluation!OutcomesAddUp'
  BY <1>5, <1>6, <1>7, <1>9, <1>10, OutcomesCounted DEF Evaluation!OutcomesAddUp, Receipts
<1>12. QED BY <1>3, <1>5, <1>11 DEF CampaignInv

\* Every other step leaves the outcomes, or begins with none.
LEMMA CampaignKeeps ==
  ASSUME CampaignInv, Evaluation!OutcomesAddUp, [Evaluation!Next]_(Evaluation!vars)
  PROVE  CampaignInv' /\ Evaluation!OutcomesAddUp'
<1>1. CASE UNCHANGED Evaluation!campaign
  BY <1>1 DEF Evaluation!campaign, CampaignInv, Evaluation!OutcomesAddUp
<1>2. CASE Evaluation!Measure
  <2>1. /\ receipt = Nil /\ receipt' = Nil /\ todo # <<>> /\ todo \in Seq(Tasks)
        /\ \/ rows' = {} /\ todo' = <<>>
           \/ rows' = rows \cup {Head(todo)} /\ todo' = Tail(todo)
    BY <1>2 DEF Evaluation!Measure, CampaignInv
  <2>2. Head(todo) \in Tasks /\ Tail(todo) \in Seq(Tasks) /\ <<>> \in Seq(Tasks)
    BY <2>1
  <2>3. QED BY <2>1, <2>2 DEF CampaignInv, Evaluation!OutcomesAddUp
<1>3. CASE Evaluation!Finish
  <2>1. rows # {} /\ todo' = todo /\ rows' = rows
        /\ receipt' = [executed |-> rows, truncated |-> todo # <<>>, outcomes |-> <<>>,
                       complete |-> FALSE]
    BY <1>3 DEF Evaluation!Finish
  <2>2. receipt' \in Receipts
    BY <2>1 DEF CampaignInv, Receipts
  <2>3. Evaluation!OutcomesAddUp'
    BY <2>1, NoOutcomes, FS_EmptySet, OutcomesCounted DEF Evaluation!OutcomesAddUp
  <2>4. QED BY <2>1, <2>2, <2>3 DEF CampaignInv
<1>4. CASE Evaluation!Attach
  BY <1>4, CampaignAttaches
<1>5. QED
  BY <1>1, <1>2, <1>3, <1>4
  DEF Evaluation!Next, Evaluation!vars, Evaluation!campaign, Evaluation!Launch, Evaluation!Go,
  Evaluation!Collect, Evaluation!Expire, Evaluation!Return, Evaluation!Tick, Evaluation!Open,
    Evaluation!Step, Evaluation!Raise, Evaluation!Close,
      Evaluation!Save, Evaluation!Restore, Evaluation!Again, Evaluation!Working

\* Runs.

\* t ends what there is of d.
EndsWith(t, d) ==
  Len(t) <= Len(d) /\ \A i \in 1..Len(t) : t[(Len(t) - i) + 1] = d[(Len(d) - i) + 1]

\* IsSuffix, that reverses both, by position.
LEMMA SuffixEnds ==
  ASSUME NEW t \in Seq(Observations), NEW d \in Seq(Observations)
  PROVE  Evaluation!IsSuffix(t, d) <=> EndsWith(t, d)
<1> DEFINE u == Evaluation!Reverse(t)
           v == Evaluation!Reverse(d)
<1>1. /\ Len(u) = Len(t) /\ u \in Seq(Observations)
         /\ \A i \in 1..Len(t) : u[i] = t[(Len(t) - i) + 1]
      /\ Len(v) = Len(d) /\ v \in Seq(Observations)
         /\ \A i \in 1..Len(d) : v[i] = d[(Len(d) - i) + 1]
  BY DEF Evaluation!Reverse
<1> HIDE DEF u, v
<1>2. Len(u) <= Len(v) =>
        (SubSeq(u, 1, Len(u)) = SubSeq(v, 1, Len(u)) <=> \A i \in 1..Len(u) : u[i] = v[i])
  <2> SUFFICES ASSUME Len(u) <= Len(v)
               PROVE  SubSeq(u, 1, Len(u)) = SubSeq(v, 1, Len(u))
                        <=> \A i \in 1..Len(u) : u[i] = v[i]
    OBVIOUS
  <2>1. /\ SubSeq(u, 1, Len(u)) = [i \in 1..Len(u) |-> u[i]]
        /\ SubSeq(v, 1, Len(u)) = [i \in 1..Len(u) |-> v[i]]
    BY <1>1
  <2>2. QED BY <2>1
<1>3. Evaluation!IsSuffix(t, d) <=> Len(u) <= Len(v) /\ \A i \in 1..Len(u) : u[i] = v[i]
  BY <1>2 DEF Evaluation!IsSuffix, Evaluation!IsPrefix, u, v
<1>4. Len(t) <= Len(d) => \A i \in 1..Len(t) : v[i] = d[(Len(d) - i) + 1]
  BY <1>1
<1>5. QED BY <1>1, <1>3, <1>4 DEF EndsWith

\* What ends a trace ends it with one more observation at the end of both.
LEMMA EndGrows ==
  ASSUME NEW t \in Seq(Observations), NEW d \in Seq(Observations), NEW x \in Observations,
         EndsWith(t, d)
  PROVE  EndsWith(Append(t, x), Append(d, x))
<1> DEFINE u == Append(t, x)
           v == Append(d, x)
<1>1. /\ Len(u) = Len(t) + 1 /\ Len(v) = Len(d) + 1
      /\ \A i \in 1..Len(t) : u[i] = t[i]
      /\ \A i \in 1..Len(d) : v[i] = d[i]
      /\ u[Len(u)] = x /\ v[Len(v)] = x
  OBVIOUS
<1> HIDE DEF u, v
<1>2. ASSUME NEW i \in 1..Len(u) PROVE u[(Len(u) - i) + 1] = v[(Len(v) - i) + 1]
  <2>1. CASE i = 1
    BY <1>1, <2>1
  <2>2. CASE i # 1
    <3>1. i - 1 \in 1..Len(t)
      BY <1>1, <2>2
    <3>2. t[(Len(t) - (i - 1)) + 1] = d[(Len(d) - (i - 1)) + 1]
      BY <3>1 DEF EndsWith
    <3>3. /\ (Len(u) - i) + 1 \in 1..Len(t) /\ (Len(v) - i) + 1 \in 1..Len(d)
          /\ (Len(u) - i) + 1 = (Len(t) - (i - 1)) + 1
          /\ (Len(v) - i) + 1 = (Len(d) - (i - 1)) + 1
      BY <1>1, <2>2 DEF EndsWith
    <3>4. QED BY <1>1, <3>2, <3>3
  <2>3. QED BY <2>1, <2>2
<1>3. QED BY <1>1, <1>2 DEF EndsWith, u, v

Closing == {"closing error", "closing completed", "closing limit"}
Finished == {"completed", "limit", "error"}

\* A worker and its parent, and what the worker has seen.
RunInv ==
  /\ trace \in Seq(Observations) /\ Len(trace) <= MaxSteps /\ clock \in 0..Wall
  /\ parent \in {"idle", "launched", "waiting", "timeout", "failed",
     "returned"} \cup Evaluation!Results
  /\ worker \in {"none", "waiting", "ready", "stepping", "dead"} \cup Closing \cup Finished
  /\ worker \in {"none", "waiting", "ready"} => trace = <<>> /\ memory = Evaluation!NoMemory
  /\ worker = "stepping" => Len(trace) < MaxSteps
  /\ worker \in Finished => ~memory.open
  /\ parent \in Evaluation!Results => worker = parent
  /\ parent = "returned" => worker = "dead"
  /\ parent = "launched" => worker = "waiting"
  /\ parent = "idle" => worker = "none"

\* The index holds the list, and the list ends with what was seen.
MemoryInv ==
  /\ memory \in [documents : Seq(Observations), index : Seq(Observations), open : BOOLEAN]
  /\ memory.index = memory.documents
  /\ worker \notin {"closing error", "error", "dead"} => EndsWith(trace, memory.documents)
  /\ saved # Nil => saved \in Seq(Observations)

\* The empty trace ends every other.
LEMMA NothingEnds ==
  /\ <<>> \in Seq(Observations) /\ Len(<<>>) = 0 /\ EndsWith(<<>>, <<>>)
  /\ \A d \in Seq(Observations) : EndsWith(<<>>, d)
BY DEF EndsWith

\* As a run begins.
LEMMA RunBegins == Evaluation!Init => RunInv /\ MemoryInv
<1> SUFFICES ASSUME Evaluation!Init PROVE RunInv /\ MemoryInv
  OBVIOUS
<1>1. <<>> \in Seq(Observations) /\ EndsWith(<<>>, <<>>) /\ Len(<<>>) = 0
  BY NothingEnds
<1>2. 0 \in 0..Wall /\ 0 <= MaxSteps
  BY TasksKnown
<1>3. RunInv
  BY <1>1, <1>2 DEF Evaluation!Init, RunInv, Closing, Finished, Evaluation!Results
<1>4. MemoryInv
  BY <1>1 DEF Evaluation!Init, MemoryInv, Evaluation!NoMemory
<1>5. QED BY <1>3, <1>4

\* Every step of the run and of its worker keeps both.
LEMMA RunKeeps ==
  ASSUME RunInv, MemoryInv, [Evaluation!Next]_(Evaluation!vars)
  PROVE  RunInv' /\ MemoryInv'
<1>1. CASE UNCHANGED Evaluation!running /\ saved' = saved
  BY <1>1 DEF Evaluation!running, RunInv, MemoryInv
<1>2. CASE Evaluation!Launch
  BY <1>2 DEF Evaluation!Launch, RunInv, MemoryInv, Closing, Finished, Evaluation!Results
<1>3. CASE Evaluation!Go
  <2>1. /\ parent = "launched" /\ UNCHANGED <<trace, memory, saved, clock>>
        /\ parent' \in {"timeout", "waiting"}
        /\ worker' = worker \/ worker' = "ready"
        /\ worker' = "ready" => worker \in {"none", "waiting", "ready"}
    BY <1>3 DEF Evaluation!Go, RunInv
  <2>2. QED BY <2>1 DEF RunInv, MemoryInv, Closing, Finished, Evaluation!Results
<1>4. CASE Evaluation!Collect
  BY <1>4 DEF Evaluation!Collect, Evaluation!Exited, RunInv, MemoryInv, Closing, Finished,
    Evaluation!Results
<1>5. CASE Evaluation!Expire
  BY <1>5 DEF Evaluation!Expire, RunInv, MemoryInv, Closing, Finished, Evaluation!Results
<1>6. CASE Evaluation!Return
  BY <1>6 DEF Evaluation!Return, Evaluation!Stopped, RunInv, MemoryInv, Closing, Finished,
    Evaluation!Results
<1>7. CASE Evaluation!Tick
  <2>1. clock' \in 0..Wall
    BY <1>7, TasksKnown DEF Evaluation!Tick, RunInv
  <2>2. QED BY <1>7, <2>1 DEF Evaluation!Tick, RunInv, MemoryInv
<1>8. CASE Evaluation!Open
  <2>1. worker = "ready" /\ trace' = trace /\ parent' = parent /\ saved' = saved /\ clock' = clock
        /\ memory' \in [documents : {<<>>}, index : {<<>>}, open : BOOLEAN]
        /\ \/ worker' = "stepping"
           \/ worker' = "error" /\ memory' = Evaluation!NoMemory
    <3>1. CASE memory' = [Evaluation!NoMemory EXCEPT !.open = TRUE]
      <4>1. memory' = [documents |-> <<>>, index |-> <<>>, open |-> TRUE]
        BY <3>1 DEF Evaluation!NoMemory
      <4>2. QED BY <1>8, <4>1 DEF Evaluation!Open, Evaluation!Working, Evaluation!NoMemory
    <3>2. CASE memory' = Evaluation!NoMemory
      BY <1>8, <3>2 DEF Evaluation!Open, Evaluation!Working, Evaluation!NoMemory
    <3>3. QED BY <1>8, <3>1, <3>2 DEF Evaluation!Open
  <2>2. trace = <<>> /\ Len(trace) = 0 /\ Evaluation!NoMemory.open = FALSE
    BY <2>1 DEF RunInv, Evaluation!NoMemory
  <2>3. RunInv'
    <3>1. 0 < MaxSteps /\ 0 <= MaxSteps
      BY TasksKnown
    <3>2. parent \notin {"idle", "launched", "returned"} \cup Evaluation!Results
      BY <2>1 DEF RunInv, Evaluation!Results
    <3>3. worker' = "error" => memory'.open = FALSE
      BY <2>1, <2>2
    <3>4. QED BY <2>1, <2>2, <3>1, <3>2, <3>3 DEF RunInv, Closing, Finished, Evaluation!Results
  <2>4. MemoryInv'
    BY <2>1, <2>2, NothingEnds DEF MemoryInv
  <2>5. QED BY <2>3, <2>4
<1>9. CASE Evaluation!Step
  <2>1. PICK text \in Observations, done \in BOOLEAN, fails \in BOOLEAN :
          /\ Evaluation!Working("stepping")
          /\ trace' = Append(trace, text)
          /\ memory' = Evaluation!Added(memory, text, fails)
          /\ worker' = CASE fails                          -> "closing error"
                         [] ~fails /\ done                 -> "closing completed"
                         [] ~fails /\ ~done /\ Len(trace') = MaxSteps -> "closing limit"
                         [] OTHER                          -> "stepping"
    BY <1>9 DEF Evaluation!Step
  <2>2. trace' \in Seq(Observations) /\ Len(trace') = Len(trace) + 1
        /\ Len(trace) \in Nat /\ Len(trace) < MaxSteps
    <3>1. trace \in Seq(Observations) /\ Len(trace) < MaxSteps /\ trace' = Append(trace, text)
      BY <2>1 DEF RunInv, Evaluation!Working
    <3>2. QED BY <3>1
  <2>3. /\ worker' \in {"closing error", "closing completed", "closing limit", "stepping"}
        /\ worker' = "stepping" => Len(trace') # MaxSteps
        /\ fails => worker' = "closing error"
    <3>1. CASE fails
      BY <2>1, <3>1
    <3>2. CASE ~fails /\ done
      BY <2>1, <3>2
    <3>3. CASE ~fails /\ ~done /\ Len(trace') = MaxSteps
      BY <2>1, <3>3
    <3>4. CASE ~fails /\ ~done /\ Len(trace') # MaxSteps
      BY <2>1, <3>4
    <3>5. QED BY <3>1, <3>2, <3>3, <3>4
  <2>4. RunInv'
    <3>1. Len(trace') <= MaxSteps /\ (worker' = "stepping" => Len(trace') < MaxSteps)
      <4>1. \A n \in Nat : n < MaxSteps =>
              n + 1 <= MaxSteps /\ (n + 1 # MaxSteps => n + 1 < MaxSteps)
        BY TasksKnown
      <4>2. worker' = "stepping" => Len(trace') # MaxSteps
        BY <2>3
      <4>3. QED BY <2>2, <4>1, <4>2
    <3>2. worker = "stepping" /\ parent' = parent /\ clock' = clock
      BY <2>1 DEF Evaluation!Working
    <3>3. QED BY <2>2, <2>3, <3>1, <3>2 DEF RunInv, Closing, Finished, Evaluation!Results
  <2>5. CASE fails
    BY <2>1, <2>3, <2>4, <2>5 DEF Evaluation!Working, Evaluation!Added, MemoryInv, RunInv
  <2>6. CASE ~fails
    <3>1. /\ memory'.documents = Append(memory.documents, text)
          /\ memory'.index = Append(memory.documents, text)
          /\ memory' \in [documents : Seq(Observations), index : Seq(Observations),
             open : BOOLEAN]
      <4>1. memory' = [memory EXCEPT !.index = Append(memory.documents, text),
                                     !.documents = Append(memory.documents, text)]
        BY <2>1, <2>6 DEF Evaluation!Added
      <4>2. Append(memory.documents, text) \in Seq(Observations)
        <5>1. memory.documents \in Seq(Observations)
          BY DEF MemoryInv
        <5>2. QED BY <5>1
      <4>3. QED BY <4>1, <4>2 DEF MemoryInv
    <3>2. EndsWith(trace', memory'.documents)
      BY <2>1, <3>1, EndGrows DEF Evaluation!Working, MemoryInv, RunInv
    <3>3. QED BY <2>1, <2>4, <3>1, <3>2 DEF Evaluation!Working, MemoryInv
  <2>7. QED BY <2>5, <2>6
<1>10. CASE Evaluation!Raise
  BY <1>10 DEF Evaluation!Raise, Evaluation!Working, RunInv, MemoryInv, Closing, Finished,
    Evaluation!Results
<1>11. CASE Evaluation!Close
  <2>1. PICK fails \in BOOLEAN :
        /\ UNCHANGED <<Evaluation!campaign, parent, saved, clock, trace>>
        /\ worker \in {"closing error", "closing completed", "closing limit"}
        /\ memory' = Evaluation!Closed(fails)
        /\ worker' = CASE fails \/ worker = "closing error" -> "error"
                       [] ~fails /\ worker = "closing completed" -> "completed"
                       [] ~fails /\ worker = "closing limit" -> "limit"
    BY <1>11 DEF Evaluation!Close
  <2>2. worker' \in Finished /\ (worker = "closing error" => worker' = "error")
    <3>1. CASE fails \/ worker = "closing error"
      BY <2>1, <3>1 DEF Finished
    <3>2. CASE ~fails /\ worker = "closing completed"
      BY <2>1, <3>2 DEF Finished
    <3>3. CASE ~fails /\ worker = "closing limit"
      BY <2>1, <3>3 DEF Finished
    <3>4. QED BY <2>1, <3>1, <3>2, <3>3
  <2>3. /\ memory' \in [documents : Seq(Observations), index : Seq(Observations), open : BOOLEAN]
        /\ memory'.documents = memory.documents /\ memory'.index = memory.index
        /\ memory'.open = FALSE
    BY <2>1 DEF Evaluation!Closed, MemoryInv
  <2>4. QED BY <2>1, <2>2, <2>3 DEF RunInv, MemoryInv, Closing, Finished, Evaluation!Results
<1>12. CASE Evaluation!Save
  BY <1>12 DEF Evaluation!Save, Evaluation!Published, Evaluation!running, RunInv, MemoryInv
<1>13. CASE Evaluation!Restore
  <2>1. worker = "stepping" /\ saved \in Seq(Observations) /\ trace = <<>>
    BY <1>13 DEF Evaluation!Restore, MemoryInv
  <2>2. /\ memory' \in [documents : Seq(Observations), index : Seq(Observations), open : BOOLEAN]
        /\ memory'.documents = saved /\ memory'.index = saved
    BY <1>13, <2>1 DEF Evaluation!Restore, MemoryInv
  <2>3. RunInv'
    BY <1>13, <2>1 DEF Evaluation!Restore, RunInv, Closing, Finished, Evaluation!Results
  <2>4. MemoryInv'
    BY <1>13, <2>1, <2>2, NothingEnds DEF Evaluation!Restore, MemoryInv
  <2>5. QED BY <2>3, <2>4
<1>14. CASE Evaluation!Again
  <2>1. /\ parent' = "idle" /\ worker' = "none" /\ trace' = <<>> /\ memory' = Evaluation!NoMemory
        /\ clock' = 0 /\ saved' = saved
    BY <1>14 DEF Evaluation!Again
  <2>2. <<>> \in Seq(Observations) /\ EndsWith(<<>>, <<>>) /\ Len(<<>>) = 0
    BY NothingEnds
  <2>3. 0 \in 0..Wall /\ 0 <= MaxSteps
    BY TasksKnown
  <2>4. RunInv'
    BY <2>1, <2>2, <2>3 DEF RunInv, Closing, Finished, Evaluation!Results
  <2>5. MemoryInv'
    BY <2>1, <2>2 DEF MemoryInv, Evaluation!NoMemory
  <2>6. QED BY <2>4, <2>5
<1>15. QED
  BY OutcomesCounted, <1>1, <1>2, <1>3, <1>4, <1>5, <1>6, <1>7, <1>8, <1>9, <1>10, <1>11, <1>12,
    <1>13, <1>14
  DEF Evaluation!Next, Evaluation!vars, Evaluation!running, Evaluation!Measure,
  Evaluation!Finish, Evaluation!Attach

\* environment.py: the result and the memory of a run, by the invariant.
LEMMA RunsReport == RunInv /\ MemoryInv
  => Evaluation!ResultIsFinal /\ Evaluation!MemoryIsWhatWasSeen
<1> SUFFICES ASSUME RunInv,
      MemoryInv PROVE Evaluation!ResultIsFinal /\ Evaluation!MemoryIsWhatWasSeen
  OBVIOUS
<1>1. Evaluation!ResultIsFinal
  BY DEF RunInv, Evaluation!ResultIsFinal, Evaluation!Exited, Finished
<1>2. Evaluation!MemoryIsWhatWasSeen
  BY SuffixEnds DEF RunInv, MemoryInv, Evaluation!MemoryIsWhatWasSeen
<1>3. QED BY <1>1, <1>2

\* The types follow.
LEMMA EvaluationTyped == CampaignInv /\ RunInv /\ MemoryInv => Evaluation!TypeOK
BY DEF CampaignInv, RunInv, MemoryInv, Evaluation!TypeOK, Receipts

\* thm/evaluation: outcomes add up, results are final and the memory is what was seen.
LEMMA EvaluationReports ==
  Evaluation!Spec
    => [](Evaluation!TypeOK /\ Evaluation!OutcomesAddUp /\ Evaluation!ResultIsFinal
      /\ Evaluation!MemoryIsWhatWasSeen)
<1>1. Evaluation!Init => CampaignInv /\ Evaluation!OutcomesAddUp /\ RunInv /\ MemoryInv
  BY CampaignBegins, RunBegins
<1>2. CampaignInv /\ Evaluation!OutcomesAddUp /\ RunInv /\ MemoryInv
        /\ [Evaluation!Next]_(Evaluation!vars)
        => (CampaignInv /\ Evaluation!OutcomesAddUp /\ RunInv /\ MemoryInv)'
  BY CampaignKeeps, RunKeeps
<1>3. CampaignInv /\ Evaluation!OutcomesAddUp /\ RunInv /\ MemoryInv
        => Evaluation!TypeOK /\ Evaluation!OutcomesAddUp /\ Evaluation!ResultIsFinal
          /\ Evaluation!MemoryIsWhatWasSeen
  BY RunsReport, EvaluationTyped
<1>4. QED BY <1>1, <1>2, <1>3, PTL DEF Evaluation!Spec

\* memory.py: a snapshot is published once and for all.
LEMMA SnapshotsKept == Evaluation!Spec => Evaluation!SnapshotIsKept
<1>1. [Evaluation!Next]_(Evaluation!vars) => [saved # Nil => saved' = saved]_(Evaluation!vars)
  BY OutcomesCounted
      DEF Evaluation!Next, Evaluation!vars, Evaluation!campaign, Evaluation!running,
      Evaluation!Measure, Evaluation!Finish, Evaluation!Attach, Evaluation!Launch, Evaluation!Go,
        Evaluation!Collect, Evaluation!Expire, Evaluation!Return,
         Evaluation!Tick, Evaluation!Open, Evaluation!Step, Evaluation!Raise, Evaluation!Close,
           Evaluation!Save, Evaluation!Published, Evaluation!Restore, Evaluation!Again,
             Evaluation!Working
<1>2. QED BY <1>1, PTL DEF Evaluation!Spec, Evaluation!SnapshotIsKept
-----------------------------------------------------------------------------
(* The harness server                                                      *)

\* The component counts as the library does.
LEMMA RequestsDue == ASSUME NEW S PROVE Server!Cardinality(S) = Cardinality(S)
BY DEF Server!Cardinality, Cardinality

Answers == [kind : {"result", "refused", "failed", "invalid"}, id : {Nil} \cup (1..MaxMessages)]

\* What is open is held, and the index first and longest.
AdapterInv ==
  /\ vectors \in BOOLEAN /\ serving \in BOOLEAN
  /\ opened \in [Server!Parts -> 0..2] /\ given \subseteq Server!Parts
  /\ "index" \notin given => given = {}
  /\ Server!NothingLost

ProtocolInv == asked \in Seq(Server!Messages) /\ told \in Seq(Answers) /\ Server!RequestsAnswered

\* The adapter.

\* harness.py: whatever fails to open, the index was opened before.
LEMMA OpensIndexFirst ==
  ASSUME NEW f
  PROVE  Server!UpTo(f) \subseteq Server!Parts /\ ("index" \notin Server!UpTo(f)
           => Server!UpTo(f) = {})
<1>1. /\ Server!Wanted[1] = "index" /\ Len(Server!Wanted) \in Nat \ {0}
      /\ \A i \in 1..Len(Server!Wanted) : Server!Wanted[i] \in Server!Parts
  <2>1. CASE vectors
    <3>1. Server!Wanted = <<"index", "encoder", "runtime">>
      BY <2>1 DEF Server!Wanted
    <3>2. QED BY <3>1 DEF Server!Parts
  <2>2. CASE ~vectors
    <3>1. Server!Wanted = <<"index", "runtime">>
      BY <2>2 DEF Server!Wanted
    <3>2. QED BY <3>1 DEF Server!Parts
  <2>3. QED BY <2>1, <2>2
<1>2. Server!UpTo(f) \subseteq Server!Parts
  BY <1>1 DEF Server!UpTo
<1>3. ASSUME Server!UpTo(f) # {} PROVE "index" \in Server!UpTo(f)
  <2>1. PICK i \in 1..Len(Server!Wanted) : \A k \in 1..i : Server!Wanted[k] # f
    BY <1>3 DEF Server!UpTo
  <2>2. 1 \in 1..i /\ 1 \in 1..Len(Server!Wanted)
    BY <1>1
  <2>3. Server!Wanted[1] # f /\ \A k \in 1..1 : k = 1
    BY <2>1, <2>2
  <2>4. QED BY <1>1, <2>2, <2>3 DEF Server!UpTo
<1>4. QED BY <1>2, <1>3

\* harness.py: what is open is held as it is opened.
LEMMA AdapterOpens ==
  ASSUME AdapterInv, NEW f, Server!Recalls(f)
  PROVE  /\ opened' \in [Server!Parts -> 0..2] /\ given' \subseteq Server!Parts
         /\ "index" \notin given' => given' = {}
         /\ Server!NothingLost'
<1>1. CASE Server!Creates(f) = {}
  BY <1>1 DEF Server!Recalls, AdapterInv, Server!NothingLost, Server!Parts
<1>2. CASE Server!Creates(f) # {}
  <2>1. given = {} /\ Server!Creates(f) \subseteq Server!Parts
          /\ "index" \in Server!Creates(f) /\ given' = Server!Creates(f)
    BY <1>2, OpensIndexFirst DEF Server!Creates, AdapterInv, Server!Recalls
  <2>2. \A p \in Server!Parts : opened[p] = 0
    BY <2>1 DEF AdapterInv, Server!NothingLost
  <2>3. opened' = [p \in Server!Parts |-> IF p \in Server!Creates(f) THEN 1 ELSE 0]
    BY <2>2 DEF Server!Recalls
  <2>4. QED BY <2>1, <2>3 DEF Server!NothingLost
<1>3. QED BY <1>1, <1>2

\* The index is closed last, and nothing is forgotten that was not closed.
LEMMA ClosesIndexLast ==
  ASSUME NEW f
  PROVE  /\ Server!Forgotten(f) \subseteq Server!Before(f)
         /\ "index" \in Server!Forgotten(f) => Server!Parts \subseteq Server!Forgotten(f)
<1>1. 1..3 = {1, 2, 3} /\ 1..2 = {1, 2} /\ 1..1 = {1}
  OBVIOUS
<1>2. Server!Order[1] = "runtime" /\ Server!Order[2] = "encoder" /\ Server!Order[3] = "index"
  BY DEF Server!Order
<1>3. ASSUME f = "index" PROVE "runtime" \in Server!Before(f)
  BY <1>1, <1>2, <1>3 DEF Server!Before
<1>4. ASSUME "index" \in Server!Before(f) PROVE Server!Parts \subseteq Server!Before(f)
  BY <1>1, <1>2, <1>4 DEF Server!Before, Server!Parts
<1>5. QED BY <1>3, <1>4 DEF Server!Forgotten

\* harness.py: and is closed as it is let go, the index last.
LEMMA AdapterCloses ==
  ASSUME AdapterInv, NEW f, Server!Closed(f)
  PROVE  /\ opened' \in [Server!Parts -> 0..2] /\ given' \subseteq Server!Parts
         /\ "index" \notin given' => given' = {}
         /\ Server!NothingLost'
<1>1. \A p \in Server!Parts : opened'[p] \in 0..2
        /\ (opened'[p] = 0 \/ (opened'[p] = opened[p] /\ p \notin Server!Before(f) \cap given))
  BY DEF Server!Closed, AdapterInv
<1>2. opened' \in [Server!Parts -> 0..2]
  BY <1>1 DEF Server!Closed
<1>3. Server!NothingLost'
  BY <1>1, ClosesIndexLast DEF Server!Closed, AdapterInv, Server!NothingLost
<1>4. QED BY <1>2, <1>3, ClosesIndexLast DEF Server!Closed, AdapterInv

\* The protocol.

\* The positions of messages that ask are finitely many.
LEMMA PositionsCount ==
  ASSUME NEW s, NEW i \in Nat
  PROVE  Server!Due(s, i) \in Nat /\ IsFiniteSet({j \in 1..i : Server!Asks(s[j])})
<1>1. IsFiniteSet(1..i)
  BY FS_Interval
<1>2. IsFiniteSet({j \in 1..i : Server!Asks(s[j])})
  BY <1>1, FS_Subset
<1>3. QED BY RequestsDue, <1>2, FS_CardinalityType DEF Server!Due

\* What has been due stays due, in its turn.
LEMMA DueStays ==
  ASSUME NEW s \in Seq(Server!Messages), NEW m \in Server!Messages
  PROVE  LET t == Append(s, m)  n == Len(s)
         IN  /\ \A i \in 0..n :
                  Server!Due(t, i) = Server!Due(s, i) /\ Server!Due(s, i) <= Server!Due(s, n)
             /\ Server!Asks(m) => Server!Due(t, n + 1) = Server!Due(s, n) + 1
             /\ ~Server!Asks(m) => Server!Due(t, n + 1) = Server!Due(s, n)
<1> DEFINE t == Append(s, m)
           n == Len(s)
           Those(i) == {j \in 1..i : Server!Asks(s[j])}
<1>1. /\ n \in Nat /\ t[n + 1] = m
      /\ \A j \in 1..n : t[j] = s[j]
  OBVIOUS
<1> HIDE DEF t, n
<1>2. ASSUME NEW i \in 0..n
      PROVE  Server!Due(t, i) = Server!Due(s, i) /\ Server!Due(s, i) <= Server!Due(s, n)
  <2>1. {j \in 1..i : Server!Asks(t[j])} = Those(i)
    BY <1>1
  <2>2. Server!Due(t, i) = Server!Due(s, i)
    BY RequestsDue, <2>1 DEF Server!Due
  <2>3. Those(i) \subseteq Those(n)
    BY <1>1
  <2>4. IsFiniteSet(Those(n))
    BY <1>1, PositionsCount, Zenon
  <2>5. QED BY RequestsDue, <2>2, <2>3, <2>4, FS_Subset DEF Server!Due
<1>3. ASSUME Server!Asks(m) PROVE Server!Due(t, n + 1) = Server!Due(s, n) + 1
  <2>1. {j \in 1..(n + 1) : Server!Asks(t[j])} = Those(n) \cup {n + 1}
    BY <1>1, <1>3
  <2>2. n + 1 \notin Those(n)
    BY <1>1
  <2>3. IsFiniteSet(Those(n))
    BY <1>1, PositionsCount, Zenon
  <2>4. Cardinality(Those(n) \cup {n + 1}) = Cardinality(Those(n)) + 1
    BY <2>2, <2>3, FS_AddElement
  <2>5. QED BY RequestsDue, <2>1, <2>4 DEF Server!Due
<1>4. ASSUME ~Server!Asks(m) PROVE Server!Due(t, n + 1) = Server!Due(s, n)
  <2>1. {j \in 1..(n + 1) : Server!Asks(t[j])} = Those(n)
    BY <1>1, <1>4
  <2>2. QED BY RequestsDue, <2>1 DEF Server!Due
<1>5. QED BY <1>2, <1>3, <1>4 DEF t, n

\* A message that asks is answered, another one is not.
LEMMA ProtocolKeeps ==
  ASSUME ProtocolInv, NEW m \in Server!Messages, Server!Reads(m), NEW k \in {"result", "refused",
         "failed", "invalid"},
         IF Server!Asks(m) THEN Server!Says(k, m.id) ELSE told' = told
  PROVE  ProtocolInv'
<1> DEFINE n == Len(asked)
<1>1. asked \in Seq(Server!Messages) /\ told \in Seq(Answers) /\ n \in Nat /\ n < MaxMessages
      /\ asked' = Append(asked, m) /\ m.id \in {Nil, n + 1}
  BY DEF ProtocolInv, Server!Reads
<1>2. /\ \A i \in 0..n :
           /\ Server!Due(asked', i) = Server!Due(asked, i)
           /\ Server!Due(asked, i) <= Server!Due(asked, n)
      /\ Server!Asks(m) => Server!Due(asked', n + 1) = Server!Due(asked, n) + 1
      /\ ~Server!Asks(m) => Server!Due(asked', n + 1) = Server!Due(asked, n)
  BY <1>1, DueStays
<1>3. /\ Len(told) = Server!Due(asked, n) /\ Server!Due(asked, n) \in Nat
      /\ \A i \in 1..n : Server!Asks(asked[i]) => told[Server!Due(asked, i)].id = asked[i].id
  BY <1>1, PositionsCount DEF ProtocolInv, Server!RequestsAnswered
<1>4. /\ asked' \in Seq(Server!Messages) /\ Len(asked') = n + 1 /\ asked'[n + 1] = m
      /\ \A i \in 1..n : asked'[i] = asked[i]
  BY <1>1
<1>5. ASSUME told' \in Seq(Answers), Len(told') = Server!Due(asked', n + 1),
             \A i \in 1..(n + 1) : Server!Asks(asked'[i])
               => told'[Server!Due(asked', i)].id = asked'[i].id
      PROVE  ProtocolInv'
  BY <1>4, <1>5 DEF ProtocolInv, Server!RequestsAnswered
<1> DEFINE due == Server!Due(asked, n)
<1> HIDE DEF n, due
<1>6. CASE ~Server!Asks(m)
  <2>1. ASSUME NEW i \in 1..(n + 1), Server!Asks(asked'[i])
        PROVE  told'[Server!Due(asked', i)].id = asked'[i].id
    <3>1. i \in 1..n
      BY <1>1, <1>4, <1>6, <2>1
    <3>2. Server!Due(asked', i) = Server!Due(asked, i)
      BY <1>1, <1>2, <3>1
    <3>3. QED BY <1>3, <1>4, <1>6, <2>1, <3>1, <3>2
  <2>2. QED BY <1>1, <1>2, <1>3, <1>5, <1>6, <2>1
<1>7. CASE Server!Asks(m)
  <2> DEFINE a == [kind |-> k, id |-> m.id]
  <2>1. told' = Append(told, a)
    BY <1>7 DEF Server!Says
  <2>2. a \in Answers
    BY <1>1, ServingAssumption DEF Answers
  <2>3. a.id = m.id
    OBVIOUS
  <2> HIDE DEF a
  <2>4. /\ told' \in Seq(Answers) /\ Len(told') = Len(told) + 1 /\ told'[Len(told) + 1].id = m.id
        /\ \A i \in 1..Len(told) : told'[i] = told[i]
    BY <1>1, <2>1, <2>2, <2>3
  <2>5. ASSUME NEW i \in 1..(n + 1), Server!Asks(asked'[i])
        PROVE  told'[Server!Due(asked', i)].id = asked'[i].id
    <3>1. CASE i = n + 1
      BY <1>2, <1>3, <1>4, <1>7, <2>4, <3>1
    <3>2. CASE i \in 1..n
      <4>1. /\ Server!Due(asked', i) = Server!Due(asked, i)
            /\ Server!Due(asked, i) <= Server!Due(asked, n)
            /\ told[Server!Due(asked, i)].id = asked[i].id /\ Server!Asks(asked[i]) /\ i \in Nat
        BY <1>1, <1>2, <1>3, <1>4, <2>5, <3>2
      <4>2. Server!Due(asked, i) \in Nat \ {0}
        <5>1. i \in {j \in 1..i : Server!Asks(asked[j])}
          BY <3>2, <4>1
        <5>2. QED BY RequestsDue, <4>1, <5>1, PositionsCount, FS_EmptySet DEF Server!Due
      <4>3. Server!Due(asked, i) \in 1..Len(told)
        BY <1>3, <4>1, <4>2
      <4>4. asked'[i] = asked[i]
        BY <1>4, <3>2
      <4>5. told'[Server!Due(asked, i)] = told[Server!Due(asked, i)]
        BY <2>4, <4>3
      <4>6. QED BY <4>1, <4>4, <4>5
    <3>3. i = n + 1 \/ i \in 1..n
      BY <1>1
    <3>4. QED BY <3>1, <3>2, <3>3
  <2>6. QED BY <1>2, <1>3, <1>5, <1>7, <2>4, <2>5
<1>8. QED BY <1>6, <1>7

ServerInv == AdapterInv /\ ProtocolInv

\* As the server begins.
LEMMA ServerBegins == Server!Init => ServerInv
<1> SUFFICES ASSUME Server!Init PROVE ServerInv
  OBVIOUS
<1>1. AdapterInv
  BY DEF Server!Init, AdapterInv, Server!NothingLost
<1>2. Server!Due(<<>>, 0) = 0
  BY RequestsDue, FS_EmptySet DEF Server!Due
<1>3. ProtocolInv
  BY <1>2 DEF Server!Init, ProtocolInv, Server!RequestsAnswered
<1>4. QED BY <1>1, <1>3 DEF ServerInv

\* Every step of the server keeps it.
LEMMA ServerKeeps ==
  ASSUME ServerInv, [Server!Next]_(Server!vars)
  PROVE  ServerInv'
<1> USE DEF ServerInv
<1>1. CASE UNCHANGED Server!vars
  BY RequestsDue, <1>1
      DEF Server!vars, AdapterInv, Server!NothingLost, ProtocolInv, Server!RequestsAnswered,
      Server!Due, Server!Asks
<1>2. ASSUME NEW m \in Server!Messages, Server!Unreadable(m) PROVE ServerInv'
  <2>1. ProtocolInv'
    BY <1>2, ProtocolKeeps DEF Server!Unreadable, Server!Asks
  <2>2. AdapterInv'
    BY <1>2 DEF Server!Unreadable, Server!Reads, Server!adapter, AdapterInv, Server!NothingLost
  <2>3. QED BY <2>1, <2>2
<1>3. ASSUME NEW m \in Server!Messages, Server!Ignore(m) PROVE ServerInv'
  <2>1. ~Server!Asks(m) /\ told' = told /\ Server!Reads(m)
    BY <1>3 DEF Server!Ignore, Server!Ignored, Server!Asks
  <2>2. ProtocolInv'
    BY <2>1, ProtocolKeeps
  <2>3. AdapterInv'
    BY <1>3 DEF Server!Ignore, Server!Reads, Server!adapter, AdapterInv, Server!NothingLost
  <2>4. QED BY <2>2, <2>3
<1>4. ASSUME NEW m \in Server!Messages, Server!Answer(m) PROVE ServerInv'
  <2>1. Server!Asks(m) /\ Server!Reads(m) /\ \E k \in {"result", "refused"} : Server!Says(k, m.id)
    BY <1>4 DEF Server!Answer, Server!Ignored, Server!Asks
  <2>2. ProtocolInv'
    BY <2>1, ProtocolKeeps
  <2>3. AdapterInv'
    BY <1>4 DEF Server!Answer, Server!Reads, Server!adapter, AdapterInv, Server!NothingLost
  <2>4. QED BY <2>2, <2>3
<1>5. ASSUME NEW m \in Server!Messages, NEW f \in Server!Failures, Server!Recall(m, f)
      PROVE  ServerInv'
  <2>1. Server!Asks(m) /\ Server!Reads(m) /\ Server!Recalls(f) /\ serving' = serving
    BY <1>5 DEF Server!Recall, Server!Ignored, Server!Asks, Server!Reported
  <2>2. \E k \in {"result", "refused", "failed"} : Server!Says(k, m.id)
    <3> DEFINE e == Server!Outcome(f)
    <3>1. Server!Reported(e, m.id)
      BY <1>5 DEF Server!Recall
    <3> HIDE DEF e
    <3>2. CASE e = "nothing"
      BY <3>1, <3>2 DEF Server!Reported
    <3>3. CASE e \in {"value", "key"}
      BY <3>1, <3>3 DEF Server!Reported
    <3>4. CASE e \notin {"nothing", "value", "key"}
      BY <3>1, <3>4 DEF Server!Reported
    <3>5. QED BY <3>2, <3>3, <3>4
  <2>3. ProtocolInv'
    BY <2>1, <2>2, ProtocolKeeps
  <2>4. AdapterInv'
    BY <2>1, AdapterOpens DEF AdapterInv, Server!Reads
  <2>5. QED BY <2>3, <2>4
<1>6. ASSUME NEW f, Server!EndOfInput(f) \/ Server!Close(f) PROVE ServerInv'
  <2>1. Server!Closed(f) /\ serving' \in {serving, FALSE} /\ UNCHANGED <<vectors, asked, told>>
    BY <1>6 DEF Server!EndOfInput, Server!Close
  <2>2. ProtocolInv'
    BY RequestsDue, <2>1 DEF ProtocolInv, Server!RequestsAnswered, Server!Due, Server!Asks
  <2>3. AdapterInv'
    BY <2>1, AdapterCloses DEF AdapterInv
  <2>4. QED BY <2>2, <2>3
<1>7. QED BY <1>1, <1>2, <1>3, <1>4, <1>5, <1>6 DEF Server!Next

\* mcp_legacy_server.py and harness.py.
LEMMA ServerReports == Server!Spec
  => [](Server!TypeOK /\ Server!NothingLost /\ Server!RequestsAnswered)
<1>1. ServerInv => Server!TypeOK /\ Server!NothingLost /\ Server!RequestsAnswered
  BY DEF ServerInv, AdapterInv, ProtocolInv, Server!TypeOK, Answers
<1>2. ServerInv /\ [Server!Next]_(Server!vars) => ServerInv'
  BY ServerKeeps
<1>3. QED BY ServerBegins, <1>1, <1>2, PTL DEF Server!Spec
-----------------------------------------------------------------------------
(* All of them                                                             *)

\* scheduler.py, retrieval.py, multi_device.py, shadow_worker.py, model_worker.py: no
\* answer is of another request, over what was closed, or of another generation or
\* model than it says.
THEOREM AnswersStay == Serving => []AnswersBelong
<1>1. Serving => []Scheduler!SearchesApart
  BY OwnSearches, PTL DEF Serving
<1>2. Serving => []Connection!RankedByOwnQuery
  BY OwnQueries, PTL DEF Serving
<1>3. Serving => []Devices!GlobalRanking
  BY RankingIsGlobal, PTL DEF Serving, Owning
<1>4. Serving => [](Measuring!ConsistentIsComparable /\ Measuring!ServesReferenceSource
                   /\ Measuring!DeliveredIsAsked)
  BY MeasuringHonest, PTL DEF Serving
<1> QED BY <1>1, <1>2, <1>3, <1>4, PTL DEF AnswersBelong

\* thm/evaluation, mcp_server.py, mcp_legacy_server.py, harness.py: an outcome, the
\* result of a run and the answer of a request are reported once, and only of what
\* was done, whatever fails.
THEOREM ReportsStay == Serving => []ReportsAreTrue
<1>1. Serving => [](Evaluation!OutcomesAddUp /\ Evaluation!ResultIsFinal
                   /\ Evaluation!MemoryIsWhatWasSeen)
  BY EvaluationReports, PTL DEF Serving
<1>2. Serving => [](Server!NothingLost /\ Server!RequestsAnswered)
  BY ServerReports, PTL DEF Serving
<1> QED BY <1>1, <1>2, PTL DEF ReportsAreTrue

\* evaluation/memory.py: save never replaces a snapshot that is there.
THEOREM PublishedSnapshotsStay == Serving => SnapshotsStay
BY SnapshotsKept DEF Serving, SnapshotsStay
=============================================================================

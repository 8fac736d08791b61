----------------------------- MODULE OwnersProofs -----------------------------
(***************************************************************************)
(* Proofs about Owners, for any workers, providers, allocations, indexes,  *)
(* replicas, threads, devices, rows, rebuilds, sessions, members of a      *)
(* group, sizes and budgets: a session of the portfolio uses the ready     *)
(* point, one worker at most is open, and a closed portfolio leaves none   *)
(* to itself; the pool, the manager, the index over several devices and    *)
(* the sessions implement LeasedResource, and what they hold stays within  *)
(* the budget; a group that is accepted or stopped is what its parent      *)
(* takes it for.                                                           *)
(***************************************************************************)
EXTENDS Owners, FiniteSetTheorems, TLAPS

-----------------------------------------------------------------------------
(* The model portfolio                                                     *)

\* A thread that has not finished is that of the worker in preparation.
OnePreparation ==
  \A w \in Workers : jobs[w] # Nil /\ jobs[w].step # "done" => preparing = w

\* Nothing is ready while a worker is prepared, up to its promotion.
ReadyIsPromoted ==
  /\ ready # Nil => jobs[ready.worker] # Nil
  /\ \A w \in Workers :
       jobs[w] # Nil =>
         /\ jobs[w].step \notin {"forget", "done"} => ready = Nil
         /\ jobs[w].step = "forget" => ready = Nil \/ ready = Point(w)

\* An open worker is the ready one, or in preparation and not promoted.
OpenForAReason ==
  \A w \in open :
    \/ ready # Nil /\ ready.worker = w
    \/ jobs[w] # Nil /\ jobs[w].step \notin {"forget", "done"}

\* A search uses the point of the session; a closed portfolio has no requests.
SearchesActive ==
  /\ request.step # "idle" => request.key \in Keys
  /\ request.step = "search" => active # Nil
  /\ closed => request.step = "idle"

\* Once the portfolio is closed, a thread is about to close any worker left.
ClosedIsLeaving == closed => open \subseteq closers

PortfolioInv ==
  /\ TypeOK
  /\ OnePreparation
  /\ ReadyIsPromoted
  /\ ActiveIsReady
  /\ OpenForAReason
  /\ SearchesActive
  /\ ClosedIsLeaving

-----------------------------------------------------------------------------
(* The request thread                                                      *)

\* A request is taken, answered, or ends without a preparation.
LEMMA RequestKeeps ==
  ASSUME PortfolioInv,
         (\E k \in Keys : Request(k)) \/ SearchAnswers \/ ExploreNothing
  PROVE  PortfolioInv'
<1>1. UNCHANGED <<ready, active, preparing, closed, cursor, jobs, open, preempted,
                  closers, quarantine>>
  BY DEF Request, SearchAnswers, ExploreNothing
<1>2. request' \in [step : {"idle", "search", "explore"}, key : Keys \cup {Nil}]
  BY DEF Request, SearchAnswers, ExploreNothing, Resting, PortfolioInv, TypeOK
<1>3. SearchesActive'
  BY <1>1 DEF Request, SearchAnswers, ExploreNothing, Resting, PortfolioInv, SearchesActive,
              TypeOK
<1>4. QED
  BY <1>1, <1>2, <1>3 DEF PortfolioInv, TypeOK, OnePreparation, ReadyIsPromoted, Point,
                          ActiveIsReady, OpenForAReason, ClosedIsLeaving

\* The point that is given up is the ready one, whose worker is closed.
LEMMA SearchFailsKeeps ==
  ASSUME PortfolioInv, SearchFails
  PROVE  PortfolioInv'
<1>1. /\ active # Nil /\ active = ready /\ active.worker \in Workers
      /\ active' = Nil /\ ready' = Nil /\ open' = open \ {ready.worker}
      /\ UNCHANGED <<preparing, closed, cursor, jobs, preempted, closers>>
  BY DEF SearchFails, PortfolioInv, SearchesActive, ActiveIsReady, TypeOK, Points
<1>2. /\ request'.step = "explore" /\ request.step = "search"
      /\ request'.key \in Keys
      /\ request' \in [step : {"idle", "search", "explore"}, key : Keys \cup {Nil}]
  BY DEF SearchFails, PortfolioInv, TypeOK, SearchesActive
<1>3. OpenForAReason'
  BY <1>1 DEF PortfolioInv, OpenForAReason
<1>4. quarantine' \subseteq Keys \X Providers
  <2>1. jobs[active.worker] \in Jobs
    BY <1>1 DEF PortfolioInv, TypeOK, ReadyIsPromoted
  <2>2. QED BY <1>1, <2>1 DEF PortfolioInv, TypeOK, SearchFails, Target, Jobs
<1>5. QED
  BY <1>1, <1>2, <1>3, <1>4 DEF PortfolioInv, TypeOK, OnePreparation, ReadyIsPromoted, Point,
                          ActiveIsReady, SearchesActive, ClosedIsLeaving

\* A stale point is dropped when nothing is prepared and no session uses it.
LEMMA DropStaleKeeps ==
  ASSUME PortfolioInv, DropStale
  PROVE  PortfolioInv'
<1>1. /\ ready # Nil /\ active = Nil /\ preparing = Nil
      /\ ready' = Nil /\ open' = open \ {ready.worker}
      /\ UNCHANGED <<active, preparing, closed, cursor, jobs, preempted, closers,
                     quarantine, request>>
  BY DEF DropStale
<1>2. OpenForAReason'
  BY <1>1 DEF PortfolioInv, OpenForAReason
<1>3. QED
  BY <1>1, <1>2 DEF PortfolioInv, TypeOK, OnePreparation, ReadyIsPromoted, Point,
                    ActiveIsReady, SearchesActive, ClosedIsLeaving

\* The next provider is tried another time.
LEMMA AdvancedInRange ==
  ASSUME TypeOK, Advanced
  PROVE  cursor' \in Providers
BY PortfolioAssumption DEF TypeOK, Advanced, Providers

LEMMA StartQuarantinedKeeps ==
  ASSUME PortfolioInv, StartQuarantined
  PROVE  PortfolioInv'
<1>1. /\ request' = Resting /\ cursor' \in Providers /\ request.step = "explore"
      /\ UNCHANGED <<ready, active, preparing, closed, jobs, open, preempted, closers,
                     quarantine>>
  BY AdvancedInRange DEF StartQuarantined, MayStart, PortfolioInv
<1>2. QED
  BY <1>1 DEF PortfolioInv, TypeOK, OnePreparation, ReadyIsPromoted, Point, Resting,
              ActiveIsReady, OpenForAReason, SearchesActive, ClosedIsLeaving

\* A worker is started when there is none: none is ready or in preparation, so
\* that none is open.
LEMMA StartKeeps ==
  ASSUME PortfolioInv, NEW w \in Workers, Start(w)
  PROVE  PortfolioInv'
<1>1. /\ active = Nil /\ preparing = Nil /\ ready = Nil /\ ~closed /\ request.step = "explore"
      /\ jobs[w] = Nil /\ preparing' = w /\ open' = open \cup {w}
      /\ request' = Resting /\ cursor' \in Providers
      /\ UNCHANGED <<ready, active, closed, preempted, closers, quarantine>>
  BY AdvancedInRange DEF Start, MayStart, PortfolioInv
<1>2. /\ jobs' \in [Workers -> Jobs \cup {Nil}]
      /\ jobs'[w] \in Jobs /\ jobs'[w] # Nil /\ jobs'[w].step = "launch"
      /\ \A v \in Workers : v # w => jobs'[v] = jobs[v]
  <2>1. [key |-> request.key, provider |-> cursor, step |-> "launch"] \in Jobs
    <3>1. request.key \in Keys
      BY <1>1 DEF PortfolioInv, SearchesActive
    <3>2. QED BY <3>1 DEF Jobs, Steps, PortfolioInv, TypeOK
  <2>2. QED BY <2>1, PortfolioAssumption DEF Start, PortfolioInv, TypeOK
<1>3. \A v \in Workers : jobs[v] # Nil => jobs[v].step = "done"
  BY <1>1, PortfolioAssumption DEF PortfolioInv, OnePreparation
<1>4. TypeOK'
  BY <1>1, <1>2 DEF PortfolioInv, TypeOK, Resting
<1>5. OnePreparation' /\ ReadyIsPromoted' /\ ActiveIsReady'
  BY <1>1, <1>2, <1>3 DEF PortfolioInv, OnePreparation, ReadyIsPromoted, ActiveIsReady
<1>6. OpenForAReason'
  BY <1>1, <1>2, <1>3 DEF PortfolioInv, TypeOK, OpenForAReason
<1>7. SearchesActive' /\ ClosedIsLeaving'
  BY <1>1 DEF SearchesActive, ClosedIsLeaving, Resting
<1>8. QED BY <1>4, <1>5, <1>6, <1>7 DEF PortfolioInv

\* A new session takes the ready point.
LEMMA NewSessionKeeps ==
  ASSUME PortfolioInv, NewSession
  PROVE  PortfolioInv'
<1>1. /\ request = Resting /\ active' = ready
      /\ UNCHANGED <<ready, preparing, closed, cursor, jobs, open, preempted, closers,
                     quarantine, request>>
  BY DEF NewSession
<1>2. QED
  BY <1>1 DEF PortfolioInv, TypeOK, OnePreparation, ReadyIsPromoted, Point, Resting,
              ActiveIsReady, OpenForAReason, SearchesActive, ClosedIsLeaving

-----------------------------------------------------------------------------
(* The thread that prepares a worker                                       *)

\* What a step of that thread does to the jobs.
LEMMA GoesTo ==
  ASSUME TypeOK, NEW w \in Workers, jobs[w] # Nil, NEW s \in Steps, Goto(w, s)
  PROVE  /\ jobs' \in [Workers -> Jobs \cup {Nil}]
         /\ jobs'[w] # Nil /\ jobs'[w].step = s /\ jobs'[w].key = jobs[w].key
         /\ \A v \in Workers : v # w => jobs'[v] = jobs[v]
<1>1. jobs[w] \in Jobs
  BY DEF TypeOK
<1>2. [jobs[w] EXCEPT !.step = s] \in Jobs
  BY <1>1 DEF Jobs
<1>3. jobs' = [jobs EXCEPT ![w] = [jobs[w] EXCEPT !.step = s]]
  BY DEF Goto
<1>4. jobs'[w] = [jobs[w] EXCEPT !.step = s]
  BY <1>3 DEF TypeOK
<1>5. QED
  BY <1>1, <1>2, <1>3, <1>4, PortfolioAssumption DEF TypeOK, Jobs

\* Up to its promotion or its end, the thread changes what it is about to do,
\* and at most the cooldowns.
LEMMA PreparesKeeps ==
  ASSUME PortfolioInv, NEW w \in Workers, Launch(w) \/ Received(w) \/ Decline(w) \/ Raised(w)
  PROVE  PortfolioInv'
<1>1. /\ jobs[w] # Nil /\ jobs[w].step \notin {"forget", "done"}
      /\ \E s \in Steps \ {"forget", "done"} : Goto(w, s)
      /\ UNCHANGED <<ready, active, preparing, closed, cursor, open, preempted, closers,
                     request>>
  BY DEF Launch, Received, Decline, Raised, At, Steps
<1>2. /\ jobs' \in [Workers -> Jobs \cup {Nil}]
      /\ jobs'[w] # Nil /\ jobs'[w].step \notin {"forget", "done"}
      /\ jobs'[w].key = jobs[w].key
      /\ \A v \in Workers : v # w => jobs'[v] = jobs[v]
  BY <1>1, GoesTo DEF PortfolioInv
<1>3. ready = Nil
  BY <1>1 DEF PortfolioInv, ReadyIsPromoted
<1>4. quarantine' \subseteq Keys \X Providers
  <2>1. jobs[w] \in Jobs
    BY <1>1 DEF PortfolioInv, TypeOK
  <2>2. Target(w) \in Keys \X Providers
    BY <2>1 DEF Target, Jobs
  <2>3. QED
    BY <2>2 DEF Launch, Received, Decline, Raised, PortfolioInv, TypeOK
<1>5. TypeOK'
  BY <1>1, <1>2, <1>4 DEF PortfolioInv, TypeOK
<1>6. OnePreparation' /\ ReadyIsPromoted' /\ OpenForAReason'
  BY <1>1, <1>2, <1>3 DEF PortfolioInv, TypeOK, OnePreparation, ReadyIsPromoted, OpenForAReason,
                          Point
<1>7. ActiveIsReady' /\ SearchesActive' /\ ClosedIsLeaving'
  BY <1>1 DEF PortfolioInv, ActiveIsReady, SearchesActive, ClosedIsLeaving
<1>8. QED BY <1>5, <1>6, <1>7 DEF PortfolioInv

\* The worker becomes the ready one; no session was using another.
LEMMA PromoteKeeps ==
  ASSUME PortfolioInv, NEW w \in Workers, Promote(w)
  PROVE  PortfolioInv'
<1>1. /\ jobs[w] # Nil /\ jobs[w].step = "decide" /\ Goto(w, "forget") /\ ready' = Point(w)
      /\ UNCHANGED <<active, preparing, closed, cursor, open, preempted, closers,
                     quarantine, request>>
  BY DEF Promote, At
<1>2. /\ jobs' \in [Workers -> Jobs \cup {Nil}]
      /\ jobs'[w] # Nil /\ jobs'[w].step = "forget" /\ jobs'[w].key = jobs[w].key
      /\ \A v \in Workers : v # w => jobs'[v] = jobs[v]
  BY <1>1, GoesTo DEF PortfolioInv, Steps
<1>3. ready = Nil /\ active = Nil
  BY <1>1 DEF PortfolioInv, ReadyIsPromoted, ActiveIsReady
<1>4. /\ ready' \in Points /\ ready' # Nil /\ ready'.worker = w
      /\ ready' = [key |-> jobs'[w].key, worker |-> w]
  <2>1. jobs[w] \in Jobs
    BY <1>1 DEF PortfolioInv, TypeOK
  <2>2. QED BY <1>1, <1>2, <2>1, PortfolioAssumption DEF Point, Points, Jobs
<1>5. \A v \in Workers : v # w /\ jobs[v] # Nil => jobs[v].step = "done"
  BY <1>1 DEF PortfolioInv, OnePreparation
<1>6. TypeOK'
  BY <1>1, <1>2, <1>4 DEF PortfolioInv, TypeOK
<1>7. OnePreparation'
  BY <1>1, <1>2 DEF PortfolioInv, OnePreparation
<1>8. ReadyIsPromoted'
  BY <1>2, <1>4, <1>5 DEF ReadyIsPromoted, Point
<1>9. OpenForAReason'
  BY <1>1, <1>2, <1>3, <1>4, <1>5 DEF PortfolioInv, TypeOK, OpenForAReason
<1>10. ActiveIsReady' /\ SearchesActive' /\ ClosedIsLeaving'
  BY <1>1, <1>3 DEF PortfolioInv, ActiveIsReady, SearchesActive, ClosedIsLeaving
<1>11. QED BY <1>6, <1>7, <1>8, <1>9, <1>10 DEF PortfolioInv

\* A worker that is not kept is closed.
LEMMA CleanupKeeps ==
  ASSUME PortfolioInv, NEW w \in Workers, Cleanup(w)
  PROVE  PortfolioInv'
<1>1. /\ jobs[w] # Nil /\ jobs[w].step = "cleanup" /\ Goto(w, "forget")
      /\ open' = open \ {w}
      /\ UNCHANGED <<ready, active, preparing, closed, cursor, preempted, closers,
                     quarantine, request>>
  BY DEF Cleanup, At
<1>2. /\ jobs' \in [Workers -> Jobs \cup {Nil}]
      /\ jobs'[w] # Nil /\ jobs'[w].step = "forget"
      /\ \A v \in Workers : v # w => jobs'[v] = jobs[v]
  BY <1>1, GoesTo DEF PortfolioInv, Steps
<1>3. ready = Nil
  BY <1>1 DEF PortfolioInv, ReadyIsPromoted
<1>4. TypeOK'
  BY <1>1, <1>2 DEF PortfolioInv, TypeOK
<1>5. OnePreparation' /\ ReadyIsPromoted' /\ OpenForAReason'
  BY <1>1, <1>2, <1>3 DEF PortfolioInv, TypeOK, OnePreparation, ReadyIsPromoted, OpenForAReason
<1>6. ActiveIsReady' /\ SearchesActive' /\ ClosedIsLeaving'
  BY <1>1 DEF PortfolioInv, ActiveIsReady, SearchesActive, ClosedIsLeaving
<1>7. QED BY <1>4, <1>5, <1>6 DEF PortfolioInv

\* The thread ends: what is still open is the ready worker.
LEMMA ForgetKeeps ==
  ASSUME PortfolioInv, NEW w \in Workers, Forget(w)
  PROVE  PortfolioInv'
<1>1. /\ jobs[w] # Nil /\ jobs[w].step = "forget" /\ Goto(w, "done") /\ preparing' = Nil
      /\ UNCHANGED <<ready, active, closed, cursor, open, preempted, closers,
                     quarantine, request>>
  BY DEF Forget, At
<1>2. /\ jobs' \in [Workers -> Jobs \cup {Nil}]
      /\ jobs'[w] # Nil /\ jobs'[w].step = "done"
      /\ \A v \in Workers : v # w => jobs'[v] = jobs[v]
  BY <1>1, GoesTo DEF PortfolioInv, Steps
<1>3. \A v \in Workers : v # w /\ jobs[v] # Nil => jobs[v].step = "done"
  BY <1>1 DEF PortfolioInv, OnePreparation
<1>4. TypeOK'
  BY <1>1, <1>2 DEF PortfolioInv, TypeOK
<1>5. OnePreparation' /\ ReadyIsPromoted' /\ OpenForAReason'
  <2>1. ready # Nil => jobs'[ready.worker] # Nil
    BY <1>2 DEF PortfolioInv, ReadyIsPromoted, TypeOK, Points
  <2>2. QED
    BY <1>1, <1>2, <1>3, <2>1 DEF PortfolioInv, TypeOK, OnePreparation, ReadyIsPromoted,
                                  OpenForAReason
<1>6. ActiveIsReady' /\ SearchesActive' /\ ClosedIsLeaving'
  BY <1>1 DEF PortfolioInv, ActiveIsReady, SearchesActive, ClosedIsLeaving
<1>7. QED BY <1>4, <1>5, <1>6 DEF PortfolioInv

-----------------------------------------------------------------------------
(* Preemption, closing, time                                               *)

LEMMA PreemptKeeps ==
  ASSUME PortfolioInv, Preempt
  PROVE  PortfolioInv'
<1>1. /\ preparing # Nil /\ preempted' = preempted \cup {preparing}
      /\ closers' = closers \cup {preparing}
      /\ UNCHANGED <<ready, active, preparing, closed, cursor, jobs, open, quarantine,
                     request>>
  BY DEF Preempt
<1>2. QED
  BY <1>1 DEF PortfolioInv, TypeOK, OnePreparation, ReadyIsPromoted, Point, ActiveIsReady,
              OpenForAReason, SearchesActive, ClosedIsLeaving

LEMMA CloseWorkerKeeps ==
  ASSUME PortfolioInv, NEW w \in Workers, CloseWorker(w)
  PROVE  PortfolioInv'
<1>1. /\ closers' = closers \ {w} /\ open' = open \ {w}
      /\ UNCHANGED <<ready, active, preparing, closed, cursor, jobs, preempted,
                     quarantine, request>>
  BY DEF CloseWorker
<1>2. QED
  BY <1>1 DEF PortfolioInv, TypeOK, OnePreparation, ReadyIsPromoted, Point, ActiveIsReady,
              OpenForAReason, SearchesActive, ClosedIsLeaving

\* Closing sees every open worker: the ready one, or that in preparation.
LEMMA CloseKeeps ==
  ASSUME PortfolioInv, Close
  PROVE  PortfolioInv'
<1>1. /\ request = Resting /\ closed' = TRUE
      /\ closers' = closers \cup Held \cup ({preparing} \ {Nil})
      /\ UNCHANGED <<ready, active, preparing, cursor, jobs, open, preempted,
                     quarantine, request>>
  BY DEF Close
<1>2. Held \subseteq Workers /\ (ready # Nil => ready.worker \in Held)
  BY DEF Held, PortfolioInv, TypeOK, Points
<1>3. \A w \in open : w \in Held \/ preparing = w
  BY <1>2 DEF PortfolioInv, TypeOK, OpenForAReason, OnePreparation
<1>4. ClosedIsLeaving'
  BY <1>1, <1>3, PortfolioAssumption DEF ClosedIsLeaving, PortfolioInv, TypeOK
<1>5. QED
  BY <1>1, <1>2, <1>4 DEF PortfolioInv, TypeOK, OnePreparation, ReadyIsPromoted, Point,
                          ActiveIsReady, OpenForAReason, SearchesActive, Resting

LEMMA ExpireKeeps ==
  ASSUME PortfolioInv, NEW t \in Keys \X Providers, Expire(t)
  PROVE  PortfolioInv'
<1>1. /\ quarantine' = quarantine \ {t}
      /\ UNCHANGED <<ready, active, preparing, closed, cursor, jobs, open, preempted,
                     closers, request>>
  BY DEF Expire
<1>2. QED
  BY <1>1 DEF PortfolioInv, TypeOK, OnePreparation, ReadyIsPromoted, Point, ActiveIsReady,
              OpenForAReason, SearchesActive, ClosedIsLeaving

-----------------------------------------------------------------------------
(* Every behaviour                                                         *)

LEMMA PortfolioStep ==
  ASSUME PortfolioInv, [Next]_vars
  PROVE  PortfolioInv'
<1>1. ASSUME Execute
      PROVE  PortfolioInv'
  BY <1>1, RequestKeeps, SearchFailsKeeps, DropStaleKeeps, StartQuarantinedKeeps, StartKeeps,
     NewSessionKeeps DEF Execute
<1>2. ASSUME NEW w \in Workers, Prepare(w)
      PROVE  PortfolioInv'
  BY <1>2, PreparesKeeps, PromoteKeeps, CleanupKeeps, ForgetKeeps DEF Prepare
<1>3. ASSUME UNCHANGED vars
      PROVE  PortfolioInv'
  BY <1>3 DEF vars, PortfolioInv, TypeOK, OnePreparation, ReadyIsPromoted, Point,
              ActiveIsReady, OpenForAReason, SearchesActive, ClosedIsLeaving
<1>4. QED
  BY <1>1, <1>2, <1>3, CloseWorkerKeeps, PreemptKeeps, CloseKeeps, ExpireKeeps DEF Next

\* In every behaviour one thread at most prepares a worker, nothing is ready
\* meanwhile, an open worker is the ready one or in preparation, and once the
\* portfolio is closed a thread is about to close it (models.py).
THEOREM PortfolioInvariance == Spec => []PortfolioInv
<1>1. Init => PortfolioInv
  <2>1. SUFFICES ASSUME Init PROVE PortfolioInv
    OBVIOUS
  <2>2. 0 \in Providers
    BY PortfolioAssumption DEF Providers
  <2>3. QED
    BY <2>1, <2>2 DEF Init, PortfolioInv, TypeOK, OnePreparation, ReadyIsPromoted, Resting,
                      ActiveIsReady, OpenForAReason, SearchesActive, ClosedIsLeaving
<1>2. PortfolioInv /\ [Next]_vars => PortfolioInv'
  BY PortfolioStep
<1>3. QED BY <1>1, <1>2, PTL DEF Spec

\* One worker at most is open: two would each be the ready one or that in
\* preparation, and nothing is ready while a worker is prepared.
LEMMA AtMostOne ==
  ASSUME PortfolioInv
  PROVE  OneReadyWorker
<1>1. \A v, w \in open : v = w
  BY DEF PortfolioInv, TypeOK, OpenForAReason, OnePreparation, ReadyIsPromoted
<1>2. open = {} \/ \E w : open = {w}
  BY <1>1
<1>3. Cardinality(open) \in {0, 1}
  BY <1>2, FS_EmptySet, FS_Singleton
<1>4. QED BY <1>3 DEF OneReadyWorker, OneWorker, PortfolioInv

\* However preparations, preemptions, failures, stale points and closing
\* interleave, a session uses the ready point, and one worker at most holds the
\* memory and processor budget of a preparation (models.py).
THEOREM OneWorkerServes == Spec => []OneReadyWorker
BY PortfolioInvariance, AtMostOne, PTL

\* A closed portfolio leaves no worker that nobody is about to close.
THEOREM CloseReachesAll == Spec => []ClosedIsLeaving
<1>1. PortfolioInv => ClosedIsLeaving
  BY DEF PortfolioInv
<1>2. QED BY <1>1, PortfolioInvariance, PTL

-----------------------------------------------------------------------------
(* Sums.  Those of FiniteSetsExt (MapThenSumSet) choose an element of a    *)
(* set and go on without it: the order does not matter, and a part of a    *)
(* set of naturals sums to no more than the whole.                         *)

\* MapThenSumSet picks an element, and goes on without it.
Pick(s) == CHOOSE x \in s : TRUE

\* g sums w over the subsets of S, as MapThenFoldSet does.
Sums(g, w, S) ==
  g = [s \in SUBSET S |-> IF s = {} THEN 0 ELSE w[Pick(s)] + g[s \ {Pick(s)}]]

\* An element is picked from any set that has one.
LEMMA PickIsIn == ASSUME NEW s, s # {} PROVE Pick(s) \in s
BY DEF Pick

\* Induction over the subsets of a finite set: a family of them has a least one.
LEMMA LeastSubset ==
  ASSUME NEW S, IsFiniteSet(S), NEW F, F \subseteq SUBSET S, F # {}
  PROVE  \E T \in F : \A U \in F : ~(U \subseteq T /\ U # T)
<1> DEFINE R == StrictSubsetOrdering(S)
           A == FiniteSubsetsOf(S)
<1>1. IsWellFoundedOn(R, A)
  BY FS_StrictSubsetOrderingWellFounded
<1>2. A = SUBSET S
  BY FS_FiniteSubsetsOfFinite
<1> HIDE DEF R, A
<1>3. \E T \in F : \A U \in F : ~(<<U, T>> \in R)
  BY <1>1, <1>2, WFMin
<1>4. \A U, T \in F : U \subseteq T /\ U # T => <<U, T>> \in R
  BY DEF R, StrictSubsetOrdering
<1>5. QED BY <1>3, <1>4

\* Two sums of the same agree wherever both are defined.
LEMMA SumsAgree ==
  ASSUME NEW S, IsFiniteSet(S), NEW T, T \subseteq S, NEW g, NEW h, NEW w,
         Sums(g, w, S), Sums(h, w, T)
  PROVE  \A s \in SUBSET T : g[s] = h[s]
<1> DEFINE F == {s \in SUBSET T : g[s] # h[s]}
<1>1. SUFFICES ASSUME F # {} PROVE FALSE
  OBVIOUS
<1>2. IsFiniteSet(T)
  BY FS_Subset
<1>3. PICK s \in F : \A u \in F : ~(u \subseteq s /\ u # s)
  <2>1. F \subseteq SUBSET T
    OBVIOUS
  <2> HIDE DEF F
  <2>2. QED BY <1>1, <1>2, <2>1, LeastSubset
<1> DEFINE x == Pick(s)
<1>4. s # {}
  BY <1>3 DEF Sums
<1>5. x \in s
  BY <1>4, PickIsIn
<1>6. g[s] = w[x] + g[s \ {x}] /\ h[s] = w[x] + h[s \ {x}]
  BY <1>3, <1>4 DEF Sums
<1>7. g[s \ {x}] = h[s \ {x}]
  BY <1>3, <1>5
<1>8. QED BY <1>3, <1>6, <1>7

\* There is such a sum over every finite set.
LEMMA SumsExist ==
  ASSUME NEW S, IsFiniteSet(S), NEW w
  PROVE  \E g : Sums(g, w, S)
<1> DEFINE F == {T \in SUBSET S : ~\E g : Sums(g, w, T)}
<1>1. SUFFICES ASSUME F # {} PROVE FALSE
  <2>1. F = {}
    BY <1>1
  <2>2. S \notin F /\ S \in SUBSET S
    BY <2>1
  <2>3. QED BY <2>2
<1>2. PICK T \in F : \A U \in F : ~(U \subseteq T /\ U # T)
  <2>1. F \subseteq SUBSET S
    OBVIOUS
  <2> HIDE DEF F
  <2>2. QED BY <1>1, <2>1, LeastSubset
<1> DEFINE of(U) == CHOOSE g : Sums(g, w, U)
           v == [U \in SUBSET T |-> IF U = {} THEN 0
                   ELSE w[Pick(U)] + of(U \ {Pick(U)})[U \ {Pick(U)}]]
<1>3. \A U \in SUBSET T : U # T => Sums(of(U), w, U)
  <2>1. \A U \in SUBSET T : U # T => \E g : Sums(g, w, U)
    BY <1>2
  <2> TAKE U \in SUBSET T
  <2> HAVE U # T
  <2>2. \E g : Sums(g, w, U)
    BY <2>1
  <2>3. QED BY <2>2
<1>4. ASSUME NEW U \in SUBSET T, U # {} PROVE v[U] = w[Pick(U)] + v[U \ {Pick(U)}]
  <2> DEFINE x == Pick(U)
             V == U \ {x}
  <2>1. x \in U /\ V \in SUBSET T /\ V # T /\ V # U /\ V \subseteq U
    BY <1>4, PickIsIn
  <2>2. v[U] = w[x] + of(V)[V]
    BY <1>4
  <2>3. v[V] = of(V)[V]
    <3>1. CASE V = {}
      <4>1. Sums(of(V), w, V) /\ V \in SUBSET V
        BY <1>3, <2>1
      <4>2. of(V)[V] = 0
        BY <4>1, <3>1 DEF Sums
      <4>3. QED BY <2>1, <3>1, <4>2
    <3>2. CASE V # {}
      <4> DEFINE y == Pick(V)
                 W == V \ {y}
      <4>1. y \in V /\ W \in SUBSET T /\ W # T /\ W \subseteq V
        BY <2>1, <3>2, PickIsIn
      <4>2. Sums(of(V), w, V) /\ Sums(of(W), w, W)
        BY <1>3, <2>1, <4>1
      <4>3. of(V)[V] = w[y] + of(V)[W]
        BY <3>2, <4>2 DEF Sums
      <4>4. IsFiniteSet(V)
        BY <2>1, <1>2, FS_Subset
      <4> HIDE DEF of, W, v, V
      <4>5. of(V)[W] = of(W)[W]
        BY <4>1, <4>2, <4>4, SumsAgree
      <4> USE DEF v, W
      <4>6. v[V] = w[y] + of(W)[W]
        BY <2>1, <3>2
      <4>7. QED BY <4>3, <4>5, <4>6
    <3>3. QED BY <3>1, <3>2
  <2>4. QED BY <2>2, <2>3
<1>5. v[{}] = 0
  OBVIOUS
<1>6. DOMAIN v = SUBSET T /\ v = [U \in SUBSET T |-> v[U]]
  OBVIOUS
<1> HIDE DEF v
<1>7. Sums(v, w, T)
  BY <1>4, <1>5, <1>6 DEF Sums
<1>8. QED BY <1>2, <1>7

\* A sum may be taken apart at any element.
LEMMA SumsSplit ==
  ASSUME NEW S, IsFiniteSet(S), NEW w, NEW g, Sums(g, w, S), \A x \in S : w[x] \in Nat
  PROVE  /\ g[{}] = 0
         /\ \A T \in SUBSET S : g[T] \in Nat /\ \A x \in T : g[T] = w[x] + g[T \ {x}]
<1>1. /\ g[{}] = 0
      /\ \A T \in SUBSET S : T # {} => Pick(T) \in T /\ g[T] = w[Pick(T)] + g[T \ {Pick(T)}]
  BY PickIsIn DEF Sums
<1> DEFINE F == {T \in SUBSET S : ~(g[T] \in Nat /\ \A x \in T : g[T] = w[x] + g[T \ {x}])}
<1>2. SUFFICES ASSUME F # {} PROVE FALSE
  BY <1>1
<1>3. PICK T \in F : \A U \in F : ~(U \subseteq T /\ U # T)
  <2>1. F \subseteq SUBSET S
    OBVIOUS
  <2> HIDE DEF F
  <2>2. QED BY <1>2, <2>1, LeastSubset
<1>4. \A U \in SUBSET S : U \subseteq T /\ U # T => U \notin F
  BY <1>3
<1>5. T # {}
  <2>1. T \in F
    BY <1>3
  <2>2. {} \notin F
    BY <1>1
  <2>3. QED BY <2>1, <2>2
<1> DEFINE y == Pick(T)
<1>6. y \in T /\ g[T] = w[y] + g[T \ {y}] /\ w[y] \in Nat
  BY <1>1, <1>3, <1>5
<1>7. g[T \ {y}] \in Nat /\ \A x \in T \ {y} : g[T \ {y}] = w[x] + g[(T \ {y}) \ {x}]
  <2>1. T \ {y} \notin F /\ T \ {y} \in SUBSET S
    BY <1>3, <1>4, <1>6
  <2>2. QED BY <2>1
<1> HIDE DEF y
<1>8. ASSUME NEW x \in T PROVE g[T] = w[x] + g[T \ {x}]
  <2>1. CASE x = y
    BY <1>6, <2>1
  <2>2. CASE x # y
    <3>1. T \ {x} \notin F /\ T \ {x} \in SUBSET S /\ y \in T \ {x}
      BY <1>3, <1>4, <1>6, <2>2
    <3>2. g[T \ {x}] = w[y] + g[(T \ {x}) \ {y}]
      BY <3>1
    <3>3. (T \ {x}) \ {y} = (T \ {y}) \ {x} /\ x \in T \ {y}
      BY <2>2
    <3>4. (T \ {y}) \ {x} \notin F /\ (T \ {y}) \ {x} \in SUBSET S
      BY <1>3, <1>4, <1>6
    <3>5. g[(T \ {y}) \ {x}] \in Nat /\ w[x] \in Nat
      BY <1>3, <3>4
    <3>6. g[T \ {y}] = w[x] + g[(T \ {y}) \ {x}]
      BY <1>7, <3>3
    <3> DEFINE rest == g[(T \ {y}) \ {x}]
    <3>7. g[T \ {x}] = w[y] + rest
      BY <3>2, <3>3
    <3> HIDE DEF rest
    <3>8. QED BY <1>6, <3>5, <3>6, <3>7 DEF rest
  <2>3. QED BY <2>1, <2>2
<1>9. g[T] \in Nat
  BY <1>6, <1>7
<1>10. QED BY <1>3, <1>8, <1>9


\* The sum of w over S.
SumOf(w, S) == (CHOOSE g : Sums(g, w, S))[S]

\* A sum over a part is found in the sum over the whole.
LEMMA SumOfPart ==
  ASSUME NEW S, IsFiniteSet(S), NEW T \in SUBSET S, NEW w, NEW g, Sums(g, w, S)
  PROVE  SumOf(w, T) = g[T]
<1> DEFINE h == CHOOSE f : Sums(f, w, T)
<1>1. IsFiniteSet(T) /\ T \subseteq S
  BY FS_Subset
<1>2. Sums(h, w, T)
  BY <1>1, SumsExist
<1> HIDE DEF h
<1>3. g[T] = h[T]
  BY <1>1, <1>2, SumsAgree
<1>4. QED BY <1>3 DEF SumOf, h

\* A sum of naturals is a natural, and any element may be taken out of it.
LEMMA SumSplits ==
  ASSUME NEW S, IsFiniteSet(S), NEW w, \A x \in S : w[x] \in Nat
  PROVE  /\ SumOf(w, {}) = 0 /\ SumOf(w, S) \in Nat
         /\ \A x \in S : SumOf(w, S) = w[x] + SumOf(w, S \ {x})
<1>1. PICK g : Sums(g, w, S)
  BY SumsExist
<1>2. \A T \in SUBSET S : SumOf(w, T) = g[T]
  BY <1>1, SumOfPart
<1>3. /\ g[{}] = 0
      /\ \A T \in SUBSET S : g[T] \in Nat /\ \A x \in T : g[T] = w[x] + g[T \ {x}]
  BY <1>1, SumsSplit
<1>4. {} \in SUBSET S /\ S \in SUBSET S /\ \A x \in S : S \ {x} \in SUBSET S
  OBVIOUS
<1>5. SumOf(w, {}) = g[{}] /\ SumOf(w, S) = g[S] /\ \A x \in S : SumOf(w, S \ {x}) = g[S \ {x}]
  BY <1>2, <1>4
<1>6. QED BY <1>3, <1>4, <1>5

\* A part sums to no more than the whole.
LEMMA SumGrows ==
  ASSUME NEW S, IsFiniteSet(S), NEW w, \A x \in S : w[x] \in Nat, NEW T \in SUBSET S
  PROVE  SumOf(w, T) \in Nat /\ SumOf(w, T) <= SumOf(w, S)
<1> DEFINE F == {U \in SUBSET S : T \subseteq U /\ ~(SumOf(w, T) <= SumOf(w, U))}
<1>1. \A U \in SUBSET S : IsFiniteSet(U) /\ SumOf(w, U) \in Nat
                          /\ \A x \in U : SumOf(w, U) = w[x] + SumOf(w, U \ {x})
  <2> TAKE U \in SUBSET S
  <2>1. IsFiniteSet(U) /\ \A x \in U : w[x] \in Nat
    BY FS_Subset
  <2>2. QED BY <2>1, SumSplits
<1>2. SUFFICES ASSUME F # {} PROVE FALSE
  BY <1>1
<1>3. PICK U \in F : \A V \in F : ~(V \subseteq U /\ V # U)
  <2>1. F \subseteq SUBSET S
    OBVIOUS
  <2> HIDE DEF F
  <2>2. QED BY <1>2, <2>1, LeastSubset
<1>4. U \in SUBSET S /\ T \subseteq U /\ ~(SumOf(w, T) <= SumOf(w, U))
  BY <1>3
<1>5. PICK x \in U : x \notin T
  <2>1. SumOf(w, T) \in Nat
    BY <1>1
  <2>2. T # U
    BY <1>4, <2>1
  <2>3. QED BY <1>4, <2>2
<1>6. U \ {x} \notin F
  BY <1>3, <1>5
<1>7. SumOf(w, T) <= SumOf(w, U \ {x}) /\ U \ {x} \in SUBSET S
  BY <1>4, <1>5, <1>6
<1>8. /\ SumOf(w, U) = w[x] + SumOf(w, U \ {x}) /\ w[x] \in Nat
      /\ SumOf(w, U \ {x}) \in Nat /\ SumOf(w, T) \in Nat
  BY <1>1, <1>4, <1>5, <1>7
<1>9. QED BY <1>4, <1>7, <1>8

\* What is summed counts on the set alone.
LEMMA SumsOfEquals ==
  ASSUME NEW S, NEW w, NEW v, \A x \in S : w[x] = v[x]
  PROVE  SumOf(w, S) = SumOf(v, S)
<1>1. ASSUME NEW s \in SUBSET S, s # {} PROVE w[Pick(s)] = v[Pick(s)]
  BY <1>1, PickIsIn
<1>2. \A g : Sums(g, w, S) <=> Sums(g, v, S)
  BY <1>1 DEF Sums
<1>3. QED BY <1>2 DEF SumOf

-----------------------------------------------------------------------------
(* The allocation pool                                                     *)

\* What is leased is owned, and what is owned was never given back.
Owned ==
  /\ \A a \in Allocations : leases[a] # {} => a \in allocated
  /\ allocated \cap released = {}
  /\ poolClosed => allocated \subseteq evicted

PoolInv == Pool!TypeOK /\ Owned

\* What _release may do to allocations that are owned and not leased.
LEMMA PoolReleases ==
  ASSUME NEW due \in SUBSET allocated, Pool!Release(due), Pool!TypeOK,
         allocated \cap released = {}
  PROVE  /\ allocated' \subseteq allocated /\ allocated \ allocated' \subseteq due
         /\ released \subseteq released' /\ released' \subseteq released \cup due
         /\ allocated' \cap released' = {}
         /\ allocated' \cup released' = allocated \cup released
BY DEF Pool!Release, Pool!TypeOK

\* An allocation is added as one nobody leases, evicted or released.
LEMMA PoolAllocates ==
  ASSUME PoolInv, NEW a \in Allocations, Pool!Allocate(a)
  PROVE  PoolInv' /\ Pool!Lease!Next
<1>1. allocated' = allocated \cup {a} /\ a \notin allocated \cup released /\ ~poolClosed
      /\ evicted' = evicted /\ released' = released /\ leases' = leases
         /\ poolClosed' = poolClosed
  BY DEF Pool!Allocate
<1>2. PoolInv'
  BY <1>1 DEF PoolInv, Pool!TypeOK, Owned
<1>3. a \notin evicted /\ leases[a] = {}
  BY <1>1 DEF PoolInv, Pool!TypeOK, Owned
<1>4. Pool!Lease!Next
  BY <1>1, <1>3
      DEF PoolInv, Pool!TypeOK, Owned, Pool!Lease!Next, Pool!Lease!Evolves, Pool!Lease!Age,
      Pool!Status
<1>5. QED BY <1>2, <1>4

\* A lease is given of a live allocation only.
LEMMA PoolAcquires ==
  ASSUME PoolInv, NEW a \in Allocations, NEW u \in Users, Pool!Acquire(a, u)
  PROVE  PoolInv' /\ Pool!Lease!Next
<1>1. /\ a \in allocated \ evicted /\ leases' = [leases EXCEPT ![a] = @ \cup {u}]
      /\ UNCHANGED <<allocated, evicted, released, poolClosed>>
  BY DEF Pool!Acquire
<1>2. PoolInv'
  BY <1>1 DEF PoolInv, Pool!TypeOK, Owned
<1>3. a \notin released
  BY <1>1 DEF PoolInv, Owned
<1>4. Pool!Lease!Next
  BY <1>1, <1>3
      DEF PoolInv, Pool!TypeOK, Owned, Pool!Lease!Next, Pool!Lease!Evolves, Pool!Lease!Age,
      Pool!Status
<1>5. QED BY <1>2, <1>4

\* The last lease of an evicted allocation releases it, or leaves it owned.
LEMMA PoolLeft ==
  ASSUME PoolInv, NEW a \in Allocations, NEW u \in Users, Pool!Leave(a, u)
  PROVE  PoolInv' /\ Pool!Lease!Next
<1> DEFINE due == IF a \in evicted /\ leases[a] = {u} THEN {a} ELSE {}
<1>1. /\ u \in leases[a] /\ leases' = [leases EXCEPT ![a] = @ \ {u}]
      /\ Pool!Release(due) /\ UNCHANGED <<evicted, poolClosed>>
  BY DEF Pool!Leave
<1>2. a \in allocated /\ due \in SUBSET allocated
  BY <1>1 DEF PoolInv, Pool!TypeOK, Owned
<1>3. /\ allocated' \subseteq allocated /\ allocated \ allocated' \subseteq due
      /\ released \subseteq released' /\ released' \subseteq released \cup due
      /\ allocated' \cap released' = {}
      /\ allocated' \cup released' = allocated \cup released
  BY <1>1, <1>2, PoolReleases DEF PoolInv, Owned
<1>4. \A b \in due : b \in evicted /\ leases'[b] = {}
  BY <1>1 DEF PoolInv, Pool!TypeOK
<1>5. \A b \in Allocations : leases'[b] \subseteq leases[b]
  BY <1>1 DEF PoolInv, Pool!TypeOK
<1> HIDE DEF due
<1>6. PoolInv'
  BY <1>1, <1>3, <1>4, <1>5 DEF PoolInv, Pool!TypeOK, Owned
<1>7. Pool!Lease!Next
  BY <1>1, <1>3, <1>4, <1>5
      DEF PoolInv, Pool!TypeOK, Owned, Pool!Lease!Next, Pool!Lease!Evolves, Pool!Lease!Age,
      Pool!Status
<1>8. QED BY <1>6, <1>7

\* Eviction releases what is not leased, and only begins the rest's retirement.
LEMMA PoolRetires ==
  ASSUME PoolInv, NEW s \in SUBSET allocated,
         evicted' = evicted \cup s, Pool!Release(Pool!Evictable(s)), leases' = leases,
         poolClosed' \in BOOLEAN, poolClosed' => poolClosed \/ s = allocated
  PROVE  PoolInv' /\ Pool!Lease!Next
<1>1. /\ allocated' \subseteq allocated /\ allocated \ allocated' \subseteq Pool!Evictable(s)
      /\ released \subseteq released' /\ released' \subseteq released \cup Pool!Evictable(s)
      /\ allocated' \cap released' = {}
      /\ allocated' \cup released' = allocated \cup released
  BY PoolReleases DEF PoolInv, Owned, Pool!Evictable, Pool!Unleased
<1>2. \A b \in Pool!Evictable(s) : b \in s /\ leases[b] = {}
  BY DEF Pool!Evictable, Pool!Unleased
<1>3. PoolInv'
  BY <1>1, <1>2 DEF PoolInv, Pool!TypeOK, Owned
<1>4. Pool!Lease!Next
  BY <1>1, <1>2
      DEF PoolInv, Pool!TypeOK, Owned, Pool!Lease!Next, Pool!Lease!Evolves, Pool!Lease!Age,
      Pool!Status
<1>5. QED BY <1>3, <1>4

\* Every step of the pool keeps the invariant and is one of LeasedResource.
LEMMA PoolKeeps ==
  ASSUME PoolInv, [Pool!Next]_(Pool!vars)
  PROVE  PoolInv' /\ [Pool!Lease!Next]_<<[a \in Allocations |-> Pool!Status(a)], leases>>
<1>1. CASE UNCHANGED Pool!vars
  BY <1>1 DEF Pool!vars, PoolInv, Pool!TypeOK, Owned, Pool!Status
<1>2. CASE \E a \in Allocations : Pool!Allocate(a)
  BY <1>2, PoolAllocates
<1>3. CASE \E a \in Allocations : Pool!Evict(a)
  <2>1. PICK a \in Allocations : Pool!Evict(a)
    BY <1>3
  <2>2. {a} \in SUBSET allocated /\ evicted' = evicted \cup {a}
          /\ Pool!Release(Pool!Evictable({a}))
        /\ leases' = leases /\ poolClosed' = poolClosed /\ poolClosed \in BOOLEAN
    BY <2>1 DEF Pool!Evict, PoolInv, Pool!TypeOK
  <2>3. QED BY <2>2, PoolRetires
<1>4. CASE \E a \in Allocations, u \in Users : Pool!Acquire(a, u)
  BY <1>4, PoolAcquires
<1>5. CASE \E a \in Allocations, u \in Users : Pool!Leave(a, u)
  BY <1>5, PoolLeft
<1>6. CASE Pool!Close
  <2>1. poolClosed' = TRUE /\ evicted' = evicted \cup allocated
          /\ Pool!Release(Pool!Evictable(allocated))
        /\ leases' = leases
    BY <1>6 DEF Pool!Close
  <2>2. QED BY <2>1, PoolRetires
<1>7. QED BY <1>1, <1>2, <1>3, <1>4, <1>5, <1>6 DEF Pool!Next

\* As the pool begins, so does LeasedResource.
LEMMA PoolBegins ==
  ASSUME Pool!Init
  PROVE  PoolInv /\ Pool!Lease!Init
BY DEF Pool!Init, PoolInv, Pool!TypeOK, Owned, Pool!Lease!Init, Pool!Status

\* allocation.py: what is leased is owned, what is owned was not released, and
\* a closed pool owns only what it was told to evict.
THEOREM PoolInvariance == Pool!Spec => []PoolInv
<1>1. Pool!Init => PoolInv
  BY PoolBegins
<1>2. PoolInv /\ [Pool!Next]_(Pool!vars) => PoolInv'
  BY PoolKeeps
<1>3. QED BY <1>1, <1>2, PTL DEF Pool!Spec

\* allocation.py: an allocation is released at most once, after its last lease,
\* and never leased once evicted, whatever release callbacks raise.
THEOREM PoolRefinement == Pool!Spec => Pool!PoolLeases
<1>1. Pool!Init => Pool!Lease!Init
  BY PoolBegins
<1>2. PoolInv /\ [Pool!Next]_(Pool!vars)
        => [Pool!Lease!Next]_<<[a \in Allocations |-> Pool!Status(a)], leases>>
  BY PoolKeeps
<1>3. QED BY <1>1, <1>2, PoolInvariance, PTL DEF Pool!Spec, Pool!PoolLeases, Pool!Lease!Spec

\* The pool counts its allocations so.
LEMMA PoolSums ==
  ASSUME NEW S, NEW w, \A x \in S : w[x] = AllocationSize(x)
  PROVE  Pool!Bytes(S) = SumOf(w, S)
<1>1. ASSUME NEW s \in SUBSET S, s # {} PROVE w[Pick(s)] = AllocationSize(Pick(s))
  BY <1>1, PickIsIn
<1>2. \A g : Sums(g, w, S) <=>
        g = [s \in SUBSET S |-> IF s = {} THEN 0 ELSE AllocationSize(Pick(s)) + g[s \ {Pick(s)}]]
  BY <1>1 DEF Sums
<1>3. QED BY <1>2 DEF Pool!Bytes, Pool!MapThenSumSet, Pool!MapThenFoldSet, SumOf, Pick

\* allocation.py: what the pool owns fits its capacity.
PoolFits == IsFiniteSet(allocated) /\ Pool!Bytes(allocated) <= Capacity

\* A part of what fits the capacity fits it.
LEMMA PoolWithin ==
  ASSUME PoolInv, NEW S \in SUBSET Allocations, IsFiniteSet(S), Pool!Bytes(S) <= Capacity,
         NEW T \in SUBSET S
  PROVE  IsFiniteSet(T) /\ Pool!Bytes(T) <= Capacity
<1> DEFINE w == [x \in S |-> AllocationSize(x)]
<1>1. \A x \in S : w[x] = AllocationSize(x) /\ w[x] \in Nat
  BY OwnersAssumption
<1> HIDE DEF w
<1>2. Pool!Bytes(S) = SumOf(w, S) /\ Pool!Bytes(T) = SumOf(w, T)
  BY <1>1, PoolSums
<1>3. /\ SumOf(w, T) \in Nat /\ SumOf(w, T) <= SumOf(w, S)
      /\ SumOf(w, S) \in Nat
  BY <1>1, SumGrows
<1>4. QED BY <1>2, <1>3, FS_Subset, OwnersAssumption

\* allocate is refused where it would not fit; all else gives back.
LEMMA PoolStaysWithin ==
  ASSUME PoolInv, PoolInv', PoolFits, [Pool!Next]_(Pool!vars)
  PROVE  PoolFits'
<1>1. Pool!Bytes(allocated)' = Pool!Bytes(allocated')
  BY DEF Pool!Bytes
<1>2. CASE \E a \in Allocations : Pool!Allocate(a)
  <2>1. PICK a \in Allocations : /\ allocated' = allocated \cup {a}
                                /\ Pool!Bytes(allocated \cup {a}) <= Capacity
    BY <1>2 DEF Pool!Allocate, Pool!Fits
  <2>2. QED BY <1>1, <2>1, FS_AddElement DEF PoolFits
<1>3. CASE allocated' \subseteq allocated
  BY <1>1, <1>3, PoolWithin DEF PoolFits, PoolInv, Pool!TypeOK
<1>4. ASSUME ~\E a \in Allocations : Pool!Allocate(a) PROVE allocated' \subseteq allocated
  BY <1>4 DEF Pool!Next, Pool!vars, Pool!Evict, Pool!Acquire, Pool!Leave, Pool!Close, Pool!Release
<1>5. QED BY <1>2, <1>3, <1>4

\* As the pool begins.
LEMMA PoolBeginsWithin == Pool!Init => PoolFits
<1>1. \A x \in {} : [y \in {} |-> 0][x] \in Nat /\ [y \in {} |-> 0][x] = AllocationSize(x)
  OBVIOUS
<1>2. SumOf([y \in {} |-> 0], {}) = 0
  BY <1>1, FS_EmptySet, SumSplits
<1>3. Pool!Bytes({}) = 0
  BY <1>1, <1>2, PoolSums
<1>4. QED BY <1>3, FS_EmptySet, OwnersAssumption DEF Pool!Init, PoolFits

\* allocation.py: the budget of the pool, its leases and its tables.
LEMMA PoolAccounts == Pool!Spec => []Pool!Accounted
<1>1. PoolInv /\ PoolInv' /\ PoolFits /\ [Pool!Next]_(Pool!vars) => PoolFits'
  BY PoolStaysWithin
<1>2. PoolInv /\ PoolFits => Pool!Accounted
  BY DEF PoolInv, Owned, PoolFits, Pool!Accounted
<1>3. QED BY <1>1, <1>2, PoolBeginsWithin, PoolInvariance, PTL DEF Pool!Spec

-----------------------------------------------------------------------------
(* Resident indexes                                                        *)

\* No index and no replica is Nil.
LEMMA NoIndex == Nil \notin Replicas /\ Nil \notin IndexKeys
BY OwnersAssumption

USE NoIndex

\* The tables, the open data, the marks and the leases agree.
TablesAgree ==
  /\ loaded = Handles!Resident(kept) /\ hosted = kept
  /\ \A h \in Replicas : keyOf[h] = Nil => h \notin loaded
  /\ \A h \in Replicas : inflight[h] # {} => h \in loaded
  /\ \A h \in evicting : h \in loaded /\ inflight[h] # {}

\* A thread that waits for a lease knows the identity it looked up.
ThreadsSound == \A u \in Users : at[u].step = "acquire" => at[u].key \in IndexKeys

HandleInv == Handles!TypeOK /\ TablesAgree /\ ThreadsSound

\* What is left of a table once some replicas are taken out of it.
LEMMA WithoutResident ==
  ASSUME NEW m \in [IndexKeys -> Replicas \cup {Nil}], NEW s \in SUBSET Replicas
  PROVE  /\ Handles!Without(m, s) \in [IndexKeys -> Replicas \cup {Nil}]
         /\ Handles!Resident(Handles!Without(m, s)) = Handles!Resident(m) \ s
BY DEF Handles!Without, Handles!Resident

\* ... and a new one published in a free place.
LEMMA PublishedResident ==
  ASSUME NEW m \in [IndexKeys -> Replicas \cup {Nil}], NEW k \in IndexKeys, m[k] = Nil,
         NEW h \in Replicas
  PROVE  /\ [m EXCEPT ![k] = h] \in [IndexKeys -> Replicas \cup {Nil}]
         /\ Handles!Resident([m EXCEPT ![k] = h]) = Handles!Resident(m) \cup {h}
BY DEF Handles!Resident

\* The loops over candidates remove candidates.
LEMMA EvictionsSubset ==
  ASSUME NEW candidates, NEW Enough(_), NEW s \in Handles!Evictions(candidates, Enough)
  PROVE  s \subseteq candidates
BY DEF Handles!Evictions

\* A thread goes on to the lease of an identity, or to anything else.
LEMMA ThreadGoesOn ==
  ASSUME HandleInv, NEW u \in Users, NEW k \in IndexKeys \cup {Nil},
         NEW s \in {"idle", "acquire", "search"}, s = "acquire" => k \in IndexKeys,
         at' = [at EXCEPT ![u] = [step |-> s, key |-> k]]
  PROVE  /\ at' \in [Users -> [step : {"idle", "acquire", "search"}, key : IndexKeys \cup {Nil}]]
         /\ ThreadsSound'
BY DEF HandleInv, Handles!TypeOK, ThreadsSound

\* _remove of some of the resident replicas.
LEMMA IndexRemoved ==
  ASSUME Handles!TypeOK, TablesAgree,
         NEW s \in SUBSET Handles!Resident(kept), Handles!Remove(s), keyOf' = keyOf,
           inflight' = inflight
  PROVE  /\ kept' \in [IndexKeys -> Replicas \cup {Nil}]
            /\ hosted' \in [IndexKeys -> Replicas \cup {Nil}]
         /\ loaded' \subseteq Replicas /\ evicting' \subseteq Replicas
         /\ TablesAgree' /\ Handles!Lease!Next
<1>1. /\ s \in SUBSET Replicas /\ Handles!Unused(s) \in SUBSET Replicas
         /\ Handles!Unused(s) \subseteq s
      /\ \A h \in Handles!Unused(s) : inflight[h] = {}
      /\ \A h \in s \ Handles!Unused(s) : inflight[h] # {} /\ h \in loaded
  BY DEF Handles!Resident, Handles!Unused, TablesAgree
<1>2. /\ kept' \in [IndexKeys -> Replicas \cup {Nil}]
      /\ Handles!Resident(kept') = Handles!Resident(kept) \ Handles!Unused(s)
      /\ hosted' = kept'
  BY <1>1, WithoutResident DEF Handles!Remove, Handles!TypeOK, TablesAgree
<1>3. /\ loaded' = loaded \ Handles!Unused(s)
      /\ evicting' = evicting \cup (s \ Handles!Unused(s))
  BY DEF Handles!Remove
<1>4. TablesAgree'
  <2>1. Handles!Resident(kept)' = Handles!Resident(kept')
    BY DEF Handles!Resident
  <2>2. loaded' = Handles!Resident(kept)' /\ hosted' = kept'
    BY <1>2, <1>3, <2>1 DEF TablesAgree
  <2>3. \A h \in Replicas : keyOf'[h] = Nil => h \notin loaded'
    BY <1>3 DEF TablesAgree
  <2>4. \A h \in Replicas : inflight'[h] # {} => h \in loaded'
    BY <1>1, <1>3 DEF TablesAgree
  <2>5. \A h \in evicting' : h \in loaded' /\ inflight'[h] # {}
    BY <1>1, <1>3 DEF TablesAgree
  <2>6. QED BY <2>2, <2>3, <2>4, <2>5 DEF TablesAgree
<1>5. Handles!Lease!Next
  BY <1>1, <1>3
      DEF Handles!TypeOK, TablesAgree, Handles!Lease!Next, Handles!Lease!Evolves,
      Handles!Lease!Age, Handles!Status
<1>6. QED BY <1>1, <1>2, <1>3, <1>4, <1>5 DEF Handles!TypeOK

\* A look-up removes the replicas of other generations.
LEMMA IndexLookedUp ==
  ASSUME HandleInv, NEW u \in Users, NEW k \in IndexKeys, Handles!LookUp(u, k)
  PROVE  HandleInv' /\ Handles!Lease!Next
<1>1. Handles!Stale(KeyGen(k)) \in SUBSET Handles!Resident(kept)
  BY DEF Handles!Stale
<1>2. /\ Handles!Remove(Handles!Stale(KeyGen(k))) /\ keyOf' = keyOf /\ inflight' = inflight
      /\ at' = at \/ at' = [at EXCEPT ![u] = [step |-> "acquire", key |-> k]]
  BY DEF Handles!LookUp
<1>3. /\ at' \in [Users -> [step : {"idle", "acquire", "search"}, key : IndexKeys \cup {Nil}]]
      /\ ThreadsSound'
  <2>1. CASE at' = at
    BY <2>1 DEF HandleInv, Handles!TypeOK, ThreadsSound
  <2>2. CASE at' = [at EXCEPT ![u] = [step |-> "acquire", key |-> k]]
    BY <2>2, ThreadGoesOn
  <2>3. QED BY <1>2, <2>1, <2>2
<1>4. QED BY <1>1, <1>2, <1>3, IndexRemoved DEF HandleInv, Handles!TypeOK

\* A replica is built once, and published if enough others could be removed.
LEMMA IndexBuilt ==
  ASSUME HandleInv,
         NEW u \in Users, NEW k \in IndexKeys, NEW h \in Replicas, Handles!Build(u, k, h)
  PROVE  HandleInv' /\ Handles!Lease!Next
<1> DEFINE stale == Handles!Stale(KeyGen(k))
           marked == stale \ Handles!Unused(stale)
<1>1. /\ stale \in SUBSET Handles!Resident(kept) /\ stale \in SUBSET Replicas
      /\ \A g \in marked : g \in loaded /\ inflight[g] # {} /\ g \in Replicas
      /\ Handles!Unused(stale) \in SUBSET Replicas
      /\ \A g \in Handles!Unused(stale) : inflight[g] = {}
  BY DEF Handles!Stale, Handles!Resident, Handles!Unused, HandleInv, TablesAgree
<1>2. /\ kept[k] = Nil /\ keyOf[h] = Nil
      /\ keyOf' = [keyOf EXCEPT ![h] = k] /\ inflight' = inflight
      /\ evicting' = evicting \cup marked
      /\ at' = at \/ at' = [at EXCEPT ![u] = [step |-> "acquire", key |-> k]]
  BY DEF Handles!Build
<1>3. PICK s \in SUBSET Handles!Unused(Handles!Resident(kept) \ stale), enough \in BOOLEAN :
        LET gone == s \cup Handles!Unused(stale)
            Published(m) == [Handles!Without(m, gone) EXCEPT ![k] = IF enough THEN h ELSE Nil]
        IN  /\ kept' = Published(kept) /\ hosted' = Published(hosted)
            /\ loaded' = (loaded \ gone) \cup {g \in {h} : enough}
  BY DEF Handles!Build, Handles!Evictions
<1> DEFINE gone == s \cup Handles!Unused(stale)
           new == IF enough THEN {h} ELSE {}
<1>4. /\ gone \in SUBSET Replicas
      /\ \A g \in gone : inflight[g] = {}
  BY <1>1, <1>3 DEF Handles!Unused, Handles!Resident
<1>5. /\ kept' = [Handles!Without(kept, gone) EXCEPT ![k] = IF enough THEN h ELSE Nil]
      /\ hosted' = kept'
      /\ loaded' = (loaded \ gone) \cup new
  BY <1>3 DEF HandleInv, TablesAgree
<1>6. /\ Handles!Without(kept, gone) \in [IndexKeys -> Replicas \cup {Nil}]
      /\ Handles!Resident(Handles!Without(kept, gone)) = Handles!Resident(kept) \ gone
      /\ Handles!Without(kept, gone)[k] = Nil
  BY <1>2, <1>4, WithoutResident DEF HandleInv, Handles!TypeOK, Handles!Without
<1>7. /\ kept' \in [IndexKeys -> Replicas \cup {Nil}]
      /\ Handles!Resident(kept') = (Handles!Resident(kept) \ gone) \cup new
  <2>1. CASE enough
    <3>1. kept' = [Handles!Without(kept, gone) EXCEPT ![k] = h]
      BY <1>5, <2>1
    <3>2. QED BY <3>1, <1>6, <2>1, PublishedResident, SMTT(30)
  <2>2. CASE ~enough
    <3>1. kept' = Handles!Without(kept, gone)
      BY <1>5, <1>6, <2>2
    <3>2. QED BY <3>1, <1>6, <2>2
  <2>3. QED BY <2>1, <2>2
<1> HIDE DEF gone, new, stale, marked
<1>8. /\ new \in SUBSET {h}
      /\ h \notin loaded /\ inflight[h] = {} /\ h \notin evicting
  BY <1>2 DEF new, HandleInv, TablesAgree, Handles!TypeOK
<1>9. /\ at' \in [Users -> [step : {"idle", "acquire", "search"}, key : IndexKeys \cup {Nil}]]
       /\ ThreadsSound'
  <2>1. CASE at' = at
    BY <2>1 DEF HandleInv, Handles!TypeOK, ThreadsSound
  <2>2. CASE at' = [at EXCEPT ![u] = [step |-> "acquire", key |-> k]]
    BY <2>2, ThreadGoesOn
  <2>3. QED BY <1>2, <2>1, <2>2
<1>10. Handles!TypeOK'
  <2>1. /\ keyOf' \in [Replicas -> IndexKeys \cup {Nil}]
        /\ loaded' \subseteq Replicas /\ evicting' \subseteq Replicas
    BY <1>1, <1>2, <1>5, <1>8 DEF HandleInv, Handles!TypeOK
  <2>2. inflight' \in [Replicas -> SUBSET Users]
    BY <1>2 DEF HandleInv, Handles!TypeOK
  <2>3. QED BY <1>5, <1>7, <1>9, <2>1, <2>2 DEF Handles!TypeOK
<1>11. TablesAgree'
  <2>1. Handles!Resident(kept)' = Handles!Resident(kept')
    BY DEF Handles!Resident
  <2>2. loaded' = Handles!Resident(kept)' /\ hosted' = kept'
    BY <1>5, <1>7, <2>1 DEF HandleInv, TablesAgree
  <2>3. \A g \in Replicas : keyOf'[g] = Nil => g \notin loaded'
    BY <1>2, <1>5, <1>8 DEF HandleInv, Handles!TypeOK, TablesAgree
  <2>4. \A g \in Replicas : inflight'[g] # {} => g \in loaded'
    BY <1>2, <1>4, <1>5 DEF HandleInv, TablesAgree
  <2>5. \A g \in evicting' : g \in loaded' /\ inflight'[g] # {}
    BY <1>1, <1>2, <1>4, <1>5 DEF HandleInv, TablesAgree
  <2>6. QED BY <2>2, <2>3, <2>4, <2>5 DEF TablesAgree
<1>12. Handles!Lease!Next
  <2>1. ASSUME NEW g \in Replicas PROVE Handles!Lease!Evolves(g)
    <3>1. CASE g = h
      BY <1>2, <1>8, <3>1
          DEF HandleInv, Handles!TypeOK, Handles!Lease!Evolves, Handles!Lease!Age, Handles!Status
    <3>2. CASE g # h
      BY <1>1, <1>2, <1>4, <1>5, <1>8, <3>2
         DEF HandleInv, Handles!TypeOK, TablesAgree, Handles!Lease!Evolves, Handles!Lease!Age,
         Handles!Status
    <3>3. QED BY <3>1, <3>2
  <2>2. QED BY <2>1 DEF Handles!Lease!Next
<1>13. QED BY <1>10, <1>11, <1>9, <1>12 DEF HandleInv

\* acquire() gives a lease of a published replica that is not on its way out.
LEMMA IndexAcquired ==
  ASSUME HandleInv, NEW u \in Users, Handles!Acquire(u)
  PROVE  HandleInv' /\ Handles!Lease!Next
<1> DEFINE k == at[u].key
<1>1. k \in IndexKeys /\ at[u].step = "acquire"
  BY DEF Handles!Acquire, HandleInv, ThreadsSound
<1>2. UNCHANGED <<keyOf, kept, hosted, loaded, evicting>>
  BY DEF Handles!Acquire
<1>3. /\ at' \in [Users -> [step : {"idle", "acquire", "search"}, key : IndexKeys \cup {Nil}]]
      /\ ThreadsSound'
  <2>1. \/ at' = [at EXCEPT ![u] = [step |-> "search", key |-> k]]
        \/ at' = [at EXCEPT ![u] = [step |-> "idle", key |-> Nil]]
    BY DEF Handles!Acquire, Handles!Raise, Handles!Idle
  <2>2. QED BY <1>1, <2>1, ThreadGoesOn
<1>4. Handles!Resident(kept)' = Handles!Resident(kept)
  BY <1>2 DEF Handles!Resident
<1>5. CASE Handles!Leasable(k)
  <2>1. /\ kept[k] \in Replicas /\ kept[k] \in loaded /\ kept[k] \notin evicting
        /\ inflight' = [inflight EXCEPT ![kept[k]] = @ \cup {u}]
    BY <1>1, <1>5
        DEF Handles!Acquire, Handles!Leasable, HandleInv, Handles!TypeOK, TablesAgree,
        Handles!Resident
  <2>2. inflight' \in [Replicas -> SUBSET Users]
    BY <2>1 DEF HandleInv, Handles!TypeOK
  <2>3. TablesAgree'
    BY <1>2, <1>4, <2>1 DEF HandleInv, Handles!TypeOK, TablesAgree
  <2>4. Handles!Lease!Next
    BY <1>2, <2>1
        DEF HandleInv, Handles!TypeOK, TablesAgree, Handles!Lease!Next, Handles!Lease!Evolves,
        Handles!Lease!Age, Handles!Status
  <2>5. QED BY <1>2, <1>3, <2>2, <2>3, <2>4 DEF HandleInv, Handles!TypeOK
<1>6. CASE ~Handles!Leasable(k)
  <2>1. inflight' = inflight
    BY <1>6 DEF Handles!Acquire
  <2>2. TablesAgree'
    BY <1>2, <1>4, <2>1 DEF HandleInv, TablesAgree
  <2>3. Handles!Lease!Next
    BY <1>2, <2>1
        DEF HandleInv, Handles!TypeOK, TablesAgree, Handles!Lease!Next, Handles!Lease!Evolves,
        Handles!Lease!Age, Handles!Status
  <2>4. QED BY <1>2, <1>3, <2>1, <2>2, <2>3 DEF HandleInv, Handles!TypeOK
<1>7. QED BY <1>5, <1>6

\* The last lease of a marked replica closes it.
LEMMA IndexLeft ==
  ASSUME HandleInv, NEW u \in Users, Handles!Leave(u)
  PROVE  HandleInv' /\ Handles!Lease!Next
<1>1. PICK h \in Replicas :
        LET gone == {h} \cap evicting \cap {g \in Replicas : inflight[g] = {u}} IN
        /\ u \in inflight[h]
        /\ inflight' = [inflight EXCEPT ![h] = @ \ {u}]
        /\ kept' = Handles!Without(kept, gone) /\ hosted' = Handles!Without(hosted, gone)
        /\ loaded' = loaded \ gone
        /\ evicting' = evicting \ gone
  BY DEF Handles!Leave
<1> DEFINE gone == {h} \cap evicting \cap {g \in Replicas : inflight[g] = {u}}
<1>2. /\ u \in inflight[h] /\ inflight' = [inflight EXCEPT ![h] = @ \ {u}]
      /\ kept' = Handles!Without(kept, gone) /\ hosted' = kept'
      /\ loaded' = loaded \ gone /\ evicting' = evicting \ gone
      /\ gone \in SUBSET Replicas
  BY <1>1 DEF HandleInv, TablesAgree
<1>3. /\ kept' \in [IndexKeys -> Replicas \cup {Nil}]
      /\ Handles!Resident(kept') = Handles!Resident(kept) \ gone
  BY <1>2, WithoutResident DEF HandleInv, Handles!TypeOK
<1>4. \A g \in gone : g = h /\ inflight'[g] = {}
  BY <1>2 DEF HandleInv, Handles!TypeOK
<1>5. h \in evicting /\ h \notin gone => inflight'[h] # {}
  BY <1>2 DEF HandleInv, Handles!TypeOK
<1> HIDE DEF gone
<1>6. /\ at' \in [Users -> [step : {"idle", "acquire", "search"}, key : IndexKeys \cup {Nil}]]
      /\ ThreadsSound' /\ keyOf' = keyOf
  <2>1. at' = [at EXCEPT ![u] = [step |-> "idle", key |-> Nil]] /\ keyOf' = keyOf
    BY DEF Handles!Leave, Handles!Raise, Handles!Idle
  <2>2. QED BY <2>1, ThreadGoesOn
<1>7. Handles!TypeOK'
  BY <1>2, <1>3, <1>6 DEF HandleInv, Handles!TypeOK
<1>8. TablesAgree'
  <2>1. Handles!Resident(kept)' = Handles!Resident(kept')
    BY DEF Handles!Resident
  <2>2. loaded' = Handles!Resident(kept)' /\ hosted' = kept'
    BY <1>2, <1>3, <2>1 DEF HandleInv, TablesAgree
  <2>3. \A g \in Replicas : keyOf'[g] = Nil => g \notin loaded'
    BY <1>2, <1>6 DEF HandleInv, TablesAgree
  <2>4. \A g \in Replicas : inflight'[g] # {} => g \in loaded'
    BY <1>2, <1>4 DEF HandleInv, Handles!TypeOK, TablesAgree
  <2>5. \A g \in evicting' : g \in loaded' /\ inflight'[g] # {}
    BY <1>2, <1>5 DEF HandleInv, Handles!TypeOK, TablesAgree
  <2>6. QED BY <2>2, <2>3, <2>4, <2>5 DEF TablesAgree
<1>9. Handles!Lease!Next
  BY <1>2, <1>4, <1>6
      DEF HandleInv, Handles!TypeOK, TablesAgree, Handles!Lease!Next, Handles!Lease!Evolves,
      Handles!Lease!Age, Handles!Status
<1>10. QED BY <1>6, <1>7, <1>8, <1>9 DEF HandleInv

\* pressure() and invalidate() remove some of the resident replicas.
LEMMA IndexesPruned ==
  ASSUME HandleInv, NEW s \in SUBSET Handles!Resident(kept), Handles!Remove(s),
         UNCHANGED <<keyOf, inflight, at>>
  PROVE  HandleInv' /\ Handles!Lease!Next
BY IndexRemoved DEF HandleInv, Handles!TypeOK, ThreadsSound

\* Every step keeps the invariant and is one of LeasedResource.
LEMMA ManagerKeeps ==
  ASSUME HandleInv, [Handles!Next]_(Handles!vars)
  PROVE  HandleInv' /\ [Handles!Lease!Next]_<<[h \in Replicas |-> Handles!Status(h)], inflight>>
<1>1. CASE UNCHANGED Handles!vars
  BY <1>1 DEF Handles!vars, HandleInv, Handles!TypeOK, TablesAgree, ThreadsSound,
    Handles!Resident, Handles!Status
<1>2. CASE \E u \in Users, k \in IndexKeys : Handles!LookUp(u, k)
  BY <1>2, IndexLookedUp
<1>3. CASE \E u \in Users, k \in IndexKeys, h \in Replicas : Handles!Build(u, k, h)
  BY <1>3, IndexBuilt
<1>4. CASE \E u \in Users : Handles!Acquire(u) \/ Handles!Leave(u)
  BY <1>4, IndexAcquired, IndexLeft
<1>5. CASE \E available \in 0..Budget : Handles!Pressure(available)
  <2>1. \E s \in SUBSET Handles!Resident(kept) : Handles!Remove(s)
    BY <1>5 DEF Handles!Pressure, Handles!Evictions
  <2>2. UNCHANGED <<keyOf, inflight, at>>
    BY <1>5 DEF Handles!Pressure
  <2>3. QED BY <2>1, <2>2, IndexesPruned
<1>6. CASE Handles!Invalidate
  BY <1>6, IndexesPruned DEF Handles!Invalidate
<1>7. QED BY <1>1, <1>2, <1>3, <1>4, <1>5, <1>6 DEF Handles!Next

\* As the manager begins, so does LeasedResource.
LEMMA ManagerBegins ==
  ASSUME Handles!Init
  PROVE  HandleInv /\ Handles!Lease!Init
BY DEF Handles!Init, Handles!Idle, HandleInv, Handles!TypeOK, TablesAgree, ThreadsSound,
  Handles!Resident, Handles!Lease!Init, Handles!Status

\* indexes.py: what is open is what both tables name, and an index that waits
\* for its last lease has one.
THEOREM HandleInvariance ==
  Handles!Spec => []HandleInv
<1>1. Handles!Init => HandleInv
  BY ManagerBegins
<1>2. HandleInv /\ [Handles!Next]_(Handles!vars) => HandleInv'
  BY ManagerKeeps
<1>3. QED BY <1>1, <1>2, PTL DEF Handles!Spec

\* indexes.py: no index is closed under a search, none is closed twice, and none
\* is leased once it is on its way out.
THEOREM HandleRefinement ==
  Handles!Spec => Handles!HandleLeases
<1>1. Handles!Init => Handles!Lease!Init
  BY ManagerBegins
<1>2. HandleInv /\ [Handles!Next]_(Handles!vars)
        => [Handles!Lease!Next]_<<[h \in Replicas |-> Handles!Status(h)], inflight>>
  BY ManagerKeeps
<1>3. Handles!Spec => []HandleInv
  BY HandleInvariance
<1>4. QED BY <1>1, <1>2, <1>3, PTL DEF Handles!Spec, Handles!HandleLeases, Handles!Lease!Spec
HIDE NoIndex

\* The bytes of replicas of the indexes that each was built for.
ReplicaBytes(of, S) == Handles!MapThenSumSet(LAMBDA h : KeySize(of[h]), S)

\* The manager counts its replicas so.
LEMMA ReplicaSums ==
  ASSUME NEW of, NEW S, NEW w, \A x \in S : w[x] = KeySize(of[x])
  PROVE  ReplicaBytes(of, S) = SumOf(w, S)
<1>1. ASSUME NEW s \in SUBSET S, s # {} PROVE w[Pick(s)] = KeySize(of[Pick(s)])
  BY <1>1, PickIsIn
<1>2. \A g : Sums(g, w, S) <=>
        g = [s \in SUBSET S |-> IF s = {} THEN 0 ELSE KeySize(of[Pick(s)]) + g[s \ {Pick(s)}]]
  BY <1>1 DEF Sums
<1>3. QED BY <1>2 DEF ReplicaBytes, Handles!MapThenSumSet, Handles!MapThenFoldSet, SumOf, Pick

\* indexes.py: what is open fits the budget.
HandlesFit == IsFiniteSet(loaded) /\ ReplicaBytes(keyOf, loaded) <= Budget

\* So do any of the open replicas.
LEMMA ReplicasWithin ==
  ASSUME NEW of, NEW S, IsFiniteSet(S), \A x \in S : of[x] \in IndexKeys, NEW T \in SUBSET S,
         ReplicaBytes(of, S) <= Budget
  PROVE  IsFiniteSet(T) /\ ReplicaBytes(of, T) <= Budget
<1> DEFINE w == [x \in S |-> KeySize(of[x])]
<1>1. \A x \in S : w[x] = KeySize(of[x]) /\ w[x] \in Nat
  BY OwnersAssumption
<1> HIDE DEF w
<1>2. ReplicaBytes(of, S) = SumOf(w, S) /\ ReplicaBytes(of, T) = SumOf(w, T)
  BY <1>1, ReplicaSums
<1>3. SumOf(w, T) \in Nat /\ SumOf(w, T) <= SumOf(w, S) /\ SumOf(w, S) \in Nat
  BY <1>1, SumGrows
<1>4. QED BY <1>2, <1>3, FS_Subset, OwnersAssumption

\* A replica is built beside those that stay, in the room that they leave.
LEMMA ReplicaFits ==
  ASSUME NEW of, NEW S, IsFiniteSet(S), \A x \in S : of[x] \in IndexKeys,
         NEW k \in IndexKeys, NEW h, h \notin S,
         ReplicaBytes(of, S) + KeySize(k) <= Budget,
         NEW to, to[h] = k, \A x \in S : to[x] = of[x]
  PROVE  IsFiniteSet(S \cup {h}) /\ ReplicaBytes(to, S \cup {h}) <= Budget
<1> DEFINE R == S \cup {h}
           w == [x \in R |-> KeySize(to[x])]
<1>1. IsFiniteSet(R) /\ h \in R /\ R \ {h} = S
  BY FS_AddElement
<1>2. \A x \in R : w[x] \in Nat /\ w[x] = KeySize(to[x])
  BY OwnersAssumption
<1>3. (\A x \in S : w[x] = KeySize(of[x])) /\ w[h] = KeySize(k)
  OBVIOUS
<1> HIDE DEF w, R
<1>4. SumOf(w, R) = w[h] + SumOf(w, S)
  BY <1>1, <1>2, SumSplits
<1>5. ReplicaBytes(of, S) = SumOf(w, S) /\ ReplicaBytes(to, R) = SumOf(w, R)
  BY <1>2, <1>3, ReplicaSums
<1>6. SumOf(w, S) \in Nat
  <2>1. \A x \in S : w[x] \in Nat
    BY <1>1, <1>2
  <2>2. QED BY <2>1, SumSplits
<1>7. ReplicaBytes(to, R) = ReplicaBytes(of, S) + KeySize(k)
  BY <1>2, <1>1, <1>3, <1>4, <1>5, <1>6
<1>8. QED BY <1>1, <1>7 DEF R

\* A replica is built into the room that is there, or what is open shrinks.
LEMMA ManagerStaysWithin ==
  ASSUME HandleInv, HandlesFit, [Handles!Next]_(Handles!vars)
  PROVE  HandlesFit'
<1>1. \A h \in loaded : keyOf[h] \in IndexKeys
  BY NoIndex DEF HandleInv, Handles!TypeOK, TablesAgree
<1>2. \A T \in SUBSET loaded : IsFiniteSet(T) /\ ReplicaBytes(keyOf, T) <= Budget
  BY <1>1, ReplicasWithin DEF HandlesFit
<1>3. ASSUME NEW u \in Users, NEW k \in IndexKeys, NEW h \in Replicas, Handles!Build(u, k, h)
      PROVE  HandlesFit'
  <2>1. PICK gone : loaded' = (loaded \ gone) \cup {g \in {h} : Handles!Room(gone, k)}
    BY <1>3 DEF Handles!Build
  <2>2. /\ keyOf[h] = Nil /\ keyOf' = [keyOf EXCEPT ![h] = k] /\ h \notin loaded
        /\ keyOf \in [Replicas -> IndexKeys \cup {Nil}] /\ loaded \subseteq Replicas
    BY <1>3 DEF Handles!Build, HandleInv, Handles!TypeOK, TablesAgree
  <2> DEFINE S == loaded \ gone
  <2>3. /\ IsFiniteSet(S) /\ ReplicaBytes(keyOf, S) <= Budget /\ h \notin S
        /\ keyOf'[h] = k /\ \A x \in S : keyOf[x] \in IndexKeys /\ keyOf'[x] = keyOf[x]
    BY <1>1, <1>2, <2>2
  <2>4. Handles!Room(gone, k) => ReplicaBytes(keyOf, S) + KeySize(k) <= Budget
    BY DEF Handles!Room, Handles!Bytes, ReplicaBytes, HandleInv, TablesAgree
  <2>5. CASE Handles!Room(gone, k)
    <3>1. loaded' = S \cup {h}
      BY <2>1, <2>5
    <3> HIDE DEF S
    <3>2. ReplicaBytes(keyOf, S) + KeySize(k) <= Budget
      BY <2>4, <2>5
    <3>3. IsFiniteSet(S \cup {h}) /\ ReplicaBytes(keyOf', S \cup {h}) <= Budget
      BY <2>3, <3>2, ReplicaFits
    <3>4. QED BY <3>1, <3>3 DEF HandlesFit
  <2>6. CASE ~Handles!Room(gone, k)
    <3>1. loaded' = S
      BY <2>1, <2>6
    <3> HIDE DEF S
    <3>2. ReplicaBytes(keyOf', S) = ReplicaBytes(keyOf, S)
      <4> DEFINE w == [x \in S |-> KeySize(keyOf[x])]
      <4>1. \A x \in S : w[x] = KeySize(keyOf[x]) /\ w[x] = KeySize(keyOf'[x])
        BY <2>3
      <4> HIDE DEF w
      <4>2. QED BY <4>1, ReplicaSums
    <3>3. QED BY <2>3, <3>1, <3>2 DEF HandlesFit
  <2>7. QED BY <2>5, <2>6
<1>4. CASE keyOf' = keyOf /\ loaded' \subseteq loaded
  BY <1>2, <1>4 DEF HandlesFit
<1>5. ASSUME ~\E u \in Users, k \in IndexKeys, h \in Replicas : Handles!Build(u, k, h)
      PROVE  keyOf' = keyOf /\ loaded' \subseteq loaded
  BY <1>5 DEF Handles!Next, Handles!vars, Handles!LookUp, Handles!Acquire, Handles!Leave,
     Handles!Pressure, Handles!Invalidate, Handles!Remove
<1>6. QED BY <1>3, <1>4, <1>5

\* As the manager begins.
LEMMA ManagerBeginsWithin == Handles!Init => HandlesFit
<1>1. \A x \in {} : keyOf[x] = 0 /\ [y \in {} |-> 0][x] \in Nat
                    /\ [y \in {} |-> 0][x] = KeySize(keyOf[x])
  OBVIOUS
<1>2. SumOf([y \in {} |-> 0], {}) = 0
  BY <1>1, FS_EmptySet, SumSplits
<1>3. ReplicaBytes(keyOf, {}) = 0
  BY <1>1, <1>2, ReplicaSums
<1>4. QED BY <1>3, FS_EmptySet, OwnersAssumption DEF Handles!Init, HandlesFit

\* indexes.py: the budget of the manager and its tables.
LEMMA ManagerAccounts == Handles!Spec => []Handles!MemoryAccounted
<1>1. HandleInv /\ HandlesFit /\ [Handles!Next]_(Handles!vars) => HandlesFit'
  BY ManagerStaysWithin
<1>2. HandleInv /\ HandlesFit => Handles!MemoryAccounted
  BY DEF HandleInv, TablesAgree, HandlesFit, Handles!MemoryAccounted, Handles!Bytes, ReplicaBytes
<1>3. QED BY <1>1, <1>2, ManagerBeginsWithin, HandleInvariance, PTL DEF Handles!Spec

-----------------------------------------------------------------------------
(* The index over several devices                                          *)

\* A shard is in one table at most, and of a rebuild that was made.
ShardInv ==
  /\ Devices!TypeOK
  /\ shards \cap retired = {} /\ shards \cap disposed = {} /\ retired \cap disposed = {}
  /\ \A h \in Devices!Shards : h[1] > build => h \notin shards \cup retired \cup disposed

\* As the index begins, so does LeasedResource.
LEMMA ShardsBegin == Devices!Init => ShardInv /\ Devices!Lease!Init
<1> SUFFICES ASSUME Devices!Init PROVE ShardInv /\ Devices!Lease!Init
  OBVIOUS
<1>1. ShardInv
  <2>1. Devices!TypeOK
    <3>1. build \in 0..NBuilds
      BY OwnersAssumption DEF Devices!Init
    <3>2. QED BY <3>1 DEF Devices!Init, Devices!TypeOK
  <2>2. QED BY <2>1 DEF Devices!Init, ShardInv
<1>2. \A h \in Devices!Shards : Devices!Status(h) = "absent"
  BY DEF Devices!Init, Devices!Status
<1>3. QED BY <1>1, <1>2 DEF Devices!Lease!Init

\* A shard goes forward through the tables; such a step is one of LeasedResource.
Forward(h) ==
  /\ h \in shards => h \in shards' \cup retired' \cup disposed'
  /\ h \in retired => h \in retired' \cup disposed'
  /\ h \in disposed => h \in disposed'

\* Such a step is one of LeasedResource.
LEMMA ForwardLeases ==
  ASSUME ShardInv, ShardInv', \A h \in Devices!Shards : Forward(h)
  PROVE  Devices!Lease!Next
<1>1. ASSUME NEW h \in Devices!Shards
      PROVE  Devices!Lease!Age[Devices!Status(h)] <= Devices!Lease!Age[Devices!Status(h)']
  BY <1>1 DEF ShardInv, Forward, Devices!Status, Devices!Lease!Age
<1>2. QED BY <1>1 DEF Devices!Lease!Next, Devices!Lease!Evolves

\* Every step keeps the invariant and takes shards forward.
LEMMA ShardsKeep ==
  ASSUME ShardInv, [Devices!Next]_(Devices!vars)
  PROVE  ShardInv' /\ \A h \in Devices!Shards : Forward(h)
<1> USE OwnersAssumption
<1>1. CASE UNCHANGED Devices!vars
  BY <1>1 DEF Devices!vars, ShardInv, Devices!TypeOK, Forward
<1>2. CASE Devices!BuildBlocked
  BY <1>2 DEF Devices!BuildBlocked, Devices!Refused, Devices!Retire, ShardInv, Devices!TypeOK,
    Forward, Devices!Shards
<1>3. CASE Devices!BuildFails
  <2>1. PICK new \in SUBSET Devices!Shards :
          /\ \A h \in new : h[1] = build'
          /\ retired' \subseteq new /\ disposed' = disposed \cup retired \cup (new \ retired')
    BY <1>3 DEF Devices!BuildFails
  <2>2. build' = build + 1 /\ build' \in 0..NBuilds /\ UNCHANGED <<shards, score, indexClosed,
          reply>>
    BY <1>3 DEF Devices!BuildFails, Devices!Refused, ShardInv, Devices!TypeOK
  <2>3. \A h \in new : h \notin shards \cup retired \cup disposed
    BY <2>1, <2>2 DEF ShardInv, Devices!TypeOK
  <2>4. \A h \in Devices!Shards : h[1] \in Nat
    BY DEF Devices!Shards
  <2>5. QED
    BY <2>1, <2>2, <2>3, <2>4 DEF ShardInv, Devices!TypeOK, Forward
<1>4. CASE Devices!Built
  <2>1. PICK failed \in SUBSET shards :
          retired' = failed /\ disposed' = disposed \cup retired \cup (shards \ failed)
    BY <1>4 DEF Devices!Built
  <2>2. /\ build' = build + 1 /\ build' \in 0..NBuilds /\ indexClosed' = indexClosed
        /\ score' \in [Devices!Rows -> Scores] /\ shards' = {h \in Devices!Shards : h[1] = build'}
    BY <1>4 DEF Devices!Built, ShardInv, Devices!TypeOK
  <2>3. \A h \in shards' : h \notin shards \cup retired \cup disposed
    BY <2>2 DEF ShardInv, Devices!TypeOK
  <2>4. \A h \in Devices!Shards : h[1] \in Nat
    BY DEF Devices!Shards
  <2>5. Devices!TypeOK'
    BY <2>1, <2>2 DEF ShardInv, Devices!TypeOK
  <2>6. QED
    BY <2>1, <2>2, <2>3, <2>4, <2>5 DEF ShardInv, Devices!TypeOK, Forward
<1>5. CASE \E k \in 1..NRows : Devices!Search(k)
  BY <1>5 DEF Devices!Search, ShardInv, Devices!TypeOK, Forward
<1>6. CASE Devices!Close
  BY <1>6 DEF Devices!Close, Devices!Retire, ShardInv, Devices!TypeOK, Forward
<1>7. QED BY <1>1, <1>2, <1>3, <1>4, <1>5, <1>6 DEF Devices!Next

\* multidevice.py: a shard serves, is retired or is closed, and of one rebuild.
LEMMA ShardsInvariance == Devices!Spec => []ShardInv
BY ShardsBegin, ShardsKeep, PTL DEF Devices!Spec

\* multidevice.py: a shard is closed once, however often it had to be tried.
LEMMA ShardsRefine == Devices!Spec => Devices!ShardLeases
<1>1. ShardInv /\ [Devices!Next]_(Devices!vars)
        => [Devices!Lease!Next]_<<[h \in Devices!Shards |-> Devices!Status(h)],
          [h \in Devices!Shards |-> {}]>>
  BY ShardsKeep, ForwardLeases
<1>2. QED BY <1>1, ShardsBegin, ShardsInvariance, PTL
              DEF Devices!Spec, Devices!ShardLeases, Devices!Lease!Spec
-----------------------------------------------------------------------------
(* Extension sessions                                                      *)

States == {"absent", "new"} \cup Sessions!Live \cup Sessions!Ended

\* Later sessions are not there yet; a session holds something from its first
\* call on; and an artifact is copied for a session that is new.
SessionInv ==
  /\ current \in 0..NSessions /\ held \subseteq Sessions!Sessions
  /\ binding \in [Sessions!Sessions -> Sessions!Bindings]
     /\ state \in [Sessions!Sessions -> States]
  /\ DOMAIN artifact = Sessions!Sessions
  /\ \A s \in Sessions!Sessions : s > current => state[s] = "absent"
  /\ \A s \in Sessions!Sessions : state[s] \in {"absent", "new"} => s \notin held
  /\ listed # Sessions!Nothing => current # 0 /\ state[current] = "new"

\* What can follow the state of a session.
Onward(s) ==
  /\ state[s] \in Sessions!Live => state'[s] \in Sessions!Live \cup Sessions!Ended
  /\ state[s] \in Sessions!Ended => state'[s] \in Sessions!Ended /\ (s \in held' => s \in held)

\* No session is there as the seam begins.
LEMMA SessionsBegin == Sessions!Init => SessionInv
BY OwnersAssumption DEF Sessions!Init, SessionInv, Sessions!Bindings, States

\* A session that goes on so takes a step of LeasedResource, or none.
LEMMA OnwardLeases ==
  ASSUME SessionInv, SessionInv', \A s \in Sessions!Sessions : Onward(s)
  PROVE  Sessions!Lease!Next
<1> DEFINE St(s) == CASE state[s] \in Sessions!Live -> "live"
             [] state[s] \in Sessions!Ended -> IF s \in held THEN "retiring" ELSE "released"
             [] OTHER -> "absent"
<1>1. ASSUME NEW s \in Sessions!Sessions
      PROVE  Sessions!Lease!Age[St(s)] <= Sessions!Lease!Age[St(s)']
  <2>1. Onward(s) /\ state[s] \in States /\ state'[s] \in States
    BY DEF SessionInv
  <2>2. Sessions!Live \cap Sessions!Ended = {}
          /\ "absent" \notin Sessions!Live \cup Sessions!Ended
             /\ "new" \notin Sessions!Live \cup Sessions!Ended
    BY DEF Sessions!Live, Sessions!Ended
  <2>3. /\ state[s] \in Sessions!Live => St(s) = "live"
        /\ state[s] \in Sessions!Ended => St(s) = IF s \in held THEN "retiring" ELSE "released"
        /\ state[s] \notin Sessions!Live \cup Sessions!Ended => St(s) = "absent"
    BY <2>2
  <2>4. /\ state'[s] \in Sessions!Live => St(s)' = "live"
        /\ state'[s] \in Sessions!Ended => St(s)' = IF s \in held' THEN "retiring" ELSE "released"
        /\ state'[s] \notin Sessions!Live \cup Sessions!Ended => St(s)' = "absent"
    BY <2>2
  <2> HIDE DEF St
  <2>5. QED BY <2>1, <2>2, <2>3, <2>4 DEF Onward, Sessions!Lease!Age
<1>2. QED BY <1>1 DEF Sessions!Lease!Next, Sessions!Lease!Evolves

\* A call of a binding that returns, or ends the session.
LEMMA CallKeeps ==
  ASSUME SessionInv, NEW s \in Sessions!Sessions, s = current, NEW stage, NEW content,
         (stage = "prepare" /\ state[s] = "new") \/ (stage # "prepare"
           /\ state[s] \in Sessions!Live),
         Sessions!Call(s, stage, content), listed' = Sessions!Nothing, UNCHANGED <<current,
           binding>>
  PROVE  SessionInv' /\ \A t \in Sessions!Sessions : Onward(t)
<1>1. PICK to \in Sessions!Live \cup Sessions!Ended :
        /\ state' = [state EXCEPT ![s] = to]
        /\ held' \subseteq held \cup {s} /\ held \subseteq held' \cup {s}
  <2> DEFINE reached == CASE stage = "prepare" -> "prepared" [] stage = "compile" -> "compiled"
                          [] OTHER -> "loaded"
  <2>1. reached \in Sessions!Live
    <3>1. stage = "prepare" \/ stage = "compile" \/ (stage # "prepare" /\ stage # "compile")
      OBVIOUS
    <3>2. QED BY <3>1 DEF Sessions!Live
  <2>2. CASE /\ held' = (IF binding[s].at = stage THEN held \cup {s} ELSE held)
             /\ state' = [state EXCEPT ![s] = reached]
    BY <2>1, <2>2
  <2>3. CASE \E acquired \in {FALSE, binding[s].at = stage} :
               Sessions!Ends(s, Sessions!Failed, s \in held \/ acquired)
    BY <2>3 DEF Sessions!Ends, Sessions!Failed, Sessions!Ended
  <2>4. QED BY <2>2, <2>3 DEF Sessions!Call
<1>2. artifact' = [artifact EXCEPT ![s] = artifact'[s]]
  BY DEF Sessions!Call, Sessions!Ends, SessionInv
<1>3. current' = current /\ binding' = binding /\ DOMAIN artifact' = Sessions!Sessions
  BY <1>2 DEF SessionInv
<1>4. to \notin {"absent", "new"} /\ to \in States
  BY <1>1 DEF Sessions!Live, Sessions!Ended, States
<1>5. SessionInv'
  <2>1. current \in 0..NSessions /\ \A t \in Sessions!Sessions : t > current => t # s
    BY DEF SessionInv
  <2>2. QED BY <1>1, <1>3, <1>4, <2>1 DEF SessionInv
<1>6. state[s] \notin Sessions!Ended
  BY DEF Sessions!Live, Sessions!Ended
<1>7. QED BY <1>1, <1>5, <1>6 DEF SessionInv, Onward

\* The end of a session gives back what it has, or keeps that.
LEMMA EndKeeps ==
  ASSUME SessionInv, NEW s \in Sessions!Sessions, s = current, NEW how \in Sessions!Ended,
         Sessions!Ends(s, how, s \in held), listed = Sessions!Nothing, UNCHANGED <<current,
           binding, listed>>
  PROVE  SessionInv' /\ \A t \in Sessions!Sessions : Onward(t)
<1>1. /\ state' = [state EXCEPT ![s] = how] /\ DOMAIN artifact' = Sessions!Sessions
      /\ held' \subseteq held /\ held \subseteq held' \cup {s}
  BY DEF Sessions!Ends, SessionInv
<1>2. how \notin {"absent", "new"} /\ how \in States
  BY DEF Sessions!Live, Sessions!Ended, States
<1>3. SessionInv'
  <2>1. NSessions \in Nat /\ \A t \in Sessions!Sessions : t > current => t # s
    BY OwnersAssumption DEF Sessions!Sessions
  <2>2. QED BY <1>1, <1>2, <2>1 DEF SessionInv
<1>4. QED BY <1>1, <1>3 DEF SessionInv, Onward

\* Every step of the seam keeps the invariant and takes sessions onward.
LEMMA SessionsKeep ==
  ASSUME SessionInv, [Sessions!Next]_(Sessions!vars)
  PROVE  SessionInv' /\ \A s \in Sessions!Sessions : Onward(s)
<1>1. CASE UNCHANGED Sessions!vars
  BY <1>1 DEF Sessions!vars, SessionInv, Onward
<1>2. CASE \E f \in Files : Sessions!Rewrite(f)
  BY <1>2 DEF Sessions!Rewrite, SessionInv, Onward
<1>3. CASE \E f \in Files : Sessions!Copy(f)
  BY <1>3 DEF Sessions!Copy, SessionInv, Onward
<1>4. ASSUME NEW b \in Sessions!Bindings, Sessions!Configure(b)
      PROVE  SessionInv' /\ \A s \in Sessions!Sessions : Onward(s)
  <2>1. /\ current' = current + 1 /\ current' \in Sessions!Sessions /\ current' \in 0..NSessions
        /\ binding' = [binding EXCEPT ![current'] = b]
           /\ state' = [state EXCEPT ![current'] = "new"]
        /\ UNCHANGED <<listed, held, artifact>>
        /\ current # 0 => state[current] = "closed"
    BY <1>4, OwnersAssumption DEF Sessions!Configure, SessionInv, Sessions!Sessions
  <2>2. state[current'] = "absent" /\ listed = Sessions!Nothing
    BY <2>1 DEF SessionInv
  <2>3. \A s \in Sessions!Sessions : s > current' => s > current
    BY <2>1 DEF SessionInv, Sessions!Sessions
  <2>4. SessionInv'
    BY <2>1, <2>2, <2>3 DEF SessionInv, States
  <2>5. "absent" \notin Sessions!Live \cup Sessions!Ended
    BY DEF Sessions!Live, Sessions!Ended
  <2>6. QED BY <2>1, <2>2, <2>4, <2>5 DEF SessionInv, Onward
<1>5. ASSUME NEW s \in Sessions!Sessions, Sessions!List(s)
      PROVE  SessionInv' /\ \A t \in Sessions!Sessions : Onward(t)
  BY <1>5 DEF Sessions!List, Sessions!In, SessionInv, Onward
<1>6. ASSUME NEW s \in Sessions!Sessions, Sessions!Prepare(s)
      PROVE  SessionInv' /\ \A t \in Sessions!Sessions : Onward(t)
  <2>1. s = current /\ state[s] = "new" /\ listed' = Sessions!Nothing /\ UNCHANGED <<current,
          binding>>
    BY <1>6 DEF Sessions!Prepare, SessionInv
  <2>2. CASE Sessions!Call(s, "prepare", Sessions!Input)
    BY <2>1, <2>2, CallKeeps
  <2>3. CASE Sessions!Discarded /\ UNCHANGED <<state, held, artifact>>
    BY <2>1, <2>3 DEF SessionInv, Onward
  <2>4. QED BY <1>6, <2>2, <2>3 DEF Sessions!Prepare
<1>7. ASSUME NEW s \in Sessions!Sessions,
             Sessions!Compile(s) \/ Sessions!Load(s) \/ Sessions!Execute(s)
      PROVE  SessionInv' /\ \A t \in Sessions!Sessions : Onward(t)
  <2>1. PICK stage \in {"compile", "load", "execute"} : Sessions!Call(s, stage, artifact[s])
    BY <1>7 DEF Sessions!Compile, Sessions!Load, Sessions!Execute
  <2>2. s = current /\ state[s] \in Sessions!Live /\ listed' = Sessions!Nothing
          /\ UNCHANGED <<current, binding>>
    BY <1>7 DEF Sessions!Compile, Sessions!Load, Sessions!Execute, Sessions!In, Sessions!Live
  <2>3. QED BY <2>1, <2>2, CallKeeps
<1>8. ASSUME NEW s \in Sessions!Sessions, Sessions!Invalidate(s) \/ Sessions!Close(s)
      PROVE  SessionInv' /\ \A t \in Sessions!Sessions : Onward(t)
  BY <1>8, EndKeeps DEF Sessions!Invalidate, Sessions!Close, Sessions!In, Sessions!Ended
<1>9. QED BY <1>1, <1>2, <1>3, <1>4, <1>5, <1>6, <1>7, <1>8 DEF Sessions!Next

\* extensions.py: sessions follow one another, and only the last one is at work.
LEMMA SessionsInvariance == Sessions!Spec => []SessionInv
BY SessionsBegin, SessionsKeep, PTL DEF Sessions!Spec

\* extensions.py: what a session acquired is given back once, after its end.
LEMMA SessionsRefine == Sessions!Spec => Sessions!SessionLeases
<1> DEFINE St == [s \in Sessions!Sessions |->
    CASE state[s] \in Sessions!Live -> "live"
      [] state[s] \in Sessions!Ended -> IF s \in held THEN "retiring" ELSE "released"
      [] OTHER -> "absent"]
<1>1. Sessions!Init => Sessions!Lease!Init
  <2> SUFFICES ASSUME Sessions!Init PROVE Sessions!Lease!Init
    OBVIOUS
  <2>1. \A s \in Sessions!Sessions : state[s] = "absent"
    BY DEF Sessions!Init
  <2>2. "absent" \notin Sessions!Live \cup Sessions!Ended
    BY DEF Sessions!Live, Sessions!Ended
  <2>3. \A s \in Sessions!Sessions : St[s] = "absent"
    BY <2>1, <2>2
  <2>4. QED BY <2>3 DEF Sessions!Lease!Init
<1>2. SessionInv /\ [Sessions!Next]_(Sessions!vars)
        => [Sessions!Lease!Next]_<<St, [s \in Sessions!Sessions |-> {}]>>
  BY SessionsKeep, OnwardLeases
<1>3. QED BY <1>1, <1>2, SessionsInvariance, PTL
              DEF Sessions!Spec, Sessions!SessionLeases, Sessions!Lease!Spec

\* The bytes of files with contents c.
FileBytes(c, S) == Sessions!MapThenSumSet(LAMBDA f : ContentSize(c[f]), S)

\* The seam counts files so, as they are and as they were copied.
LEMMA FileSums ==
  ASSUME NEW c, NEW S, NEW w, \A x \in S : w[x] = ContentSize(c[x])
  PROVE  FileBytes(c, S) = SumOf(w, S)
<1>1. ASSUME NEW s \in SUBSET S, s # {} PROVE w[Pick(s)] = ContentSize(c[Pick(s)])
  BY <1>1, PickIsIn
<1>2. \A g : Sums(g, w, S) <=>
        g = [s \in SUBSET S |-> IF s = {} THEN 0 ELSE ContentSize(c[Pick(s)]) + g[s \ {Pick(s)}]]
  BY <1>1 DEF Sums
<1>3. QED BY <1>2 DEF FileBytes, Sessions!MapThenSumSet, Sessions!MapThenFoldSet, SumOf, Pick

\* extensions.py: the private copy has the sizes that were listed, fits the limit,
\* and is there while it is copied and while a session works on it; what a session
\* works on was declared, and what an ended one still holds its binding may keep.
ArtifactInv ==
  /\ source \in [Files -> Sessions!Contents]
  /\ DOMAIN staged \subseteq Files /\ \A f \in DOMAIN staged : staged[f] \in Sessions!Contents
  /\ FileBytes(staged, DOMAIN staged) <= MaxBytes
  /\ listed # Sessions!Nothing =>
       /\ \A f \in Files : listed[f] \in Nat
       /\ SumOf(listed, Files) <= MaxBytes
       /\ \A f \in DOMAIN staged : ContentSize(staged[f]) = listed[f]
  /\ staged # Sessions!Nothing =>
       listed # Sessions!Nothing \/ (current # 0 /\ state[current] \in Sessions!Live)
  /\ \A s \in Sessions!Sessions :
       /\ state[s] \in Sessions!Live => artifact[s] = Sessions!Declared
       /\ state[s] \in Sessions!Ended /\ s \in held => binding[s].mayKeep

\* No copy has no bytes.
LEMMA NoCopy ==
  DOMAIN Sessions!Nothing = {} /\ FileBytes(Sessions!Nothing, {}) = 0
<1>1. \A x \in {} : [y \in {} |-> 0][x] \in Nat
                    /\ [y \in {} |-> 0][x] = ContentSize(Sessions!Nothing[x])
  OBVIOUS
<1>2. SumOf([y \in {} |-> 0], {}) = 0
  BY <1>1, FS_EmptySet, SumSplits
<1>3. QED BY <1>1, <1>2, FileSums DEF Sessions!Nothing

\* A file is copied as it was listed, or nothing is kept.
LEMMA CopyKeeps ==
  ASSUME SessionInv, ArtifactInv, NEW f \in Files, Sessions!Copy(f)
  PROVE  ArtifactInv'
<1>1. /\ listed # Sessions!Nothing /\ f \notin DOMAIN staged
      /\ UNCHANGED <<source, current, binding, state, held, artifact>>
  BY DEF Sessions!Copy
<1>2. CASE listed' = Sessions!Nothing /\ staged' = Sessions!Nothing
  BY <1>1, <1>2, NoCopy, OwnersAssumption DEF ArtifactInv
<1>3. CASE /\ ContentSize(source[f]) = listed[f] /\ listed' = listed
           /\ staged' = [g \in DOMAIN staged \cup {f} |->
                           IF g = f THEN source[f] ELSE staged[g]]
  <2> DEFINE D == DOMAIN staged \cup {f}
  <2>1. /\ DOMAIN staged' = D /\ D \in SUBSET Files
        /\ \A g \in D : staged'[g] \in Sessions!Contents /\ ContentSize(staged'[g]) = listed[g]
    BY <1>1, <1>3 DEF ArtifactInv
  <2> HIDE DEF D
  <2>2. FileBytes(staged', D) = SumOf(listed, D)
    BY <2>1, FileSums
  <2>3. SumOf(listed, D) \in Nat /\ SumOf(listed, D) <= SumOf(listed, Files)
        /\ SumOf(listed, Files) \in Nat
    <3>1. \A g \in Files : listed[g] \in Nat
      BY <1>1 DEF ArtifactInv
    <3>2. QED BY <2>1, <3>1, SumGrows, OwnersAssumption
  <2>4. FileBytes(staged', D) <= MaxBytes
    BY <1>1, <2>2, <2>3, OwnersAssumption DEF ArtifactInv
  <2>5. QED BY <1>1, <1>3, <2>1, <2>4 DEF ArtifactInv
<1>4. QED BY <1>2, <1>3 DEF Sessions!Copy, Sessions!Discarded

\* The end of a session lets go of its copy, and of its artifact.
LEMMA EndAccounts ==
  ASSUME SessionInv, ArtifactInv, NEW s \in Sessions!Sessions, s = current,
         NEW how \in Sessions!Ended, NEW acquires \in BOOLEAN, Sessions!Ends(s, how, acquires),
         listed' = Sessions!Nothing, UNCHANGED <<source, current, binding>>
  PROVE  ArtifactInv'
<1>1. /\ state' = [state EXCEPT ![s] = how] /\ staged' = Sessions!Nothing
      /\ artifact' = [artifact EXCEPT ![s] = Sessions!Nothing]
  BY DEF Sessions!Ends, Sessions!Discarded
<1>2. /\ \A t \in Sessions!Sessions : t # s => (t \in held' <=> t \in held)
      /\ s \in held' => binding[s].mayKeep
  <2>1. PICK kept_ \in {FALSE, acquires /\ binding[s].mayKeep} :
          held' = IF kept_ THEN held \cup {s} ELSE held \ {s}
    BY DEF Sessions!Ends
  <2>2. CASE kept_
    BY <2>1, <2>2
  <2>3. CASE ~kept_
    BY <2>1, <2>3
  <2>4. QED BY <2>2, <2>3
<1>3. how \notin Sessions!Live
  BY DEF Sessions!Live, Sessions!Ended
<1>4. \A t \in Sessions!Sessions :
        /\ state'[t] \in Sessions!Live => artifact'[t] = Sessions!Declared
        /\ state'[t] \in Sessions!Ended /\ t \in held' => binding'[t].mayKeep
  BY <1>1, <1>2, <1>3 DEF SessionInv, ArtifactInv
<1>5. QED BY <1>1, <1>4, NoCopy, OwnersAssumption DEF ArtifactInv

\* A call works on the declared content, or ends the session.
LEMMA CallAccounts ==
  ASSUME SessionInv, ArtifactInv, NEW s \in Sessions!Sessions, s = current, NEW stage,
         state[s] \in Sessions!Live \cup {"new"},
         Sessions!Call(s, stage, Sessions!Declared),
         listed' = Sessions!Nothing, UNCHANGED <<source, current, binding>>
  PROVE  ArtifactInv'
<1> DEFINE reached == CASE stage = "prepare" -> "prepared" [] stage = "compile" -> "compiled"
                        [] OTHER -> "loaded"
<1>1. CASE \E acquired \in {FALSE, binding[s].at = stage} :
             Sessions!Ends(s, Sessions!Failed, s \in held \/ acquired)
  <2>1. Sessions!Failed \in Sessions!Ended
    BY DEF Sessions!Failed, Sessions!Ended
  <2>2. PICK acquires \in BOOLEAN : Sessions!Ends(s, Sessions!Failed, acquires)
    BY <1>1
  <2>3. QED BY <2>1, <2>2, EndAccounts
<1>2. CASE /\ artifact' = [artifact EXCEPT ![s] = Sessions!Declared]
           /\ held' = (IF binding[s].at = stage THEN held \cup {s} ELSE held)
           /\ UNCHANGED staged
           /\ state' = [state EXCEPT ![s] = reached]
  <2>1. reached \in Sessions!Live /\ reached \notin Sessions!Ended
    <3>1. stage = "prepare" \/ stage = "compile" \/ (stage # "prepare" /\ stage # "compile")
      OBVIOUS
    <3>2. QED BY <3>1 DEF Sessions!Live, Sessions!Ended
  <2> HIDE DEF reached
  <2>2. \A t \in Sessions!Sessions :
          /\ state'[t] \in Sessions!Live => artifact'[t] = Sessions!Declared
          /\ state'[t] \in Sessions!Ended /\ t \in held' => binding'[t].mayKeep
    BY <1>2, <2>1 DEF SessionInv, ArtifactInv
  <2>3. current' # 0 /\ state'[current'] \in Sessions!Live
    BY <1>2, <2>1 DEF SessionInv, Sessions!Sessions
  <2>4. QED BY <1>2, <2>2, <2>3 DEF ArtifactInv
<1>3. QED BY <1>1, <1>2 DEF Sessions!Call

\* Every step of the seam keeps it.
LEMMA SessionsAccount ==
  ASSUME SessionInv, ArtifactInv, [Sessions!Next]_(Sessions!vars)
  PROVE  ArtifactInv'
<1>1. CASE UNCHANGED Sessions!vars
  BY <1>1 DEF Sessions!vars, ArtifactInv
<1>2. ASSUME NEW f \in Files, Sessions!Rewrite(f) PROVE ArtifactInv'
  <2>1. source' \in [Files -> Sessions!Contents]
    BY <1>2 DEF Sessions!Rewrite, ArtifactInv
  <2>2. UNCHANGED <<current, binding, state, listed, staged, held, artifact>>
    BY <1>2 DEF Sessions!Rewrite
  <2>3. QED BY <2>1, <2>2 DEF ArtifactInv
<1>3. ASSUME NEW f \in Files, Sessions!Copy(f) PROVE ArtifactInv'
  BY <1>3, CopyKeeps
<1>4. ASSUME NEW b \in Sessions!Bindings, Sessions!Configure(b) PROVE ArtifactInv'
  <2>1. /\ current' = current + 1 /\ current' \in Sessions!Sessions
        /\ binding' = [binding EXCEPT ![current'] = b]
        /\ state' = [state EXCEPT ![current'] = "new"]
        /\ UNCHANGED <<source, listed, staged, held, artifact>>
        /\ current # 0 => state[current] = "closed"
    BY <1>4, OwnersAssumption DEF Sessions!Configure, SessionInv, Sessions!Sessions
  <2>2. "closed" \notin Sessions!Live /\ "new" \notin Sessions!Live \cup Sessions!Ended
    BY DEF Sessions!Live, Sessions!Ended
  <2>3. listed = Sessions!Nothing /\ staged = Sessions!Nothing
    BY <2>1, <2>2 DEF SessionInv, ArtifactInv
  <2>4. \A t \in Sessions!Sessions :
          /\ state'[t] \in Sessions!Live => artifact'[t] = Sessions!Declared
          /\ state'[t] \in Sessions!Ended /\ t \in held' => binding'[t].mayKeep
    BY <2>1, <2>2 DEF SessionInv, ArtifactInv
  <2>5. QED BY <2>1, <2>3, <2>4 DEF ArtifactInv
<1>5. ASSUME NEW s \in Sessions!Sessions, Sessions!List(s) PROVE ArtifactInv'
  <2>1. /\ s = current /\ listed = Sessions!Nothing /\ state[s] = "new"
        /\ FileBytes(source, Files) <= MaxBytes
        /\ listed' = [f \in Files |-> ContentSize(source[f])]
        /\ UNCHANGED <<source, current, binding, state, staged, held, artifact>>
    BY <1>5 DEF Sessions!List, Sessions!In, FileBytes
  <2>2. staged = Sessions!Nothing
    BY <2>1 DEF ArtifactInv, Sessions!Live
  <2>3. \A f \in Files : listed'[f] \in Nat /\ listed'[f] = ContentSize(source[f])
    BY <2>1, OwnersAssumption DEF ArtifactInv
  <2>4. FileBytes(source, Files) = SumOf(listed', Files)
    BY <2>3, FileSums
  <2>5. QED BY <2>1, <2>2, <2>3, <2>4, NoCopy DEF ArtifactInv
<1>6. ASSUME NEW s \in Sessions!Sessions, Sessions!Prepare(s) PROVE ArtifactInv'
  <2>1. s = current /\ state[s] = "new" /\ listed' = Sessions!Nothing
        /\ UNCHANGED <<source, current, binding>>
    BY <1>6 DEF Sessions!Prepare, SessionInv
  <2>2. CASE Sessions!Call(s, "prepare", Sessions!Declared)
    BY <2>1, <2>2, CallAccounts
  <2>3. CASE Sessions!Discarded /\ UNCHANGED <<state, held, artifact>>
    BY <2>1, <2>3, NoCopy, OwnersAssumption DEF Sessions!Discarded, ArtifactInv
  <2>4. QED BY <1>6, <2>2, <2>3 DEF Sessions!Prepare, Sessions!Input
<1>7. ASSUME NEW s \in Sessions!Sessions,
             Sessions!Compile(s) \/ Sessions!Load(s) \/ Sessions!Execute(s)
      PROVE  ArtifactInv'
  <2>1. PICK stage : Sessions!Call(s, stage, artifact[s])
    BY <1>7 DEF Sessions!Compile, Sessions!Load, Sessions!Execute
  <2>2. s = current /\ state[s] \in Sessions!Live /\ listed' = Sessions!Nothing
          /\ UNCHANGED <<source, current, binding>>
    BY <1>7 DEF Sessions!Compile, Sessions!Load, Sessions!Execute, Sessions!In, Sessions!Live
  <2>3. artifact[s] = Sessions!Declared
    BY <2>2 DEF ArtifactInv
  <2>4. QED BY <2>1, <2>2, <2>3, CallAccounts
<1>8. ASSUME NEW s \in Sessions!Sessions, Sessions!Invalidate(s) \/ Sessions!Close(s)
      PROVE  ArtifactInv'
  <2>1. PICK how \in Sessions!Ended : Sessions!Ends(s, how, s \in held)
    BY <1>8 DEF Sessions!Invalidate, Sessions!Close, Sessions!Ended
  <2>2. /\ s = current /\ listed' = Sessions!Nothing /\ UNCHANGED <<source, current, binding>>
        /\ (s \in held) \in BOOLEAN
    BY <1>8 DEF Sessions!Invalidate, Sessions!Close, Sessions!In
  <2>3. QED BY <2>1, <2>2, EndAccounts
<1>9. QED BY <1>1, <1>2, <1>3, <1>4, <1>5, <1>6, <1>7, <1>8 DEF Sessions!Next

\* As the seam begins.
LEMMA ArtifactsBegin == Sessions!Init => ArtifactInv
<1>1. "absent" \notin Sessions!Live \cup Sessions!Ended
  BY DEF Sessions!Live, Sessions!Ended
<1>2. QED BY <1>1, NoCopy, OwnersAssumption DEF Sessions!Init, ArtifactInv

\* extensions.py: what a session works on, what is left of it, and its limit.
LEMMA ArtifactsAccount == Sessions!Spec => []Sessions!ArtifactsOwned
<1>1. SessionInv /\ ArtifactInv /\ [Sessions!Next]_(Sessions!vars) => ArtifactInv'
  BY SessionsAccount
<1>2. SessionInv /\ ArtifactInv => Sessions!ArtifactsOwned
  BY DEF SessionInv, ArtifactInv, Sessions!ArtifactsOwned, FileBytes
<1>3. QED BY <1>1, <1>2, ArtifactsBegin, SessionsInvariance, PTL DEF Sessions!Spec

-----------------------------------------------------------------------------
(* The process group of a worker                                           *)

\* The I/O of members, as ChildBudget adds it up.
GroupIO(S) == Group!MapThenSumSet(LAMBDA p : io[p], S)

\* It is a natural number.
LEMMA GroupSums ==
  ASSUME Group!TypeOK, NEW S \in SUBSET Group!Processes
  PROVE  GroupIO(S) \in Nat
<1>1. IsFiniteSet(S)
  BY OwnersAssumption, FS_AddElement, FS_Subset DEF Group!Processes
<1>2. \A x \in S : io[x] \in Nat
  BY OwnersAssumption DEF Group!TypeOK
<1>3. ASSUME NEW s \in SUBSET S, s # {} PROVE Pick(s) \in s
  BY <1>3, PickIsIn
<1>4. SumOf(io, S) \in Nat
  BY <1>1, <1>2, SumSplits
<1>5. QED BY <1>4 DEF GroupIO, Group!MapThenSumSet, Group!MapThenFoldSet, SumOf, Sums, Pick

\* The members that run.
LiveMembers == Group!InState("live")

\* explorer.py, resources.py: once its leader has been waited for a group takes
\* no new member, the evidence is what the leader did until its end, and the
\* last look of the parent has shown nobody.
GroupInv ==
  /\ Group!TypeOK
  /\ counters # Nil => counters.io = io[Leader]
  /\ watching = "final" \/ watcher \in {"await", "stopped"} => group[Leader] # "live"
  /\ watcher = "lifetime" => watching = "final"
  /\ watcher = "judge" /\ watching = "final" /\ sample = Nil
        => LiveMembers \cap Group!Visible = {}
  /\ watcher = "rescan" => sample # Nil
  /\ watcher = "lifetime" => LiveMembers \subseteq Foreign
  /\ watcher = "accepted" =>
       /\ counters # Nil /\ io[Leader] <= GroupBudget
       /\ LiveMembers \subseteq Foreign /\ group[Leader] # "live"
  /\ watcher = "stopped" => LiveMembers = {}

\* As a worker is started.
LEMMA GroupBegins == Group!Init => GroupInv
<1>1. SUFFICES ASSUME Group!Init PROVE GroupInv
  OBVIOUS
<1>2. 0 \in 0..MaxIO /\ 0 \in Nat
  BY OwnersAssumption
<1>3. Group!TypeOK
  BY <1>1, <1>2 DEF Group!Init, Group!TypeOK
<1>4. QED BY <1>1, <1>3 DEF Group!Init, GroupInv

\* Members work, leave and are reaped; the parent looks on.
LEMMA MembersKeep ==
  ASSUME GroupInv, NEW p \in Group!Processes, Group!Work(p) \/ Group!Exit(p)
  PROVE  GroupInv'
<1>1. CASE Group!Work(p)
  <2>1. io' = [io EXCEPT ![p] = io[p] + 1] /\ io[p] + 1 \in 0..MaxIO
    BY <1>1, OwnersAssumption DEF Group!Work, GroupInv, Group!TypeOK
  <2>2. Group!TypeOK'
    BY <1>1, <2>1 DEF Group!Work, GroupInv, Group!TypeOK
  <2>3. counters # Nil => io'[Leader] = io[Leader]
    BY <1>1, <2>1 DEF Group!Work, GroupInv, Group!TypeOK
  <2>4. LiveMembers' = LiveMembers /\ Group!Visible' = Group!Visible
    BY <1>1 DEF Group!Work, LiveMembers, Group!InState, Group!Visible
  <2>5. QED BY <1>1, <2>2, <2>3, <2>4 DEF Group!Work, GroupInv
<1>2. CASE Group!Exit(p)
  <2>1. Group!TypeOK'
    BY <1>2 DEF Group!Exit, GroupInv, Group!TypeOK
  <2>2. LiveMembers' \subseteq LiveMembers /\ Group!Visible' = Group!Visible
    BY <1>2 DEF Group!Exit, GroupInv, Group!TypeOK, LiveMembers, Group!InState, Group!Visible
  <2>3. group'[Leader] = "live" => group[Leader] = "live"
    BY <1>2 DEF Group!Exit, GroupInv, Group!TypeOK, Group!Processes
  <2>4. QED BY <1>2, <2>1, <2>2, <2>3 DEF Group!Exit, GroupInv
<1>3. QED BY <1>1, <1>2

\* Helpers come while the leader lives, and are reaped.
LEMMA HelpersKeep ==
  ASSUME GroupInv, NEW h \in Helpers, Group!Fork(h) \/ Group!Reap(h)
  PROVE  GroupInv'
<1>1. CASE Group!Fork(h)
  <2>1. Group!TypeOK'
    BY <1>1 DEF Group!Fork, GroupInv, Group!TypeOK, Group!Processes
  <2>2. /\ watching # "final" /\ watcher \notin {"await", "stopped", "lifetime", "accepted"}
        /\ UNCHANGED <<io, waited, counters, hidepid, watcher, watching, sample, total>>
    BY <1>1 DEF Group!Fork, GroupInv
  <2>3. QED BY <2>1, <2>2 DEF GroupInv
<1>2. CASE Group!Reap(h)
  <2>1. Group!TypeOK'
    BY <1>2 DEF Group!Reap, GroupInv, Group!TypeOK, Group!Processes
  <2>2. LiveMembers' \subseteq LiveMembers /\ Group!Visible' = Group!Visible
    BY <1>2 DEF Group!Reap, GroupInv, Group!TypeOK, LiveMembers, Group!InState, Group!Visible
  <2>3. group'[Leader] = "live" => group[Leader] = "live"
    BY <1>2 DEF Group!Reap, GroupInv, Group!TypeOK, Group!Processes
  <2>4. QED BY <1>2, <2>1, <2>2, <2>3 DEF Group!Reap, GroupInv
<1>3. QED BY <1>1, <1>2

\* The leader's evidence is of what it did, for it does no more.
LEMMA PublishKeepsGroup == ASSUME GroupInv, Group!Publish PROVE GroupInv'
<1>1. counters' = [io |-> io[Leader], children |-> waited] /\ Leader \in Group!Processes
  BY DEF Group!Publish, Group!Processes
<1>2. Group!TypeOK' /\ counters'.io = io[Leader]
  BY <1>1 DEF Group!Publish, GroupInv, Group!TypeOK
<1>3. LiveMembers' = LiveMembers /\ Group!Visible' = Group!Visible
  BY DEF Group!Publish, LiveMembers, Group!InState, Group!Visible
<1>4. QED BY <1>1, <1>2, <1>3 DEF Group!Publish, GroupInv

\* The parent of a shadow worker looks at the group, and judges what it saw.
LEMMA ScanKeeps == ASSUME GroupInv, Group!Scan PROVE GroupInv'
<1> DEFINE members == LiveMembers \cap Group!Visible
<1>1. /\ sample' = IF members = {} THEN Nil ELSE GroupIO(members)
      /\ watcher' \in {"raise", "judge"} /\ watcher = "scan"
      /\ UNCHANGED <<group, io, waited, counters, hidepid, watching, total>>
  BY DEF Group!Scan, Group!To, LiveMembers, GroupIO
<1>2. members \in SUBSET Group!Processes
  BY DEF LiveMembers, Group!InState
<1> HIDE DEF members
<1>3. GroupIO(members) \in Nat
  BY <1>2, GroupSums DEF GroupInv
<1>4. sample' \in Nat \cup {Nil} /\ (sample' = Nil => members = {})
  BY <1>1, <1>3, OwnersAssumption
<1>5. Group!TypeOK'
  BY <1>1, <1>4 DEF GroupInv, Group!TypeOK
<1>6. LiveMembers' = LiveMembers /\ Group!Visible' = Group!Visible
  BY <1>1 DEF LiveMembers, Group!InState, Group!Visible
<1>7. QED BY <1>1, <1>4, <1>5, <1>6 DEF GroupInv, members

\* A leader that is gone is not among the members.
LEMMA ReapedLeader ==
  ASSUME GroupInv, NEW next, next = Group!Reaped \/ next = group, group' = next
  PROVE  /\ group' \in [Group!Processes -> {"none", "live", "zombie", "gone"}]
         /\ LiveMembers' \subseteq LiveMembers
         /\ group'[Leader] = "live" => group[Leader] = "live"
         /\ next = Group!Reaped => group'[Leader] = "gone"
<1>1. /\ Leader \in Group!Processes
      /\ group \in [Group!Processes -> {"none", "live", "zombie", "gone"}]
  BY DEF GroupInv, Group!TypeOK, Group!Processes
<1>2. QED BY <1>1 DEF Group!Reaped, LiveMembers, Group!InState

\* A look that shows nobody once the leader was waited for is the last one;
\* another one is repeated after the leader is gone.
LEMMA JudgeKeeps == ASSUME GroupInv, Group!Judge PROVE GroupInv'
<1>1. /\ UNCHANGED <<io, waited, counters, hidepid, watching, sample>> /\ watcher = "judge"
      /\ Group!Visible' = Group!Visible
  BY DEF Group!Judge, Group!Visible
<1>2. CASE sample = Nil
  <2>1. watcher' = Group!Passed /\ UNCHANGED <<group, total>>
    BY <1>2 DEF Group!Judge, Group!To
  <2>2. LiveMembers' = LiveMembers
    BY <2>1 DEF LiveMembers, Group!InState
  <2>3. watcher' = IF watching = "loop" THEN "communicate" ELSE "lifetime"
    BY <2>1 DEF Group!Passed
  <2>4. Group!TypeOK'
    BY <1>1, <2>1, <2>3 DEF GroupInv, Group!TypeOK
  <2>5. watching = "final" => LiveMembers \subseteq Foreign
    BY <1>1, <1>2 DEF GroupInv, LiveMembers, Group!InState, Group!Visible
  <2>6. QED BY <1>1, <2>1, <2>2, <2>3, <2>4, <2>5 DEF GroupInv, Group!TypeOK
<1>3. CASE sample # Nil
  <2>1. /\ total' = sample /\ group' = IF Group!Exited THEN Group!Reaped ELSE group
        /\ watcher' = IF Group!Exited THEN "rescan"
                     ELSE IF sample > GroupBudget THEN "raise" ELSE Group!Passed
    BY <1>3 DEF Group!Judge, Group!To
  <2>2. /\ group' \in [Group!Processes -> {"none", "live", "zombie", "gone"}]
        /\ group'[Leader] = "live" => group[Leader] = "live"
    BY <2>1, ReapedLeader
  <2>3. watcher' \in {"rescan", "raise", "communicate"}
    BY <2>1 DEF Group!Passed, Group!Exited, GroupInv, Group!TypeOK
  <2>4. Group!TypeOK'
    BY <1>1, <1>3, <2>1, <2>2, <2>3 DEF GroupInv, Group!TypeOK
  <2>5. QED BY <1>1, <1>3, <2>1, <2>2, <2>3, <2>4 DEF GroupInv
<1>4. QED BY <1>2, <1>3

\* The look is repeated.
LEMMA RescanKeeps == ASSUME GroupInv, Group!Rescan PROVE GroupInv'
<1>1. /\ UNCHANGED <<group, io, waited, counters, hidepid, watching, sample, total>>
      /\ Group!Visible' = Group!Visible /\ LiveMembers' = LiveMembers
  BY DEF Group!Rescan, Group!Visible, LiveMembers, Group!InState
<1>2. CASE watcher' = "raise"
  <2>1. Group!TypeOK'
    BY <1>1, <1>2 DEF GroupInv, Group!TypeOK
  <2>2. QED BY <1>1, <1>2, <2>1 DEF GroupInv
<1>3. CASE watcher' = Group!Passed /\ LiveMembers \cap Group!Visible = {}
  <2>1. watcher' = IF watching = "loop" THEN "communicate" ELSE "lifetime"
    BY <1>3 DEF Group!Passed
  <2>2. Group!TypeOK'
    BY <1>1, <2>1 DEF GroupInv, Group!TypeOK
  <2>3. LiveMembers \subseteq Foreign
    BY <1>3 DEF LiveMembers, Group!InState, Group!Visible
  <2>4. QED BY <1>1, <2>1, <2>2, <2>3 DEF GroupInv, Group!TypeOK
<1>4. QED BY <1>2, <1>3 DEF Group!Rescan, Group!To, LiveMembers

\* The leader is waited for when it has exited.
LEMMA CommunicateKeeps == ASSUME GroupInv, Group!Communicate PROVE GroupInv'
<1>1. /\ UNCHANGED <<io, waited, counters, hidepid, sample, total>> /\ watcher' = "scan"
      /\ group' = IF Group!Exited THEN Group!Reaped ELSE group
      /\ watching' = IF Group!Exited THEN "final" ELSE "loop"
  BY DEF Group!Communicate, Group!To
<1>2. /\ group' \in [Group!Processes -> {"none", "live", "zombie", "gone"}]
      /\ group'[Leader] = "live" => group[Leader] = "live"
  BY <1>1, ReapedLeader
<1>3. watching' = "final" => group'[Leader] # "live"
  BY <1>1, <1>2 DEF Group!Exited
<1>4. Group!TypeOK'
  BY <1>1, <1>2 DEF GroupInv, Group!TypeOK
<1>5. QED BY <1>1, <1>3, <1>4 DEF GroupInv

\* What the leader has counted is counted, and what was sampled.
LEMMA LifetimeKeeps == ASSUME GroupInv, Group!CheckLifetime PROVE GroupInv'
<1>1. /\ UNCHANGED <<group, io, waited, counters, hidepid, watching, sample>>
      /\ watcher = "lifetime" /\ LiveMembers' = LiveMembers
      /\ total' = (IF counters = Nil THEN total ELSE Group!Larger(total, counters.io))
      /\ watcher' = (IF counters # Nil /\ ~counters.children /\ total' <= GroupBudget
                    THEN "accepted" ELSE "raise")
  BY DEF Group!CheckLifetime, Group!To, LiveMembers, Group!InState
<1>2. counters # Nil => counters.io \in Nat /\ counters.io = io[Leader]
  BY OwnersAssumption DEF GroupInv, Group!TypeOK
<1>3. total \in Nat
  BY DEF GroupInv, Group!TypeOK
<1>4. total' \in Nat /\ (counters # Nil => io[Leader] <= total' /\ io[Leader] \in Nat)
  BY <1>1, <1>2, <1>3 DEF Group!Larger
<1>5. watcher' = "accepted" => counters # Nil /\ total' <= GroupBudget
  BY <1>1
<1>6. watcher' = "accepted" => io[Leader] <= GroupBudget
  BY <1>4, <1>5, OwnersAssumption
<1>7. watcher' \in {"accepted", "raise"}
  BY <1>1
<1>8. Group!TypeOK'
  BY <1>1, <1>4, <1>7 DEF GroupInv, Group!TypeOK
<1>9. LiveMembers \subseteq Foreign /\ watching = "final" /\ group[Leader] # "live"
  BY <1>1 DEF GroupInv
<1>10. QED BY <1>1, <1>5, <1>6, <1>7, <1>8, <1>9 DEF GroupInv

\* Whoever is killed is not live, and the leader is waited for.
LEMMA KilledGroup ==
  ASSUME GroupInv, group' = [Group!Killed EXCEPT ![Leader] = "gone"]
  PROVE  /\ group' \in [Group!Processes -> {"none", "live", "zombie", "gone"}]
         /\ group'[Leader] = "gone" /\ LiveMembers' \subseteq LiveMembers
<1>1. Group!Killed \in [Group!Processes -> {"none", "live", "zombie", "gone"}]
  BY DEF GroupInv, Group!TypeOK, Group!Killed
<1>2. \A p \in Group!Processes : Group!Killed[p] = "live" => group[p] = "live"
  BY DEF Group!Killed
<1>3. Leader \in Group!Processes
  BY DEF Group!Processes
<1>4. QED BY <1>1, <1>2, <1>3 DEF LiveMembers, Group!InState

\* A group is killed, polled, or stopped.
LEMMA StopsKeep ==
  ASSUME GroupInv, Group!TooLate \/ Group!Defer \/ Group!Poll \/ Group!Stop
  PROVE  GroupInv'
<1>1. CASE Group!TooLate
  <2>1. Group!TypeOK' /\ LiveMembers' = LiveMembers
    BY <1>1 DEF Group!TooLate, Group!To, GroupInv, Group!TypeOK, LiveMembers, Group!InState
  <2>2. QED BY <1>1, <2>1 DEF Group!TooLate, Group!To, GroupInv
<1>2. CASE Group!Defer
  <2>1. /\ group' = [Group!Killed EXCEPT ![Leader] = "gone"] /\ watcher' = "deferred"
        /\ UNCHANGED <<io, waited, counters, hidepid, watching, sample, total>>
    BY <1>2 DEF Group!Defer, Group!To
  <2>2. Group!TypeOK' /\ group'[Leader] = "gone"
    BY <2>1, KilledGroup DEF GroupInv, Group!TypeOK
  <2>3. QED BY <2>1, <2>2 DEF GroupInv
<1>3. CASE Group!Poll
  <2>1. /\ group' = Group!Reaped /\ watcher = "running"
        /\ UNCHANGED <<io, waited, counters, hidepid, watcher, watching, sample, total>>
    BY <1>3 DEF Group!Poll
  <2>2. Group!TypeOK' /\ group'[Leader] = "gone"
    BY <2>1, ReapedLeader DEF GroupInv, Group!TypeOK
  <2>3. QED BY <2>1, <2>2 DEF GroupInv
<1>4. CASE Group!Stop
  <2>1. /\ UNCHANGED <<io, waited, counters, hidepid, watching, sample, total>>
        /\ watcher = "running"
    BY <1>4 DEF Group!Stop
  <2>2. CASE Group!Signalled = {} /\ Group!Members # {}
    <3>1. watcher' = "refused" /\ UNCHANGED group
      BY <1>4, <2>2 DEF Group!Stop, Group!To
    <3>2. Group!TypeOK'
      BY <2>1, <3>1 DEF GroupInv, Group!TypeOK
    <3>3. QED BY <2>1, <3>1, <3>2 DEF GroupInv
  <2>3. CASE ~(Group!Signalled = {} /\ Group!Members # {})
    <3>1. /\ group' = [Group!Killed EXCEPT ![Leader] = "gone"]
          /\ watcher' = IF Group!Members = {} THEN "stopped" ELSE "await"
      BY <1>4, <2>3 DEF Group!Stop, Group!To
    <3>2. Group!TypeOK' /\ group'[Leader] = "gone" /\ LiveMembers' \subseteq LiveMembers
      BY <2>1, <3>1, KilledGroup DEF GroupInv, Group!TypeOK
    <3>3. watcher' = "stopped" => LiveMembers' = {}
      BY <3>1, <3>2 DEF Group!Members, LiveMembers
    <3>4. QED BY <2>1, <3>1, <3>2, <3>3 DEF GroupInv
  <2>4. QED BY <2>2, <2>3
<1>5. QED BY <1>1, <1>2, <1>3, <1>4

\* The parent waits for the group, and gives up or finds it empty.
LEMMA AwaitKeeps ==
  ASSUME GroupInv, Group!AwaitExit \/ Group!StopTooLate
  PROVE  GroupInv'
<1>1. /\ UNCHANGED <<group, io, waited, counters, hidepid, watching, sample, total>>
      /\ watcher = "await" /\ watcher' \in {"await", "refused", "stopped"}
      /\ watcher' = "stopped" => ~Group!GroupLive
  BY DEF Group!AwaitExit, Group!StopTooLate, Group!To
<1>2. LiveMembers' = LiveMembers
  BY <1>1 DEF LiveMembers, Group!InState
<1>3. ~Group!GroupLive => LiveMembers = {}
  BY DEF Group!GroupLive, Group!Members, LiveMembers, Group!InState, Group!Visible
<1>4. Group!TypeOK'
  BY <1>1 DEF GroupInv, Group!TypeOK
<1>5. QED BY <1>1, <1>2, <1>3, <1>4 DEF GroupInv

\* Every step keeps it.
LEMMA GroupKeeps ==
  ASSUME GroupInv, [Group!Next]_(Group!vars)
  PROVE  GroupInv'
<1>1. CASE UNCHANGED Group!vars
  BY <1>1 DEF Group!vars, GroupInv, Group!TypeOK, LiveMembers, Group!InState, Group!Visible
<1>2. CASE Group!Next
  BY <1>2, MembersKeep, HelpersKeep, PublishKeepsGroup, ScanKeeps, JudgeKeeps, RescanKeeps,
     CommunicateKeeps, LifetimeKeeps, StopsKeep, AwaitKeeps DEF Group!Next
<1>3. QED BY <1>1, <1>2

\* In every behaviour what the parent of a worker has found out about its group
\* is still so when it acts on it (explorer.py, resources.py).
THEOREM GroupInvariance == Group!Spec => []GroupInv
<1>1. GroupInv /\ [Group!Next]_(Group!vars) => GroupInv'
  BY GroupKeeps
<1>2. QED BY <1>1, GroupBegins, PTL DEF Group!Spec

-----------------------------------------------------------------------------
(* All of them                                                             *)

\* allocation.py, indexes.py, multidevice.py, extensions.py: what is given out is
\* created once and given back once, never while somebody holds it, and never
\* given out again once its end has begun, whatever a release raises.
THEOREM OwnersLease == Owning => ResourcesLeased
BY PoolRefinement, HandleRefinement, ShardsRefine, SessionsRefine DEF Owning, ResourcesLeased

\* allocation.py, indexes.py, extensions.py: what is held is in the tables and within
\* the budget, and a session works on the declared content, whatever fails.
THEOREM OwnersAccount == Owning => []ResourcesAccounted
BY PoolAccounts, ManagerAccounts, ArtifactsAccount, PTL DEF Owning, ResourcesAccounted

\* Whatever the members of a worker's group do, whoever they run as and whatever
\* /proc hides: an accepted result comes from a leader that has exited within its
\* budget and left nothing of its own running, and a group that was stopped is
\* empty (explorer.py, resources.py).
THEOREM GroupsContained == Owning => []WorkersContained
<1>1. GroupInv => WorkersContained
  BY DEF GroupInv, WorkersContained, Group!AcceptedIsAlone, Group!StoppedIsEmpty, LiveMembers
<1>2. QED BY <1>1, GroupInvariance, PTL DEF Owning
=============================================================================
